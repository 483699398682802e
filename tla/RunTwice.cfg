SPECIFICATION Spec
CONSTANTS
  Request <- MCRequest
  Panel = {p}
  Kind <- MCMixed
  NoRequest = NoRequest
  SlowClose = TRUE
  MaxStops = 0
  p = p
  q = q
  n = n
INVARIANT RunsAtMostOnce
