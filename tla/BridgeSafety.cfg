SPECIFICATION Spec
CONSTANTS
  Request <- MCRequest
  Panel = {p}
  Kind <- MCMixed
  NoRequest = NoRequest
  SlowClose = FALSE
  MaxStops = 1
  p = p
  q = q
  n = n
INVARIANT RunsAtMostOnce
INVARIANT OkIsEarned
INVARIANT RefusedNeverRuns
INVARIANT BridgeInv
PROPERTY ImplementsCalls
