SPECIFICATION FairSpec
CONSTANTS
  Request <- MCRequest
  Panel = {p, q}
  Kind <- MCDirect
  NoRequest = NoRequest
  SlowClose = TRUE
  MaxStops = 0
  p = p
  q = q
  n = n
PROPERTY CallsEnd
