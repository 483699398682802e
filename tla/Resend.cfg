SPECIFICATION Spec
CONSTANTS
  Order = {a}
  Player = {anna}
  NoPlayer = NoPlayer
  Panel = {}
  Native = {native}
  NoHost = NoHost
  NoOrder = NoOrder
  Owner <- MCSharedOwner
  Calls <- MCOneCall
  Deferred = {}
  Routes <- MCTwoRoutes
  Sellable = {a}
  Limit = 1
  AutoDeliver = TRUE
  OnlyOnline = TRUE
  DeliveryDelay = FALSE
  LogRolls = FALSE
  History = {"new"}
  MaxStops = 1
  a = a
  b = b
  anna = anna
  boris = boris
INVARIANT AtMostOnce
