SPECIFICATION Spec
CONSTANTS
  Order <- MCOrder
  Player <- MCPlayer
  NoPlayer = NoPlayer
  Panel = {panel}
  Native = {native}
  NoHost = NoHost
  NoOrder = NoOrder
  Owner <- MCOwner
  Calls <- MCCalls
  Deferred = {}
  Routes <- MCOneRoute
  Sellable <- MCOrder
  Limit = 1
  AutoDeliver = TRUE
  OnlyOnline = TRUE
  DeliveryDelay = FALSE
  LogRolls = TRUE
  History = {"new", "dispatched"}
  MaxStops = 1
  a = a
  b = b
  anna = anna
  boris = boris
INVARIANT AtMostOnce
