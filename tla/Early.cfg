SPECIFICATION Spec
CONSTANTS
  Order = {a}
  Player = {anna}
  NoPlayer = NoPlayer
  Panel = {panel}
  Native = {}
  NoHost = NoHost
  NoOrder = NoOrder
  Owner <- MCSharedOwner
  Calls <- MCOneCall
  Deferred = {a}
  Routes <- MCOneRoute
  Sellable = {a}
  Limit = 1
  AutoDeliver = TRUE
  OnlyOnline = TRUE
  DeliveryDelay = FALSE
  LogRolls = FALSE
  History = {"new"}
  MaxStops = 1
  a = a
  b = b
  anna = anna
  boris = boris
INVARIANT GivenIsGranted
