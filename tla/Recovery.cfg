SPECIFICATION FairSpec
CONSTANTS
  Order = {a}
  Player = {anna}
  NoPlayer = NoPlayer
  Panel = {panel}
  Native = {native}
  NoHost = NoHost
  NoOrder = NoOrder
  Owner <- MCSharedOwner
  Calls <- MCOneCall
  Deferred = {a}
  Routes <- MCTwoRoutes
  Sellable = {a}
  Limit = 1
  AutoDeliver = TRUE
  OnlyOnline = TRUE
  DeliveryDelay = TRUE
  LogRolls = FALSE
  History = {"new", "retried"}
  MaxStops = 1
  a = a
  b = b
  anna = anna
  boris = boris
PROPERTY DeliveredIsConfirmed
PROPERTY OpenIsAttempted
