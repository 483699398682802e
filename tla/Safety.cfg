SPECIFICATION Spec
CONSTANTS
  Order <- MCOrder
  Player = {anna}
  NoPlayer = NoPlayer
  Panel = {panel}
  Native = {native}
  NoHost = NoHost
  NoOrder = NoOrder
  Owner <- MCSharedOwner
  Calls <- MCCalls
  Deferred = {}
  Routes <- MCOneRoute
  Sellable <- MCOrder
  Limit = 2
  AutoDeliver = FALSE
  OnlyOnline = TRUE
  DeliveryDelay = FALSE
  LogRolls = FALSE
  History = {"new", "dispatched", "exhausted", "delivered"}
  MaxStops = 1
  a = a
  b = b
  anna = anna
  boris = boris
INVARIANT DeliveryInv
INVARIANT AtMostOnce
INVARIANT UnresolvedStaysPending
INVARIANT WriteAhead
INVARIANT DeliveredIsGranted
PROPERTY PendingKeepsUndelivered
PROPERTY ImplementsPromise
