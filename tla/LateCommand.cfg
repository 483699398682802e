SPECIFICATION Spec
CONSTANTS
  Mutation <- MCMutation
  Player = {anna, boris}
  Owner <- MCOwner
  NoMutation = NoMutation
  QueueMax = 2
  PlayerMax = 1
  Command = {c1, c2}
  Sender <- MCSender
  Name <- MCName
  NoCommand = NoCommand
  CommandMax = 2
  SenderMax = 2
  m1 = m1
  m2 = m2
  m3 = m3
  c1 = c1
  c2 = c2
  anna = anna
  boris = boris
CHECK_DEADLOCK FALSE
INVARIANT TakenOffStaysOff
