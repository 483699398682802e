------------------------ MODULE PlayerCommandQueue ------------------------
(***************************************************************************)
(* The chat commands of the players: a queue with a slot of its own, whose *)
(* commands are executed in the game thread and put mutations into the     *)
(* MutationQueue.                                                          *)
(***************************************************************************)
EXTENDS MutationQueue

CONSTANTS
  Command,
  Sender,             \* Sender[c]: the player who typed c
  Name,               \* Name[c]: the command name
  NoCommand,
  CommandMax,         \* PLAYER_COMMAND_QUEUE_MAX
  SenderMax           \* PLAYER_COMMAND_QUEUE_MAX_PER_PLAYER

ASSUME CommandConstantsOK ==
  /\ Sender \in [Command -> Player]
  /\ Command \cap Mutation = {} /\ NoCommand \notin Command
  /\ CommandMax \in Nat /\ SenderMax \in Nat

VARIABLES
  typed,              \* PLAYER_COMMAND_QUEUE
  serving,            \* PLAYER_COMMAND_QUEUE_CURRENT; busy when it is not NoCommand
  cat,                \* cat[c]: how far c has come
  takenOff            \* the commands whose player was told that they are off the queue

commands == <<typed, serving, cat, takenOff>>
vars == <<mutations, frames, commands>>

CommandPlace == {"new", "queued", "scheduled", "running", "done"}

TypeOK ==
  /\ MutationTypeOK
  /\ frames \in Seq(Mutation \cup Command)
  /\ typed \in Seq(Command)
  /\ serving \in Command \cup {NoCommand}
  /\ cat \in [Command -> CommandPlace]
  /\ takenOff \subseteq Command

Init ==
  /\ MutationInit
  /\ frames = <<>>
  /\ typed = <<>> /\ serving = NoCommand
  /\ cat = [c \in Command |-> "new"]
  /\ takenOff = {}

Waiting == {typed[i] : i \in DOMAIN typed}

\* playerCommandPendingFor and playerCommandPendingForCommand count these.
Unserved == Waiting \cup ({serving} \ {NoCommand})

Accepts(c) ==
  /\ Len(typed) < CommandMax
  /\ Cardinality({d \in Unserved : Sender[d] = Sender[c]}) < SenderMax
  /\ ~\E d \in Unserved : Sender[d] = Sender[c] /\ Name[d] = Name[c]

\* enqueuePlayerCommand, called by the chat hooks.  A command that is not accepted
\* may be typed again.
Type(c) ==
  /\ Idle /\ cat[c] = "new" /\ Accepts(c)
  /\ typed' = Append(typed, c) /\ cat' = [cat EXCEPT ![c] = "queued"]
  /\ UNCHANGED <<mutations, frames, serving, takenOff>>

\* The next command is given to the game thread, or executed at once when that cannot
\* be.
Serve(c) ==
  \/ cat' = [cat EXCEPT ![c] = "scheduled"] /\ UNCHANGED frames
  \/ cat' = [cat EXCEPT ![c] = "running"] /\ frames' = <<c>> \o frames

ServeNext ==
  IF typed = <<>>
    THEN serving' = NoCommand /\ UNCHANGED <<typed, cat, frames>>
    ELSE serving' = Head(typed) /\ typed' = Tail(typed) /\ Serve(Head(typed))

\* drainPlayerCommandQueue, called by the loop "player-command-queue".
ServePump ==
  /\ Idle /\ serving = NoCommand /\ typed # <<>>
  /\ ServeNext
  /\ UNCHANGED <<mutations, takenOff>>

\* Mutant: the command is taken off, and the slot is not freed.
ServeTimeoutKeeps ==
  /\ Idle /\ serving # NoCommand
  /\ takenOff' = takenOff \cup {serving}
  /\ UNCHANGED <<mutations, frames, typed, serving, cat>>

\* The same, when the command has exceeded its time limit.
ServeTimeout ==
  /\ Idle /\ serving # NoCommand
  /\ takenOff' = takenOff \cup {serving}
  /\ ServeNext
  /\ UNCHANGED mutations

\* The game thread gets to the command.  Its player may be gone.
ServeItem(c) ==
  /\ Idle /\ cat[c] = "scheduled"
  /\ cat' = [cat EXCEPT ![c] = "running"] /\ frames' = <<c>> \o frames
  /\ UNCHANGED <<mutations, typed, serving, takenOff>>

\* Mutant: the end of any command frees the slot.
MayFreeAlways(c) == TRUE

MayFree(c) == c \notin takenOff /\ serving = c

\* The function finish of drainPlayerCommandQueue.
Served(c) ==
  /\ Innermost(c)
  /\ cat' = [cat EXCEPT ![c] = "done"] /\ frames' = Tail(frames)
  /\ serving' = IF MayFree(c) THEN NoCommand ELSE serving
  /\ UNCHANGED <<mutations, typed, takenOff>>

Next ==
  \/ MutationStep(serving # NoCommand) /\ UNCHANGED commands
  \/ ServePump \/ ServeTimeout
  \/ \E c \in Command : Type(c) \/ ServeItem(c) \/ Served(c)

Spec == Init /\ [][Next]_vars

\* A function that is being executed returns.  Both loops run again and again, and
\* then see the end of a spacing or of a time limit.
ScriptFairness ==
  /\ WF_vars((\E m \in Mutation : Return(m)) /\ UNCHANGED commands)
  /\ WF_vars(\E c \in Command : Served(c))
  /\ WF_vars(SpacingEnds /\ UNCHANGED commands)
  /\ WF_vars(Pump /\ UNCHANGED commands) /\ WF_vars(PumpTimeout /\ UNCHANGED commands)
  /\ WF_vars(ServePump) /\ WF_vars(ServeTimeout)

---------------------------------------------------------------------------

\* The slot is taken exactly while a command that is not taken off has not ended: the
\* end of a command that was taken off does not free the slot of the next one.
CommandSlotIsHeld ==
  {c \in Command : cat[c] \in {"scheduled", "running"}} \ takenOff = {serving} \ {NoCommand}

\* Every command gets its turn, although others hang.
CommandsGetTurn == \A c \in Command : cat[c] = "queued" ~> cat[c] # "queued"

\* A command that was taken off because of its time limit is not executed any more
\* ("taken off the queue by the time limit", handled = false, says its event).
TakenOffStaysOff ==
  \A c \in takenOff : cat[c] # "running"
=============================================================================
