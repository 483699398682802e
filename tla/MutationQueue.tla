--------------------------- MODULE MutationQueue ---------------------------
(***************************************************************************)
(* The queue through which the Lua script changes the world of the game.   *)
(* One mutation at a time holds the slot MUTATION_QUEUE_CURRENT; it is     *)
(* started in the game thread, may end in a later callback, and is         *)
(* cancelled when it takes too long.  A mutation that another one enqueues *)
(* while it runs is run at once, inside it.                                *)
(*                                                                         *)
(* The functions of the script run to completion one after the other, but  *)
(* they call each other: frames holds those that are being executed, the   *)
(* innermost first.                                                        *)
(***************************************************************************)
EXTENDS Naturals, Sequences, FiniteSets

CONSTANTS
  Mutation, Player,
  Owner,              \* Owner[m]: the player of m
  NoMutation,
  QueueMax,           \* MUTATION_QUEUE_MAX
  PlayerMax           \* MUTATION_QUEUE_PLAYER_MAX

ASSUME MutationConstantsOK ==
  /\ Owner \in [Mutation -> Player]
  /\ NoMutation \notin Mutation
  /\ QueueMax \in Nat /\ PlayerMax \in Nat

VARIABLES
  queue,              \* MUTATION_QUEUE
  current,            \* MUTATION_QUEUE_CURRENT; busy when it is not NoMutation
  due,                \* the time MUTATION_QUEUE_NEXT_AT has come
  depth,              \* MUTATION_QUEUE_REENTRANT_DEPTH
  at,                 \* at[m]: how far m has come
  cancelled,          \* the mutations that were taken off because of the time limit
  ended,              \* those that gave the slot back themselves
  frames              \* the functions being executed

mutations == <<queue, current, due, depth, at, cancelled, ended>>

\* scheduled: waits for the game thread; running: in its turn; inline: inside
\* another one; pending: has returned and will end in a callback.
MutationPlace == {"new", "queued", "scheduled", "running", "inline", "pending", "done"}

MutationTypeOK ==
  /\ queue \in Seq(Mutation)
  /\ current \in Mutation \cup {NoMutation}
  /\ due \in BOOLEAN
  /\ depth \in Nat
  /\ at \in [Mutation -> MutationPlace]
  /\ cancelled \subseteq Mutation
  /\ ended \subseteq Mutation

MutationInit ==
  /\ queue = <<>> /\ current = NoMutation /\ due = TRUE /\ depth = 0
  /\ at = [m \in Mutation |-> "new"]
  /\ cancelled = {} /\ ended = {}

Idle == frames = <<>>
Innermost(m) == ~Idle /\ frames[1] = m

\* drainMutationQueue with a free slot, called when the queue, the places and the
\* frames are q, places and fs, the depth d, and the spacing is over if go holds.  The
\* next mutation is given to the game thread, or run at once when that cannot be.
Drain(q, places, fs, d, go) ==
  /\ due' = go
  /\ IF q = <<>> \/ ~go
       THEN queue' = q /\ current' = NoMutation /\ at' = places /\ frames' = fs /\ depth' = d
       ELSE /\ queue' = Tail(q) /\ current' = Head(q)
            /\ \/ /\ at' = [places EXCEPT ![Head(q)] = "scheduled"]
                  /\ frames' = fs /\ depth' = d
               \/ /\ at' = [places EXCEPT ![Head(q)] = "running"]
                  /\ frames' = <<Head(q)>> \o fs /\ depth' = d + 1

\* Mutant: the mutation that holds the slot is not counted.
PlayerDepthQueued(p) == Cardinality({i \in DOMAIN queue : Owner[queue[i]] = p})

\* mutationQueuePlayerDepth
PlayerDepth(p) ==
  Cardinality({i \in DOMAIN queue : Owner[queue[i]] = p})
    + (IF current # NoMutation /\ Owner[current] = p THEN 1 ELSE 0)

\* The caller is any function being executed, or the loop that polls for commands.
\* Inside a mutation that runs, m is run at once.
EnqueueInline(m) ==
  /\ at[m] = "new" /\ depth > 0
  /\ at' = [at EXCEPT ![m] = "inline"]
  /\ frames' = <<m>> \o frames
  /\ UNCHANGED <<queue, current, due, depth, cancelled, ended>>

\* A mutation that finds the queue full, or too many of its player's before it, is
\* refused, which changes nothing here; it may come again.
\* The queue is drained at once, unless somebody says that a player's command is
\* being executed (inside): then the loop does it.
Enqueue(m, inside) ==
  /\ at[m] = "new" /\ depth = 0
  /\ Len(queue) < QueueMax /\ PlayerDepth(Owner[m]) < PlayerMax
  /\ LET placed == [at EXCEPT ![m] = "queued"]
     IN  IF current = NoMutation /\ ~inside
           THEN Drain(Append(queue, m), placed, frames, depth, due)
           ELSE /\ queue' = Append(queue, m) /\ at' = placed
                /\ UNCHANGED <<current, due, depth, frames>>
  /\ UNCHANGED <<cancelled, ended>>

\* The loop "mutation-queue".
Pump ==
  /\ Idle /\ current = NoMutation
  /\ due /\ queue # <<>>
  /\ Drain(queue, at, frames, depth, due)
  /\ UNCHANGED <<cancelled, ended>>

\* Mutant: the time limit starts only when the function has been executed.
PumpTimeoutPending ==
  /\ Idle /\ current # NoMutation /\ at[current] = "pending"
  /\ cancelled' = cancelled \cup {current}
  /\ \E go \in BOOLEAN : Drain(queue, at, frames, 0, go)
  /\ UNCHANGED ended

\* The same loop, when the mutation in the slot has exceeded the time limit.
PumpTimeout ==
  /\ Idle /\ current # NoMutation
  /\ cancelled' = cancelled \cup {current}
  /\ \E go \in BOOLEAN : Drain(queue, at, frames, 0, go)
  /\ UNCHANGED ended

SpacingEnds ==
  /\ ~due /\ due' = TRUE
  /\ UNCHANGED <<queue, current, depth, at, cancelled, ended, frames>>

\* Mutant: a mutation that was cancelled is started all the same.
MayStartAlways(m) == TRUE

\* The check at the start of runItem.
MayStart(m) == m \notin cancelled /\ current = m

\* The game thread gets to the mutation.
RunItem(m) ==
  /\ Idle /\ at[m] = "scheduled"
  /\ IF MayStart(m)
       THEN /\ at' = [at EXCEPT ![m] = "running"]
            /\ frames' = <<m>> \o frames /\ depth' = depth + 1
       ELSE at' = [at EXCEPT ![m] = "done"] /\ UNCHANGED <<frames, depth>>
  /\ UNCHANGED <<queue, current, due, cancelled, ended>>

\* Mutant: the depth is not kept from below.
OuterBelow(d) == d - 1

\* The depth when runItem leaves the function; Finish may have reset it before.
Outer(d) == IF d > 0 THEN d - 1 ELSE 0

\* The function of a mutation returns: an inline one, one that has given up its turn
\* before, one that goes on in callbacks, and one that is done.
ReturnInline(m) ==
  /\ Innermost(m) /\ at[m] = "inline"
  /\ at' = [at EXCEPT ![m] = "done"]
  /\ frames' = Tail(frames)
  /\ UNCHANGED <<queue, current, due, depth, cancelled, ended>>

ReturnStale(m) ==
  /\ Innermost(m) /\ at[m] = "running"
  /\ m \in cancelled \/ current # m
  /\ at' = [at EXCEPT ![m] = "done"]
  /\ frames' = Tail(frames) /\ depth' = Outer(depth)
  /\ UNCHANGED <<queue, current, due, cancelled, ended>>

ReturnPending(m) ==
  /\ Innermost(m) /\ at[m] = "running"
  /\ m \notin cancelled /\ current = m
  /\ at' = [at EXCEPT ![m] = "pending"]
  /\ frames' = Tail(frames) /\ depth' = Outer(depth)
  /\ UNCHANGED <<queue, current, due, cancelled, ended>>

ReturnDone(m) ==
  /\ Innermost(m) /\ at[m] = "running"
  /\ m \notin cancelled /\ current = m
  /\ ended' = ended \cup {m}
  /\ \E go \in BOOLEAN :
       Drain(queue, [at EXCEPT ![m] = "done"], Tail(frames), Outer(depth), go)
  /\ UNCHANGED cancelled

\* Mutant: a late callback frees the slot, whoever holds it.
MayFinishAlways(m) == TRUE

\* The check at the start of finishMutationQueueAsync.
MayFinish(m) == m \notin cancelled /\ current = m

\* Mutant: the depth stays as it is.
FinishKeepsDepth(m) ==
  /\ (Idle /\ at[m] = "pending") \/ (Innermost(m) /\ at[m] = "running")
  /\ MayFinish(m)
  /\ ended' = ended \cup {m}
  /\ LET place == IF Idle THEN "done" ELSE "running"
     IN  \E go \in BOOLEAN : Drain(queue, [at EXCEPT ![m] = place], frames, depth, go)
  /\ UNCHANGED cancelled

\* finishMutationQueueAsync, called in a callback or by the function of m itself.
Finish(m) ==
  /\ (Idle /\ at[m] = "pending") \/ (Innermost(m) /\ at[m] = "running")
  /\ MayFinish(m)
  /\ ended' = ended \cup {m}
  /\ LET place == IF Idle THEN "done" ELSE "running"
     IN  \E go \in BOOLEAN : Drain(queue, [at EXCEPT ![m] = place], frames, 0, go)
  /\ UNCHANGED cancelled

Return(m) == ReturnInline(m) \/ ReturnStale(m) \/ ReturnPending(m) \/ ReturnDone(m)

\* What mutations do, when inside says whether a player's command is executed.
MutationStep(inside) ==
  \/ Pump \/ PumpTimeout \/ SpacingEnds
  \/ \E m \in Mutation :
       \/ EnqueueInline(m) \/ Enqueue(m, inside)
       \/ RunItem(m) \/ Return(m) \/ Finish(m)

---------------------------------------------------------------------------

\* The mutations that were started and have neither ended nor been cancelled.
Unfinished ==
  {m \in Mutation : at[m] \in {"scheduled", "running", "pending"}} \ (ended \cup cancelled)

\* One mutation at a time: the slot is taken exactly while a started mutation has not
\* ended, and no late callback of another one gives it away.
SlotIsHeld == Unfinished = {current} \ {NoMutation}

\* A nested mutation is run inline only inside the mutation that holds the slot; when
\* that one has given its turn up, what it enqueues has to wait like the others.
NestedInHolder ==
  depth = IF current # NoMutation /\ at[current] = "running" THEN 1 ELSE 0

\* No player has more mutations waiting or in the slot than the limit allows.
PlayerLimit ==
  \A p \in Player :
    Cardinality({m \in Mutation : Owner[m] = p /\ (at[m] = "queued" \/ m = current)})
      <= PlayerMax

\* A mutation that was taken off never starts to run.
CancelledNeverStarts ==
  [][\A m \in cancelled : at'[m] = "running" => at[m] = "running"]_<<mutations, frames>>

\* Every mutation in the queue gets its turn, although others hang or never end.
MutationsGetTurn == \A m \in Mutation : at[m] = "queued" ~> at[m] # "queued"
=============================================================================
