----------------------------- MODULE FileBridge -----------------------------
(***************************************************************************)
(* The file bridge between the game and its two client processes.  A       *)
(* client writes a command to command.json and waits for a result with     *)
(* the id of its request in result.json; the poll loop of the Lua script   *)
(* takes the command, has it run in the game thread and writes the result. *)
(* Each file is one slot.  A client excludes the other calls of its own    *)
(* process, but nothing excludes the other process, which overwrites and   *)
(* deletes the same two files.                                             *)
(***************************************************************************)
EXTENDS Naturals

CONSTANTS
  Request,            \* the calls, each with an id of its own
  Panel,              \* those of the panel; the others are of the native runtime
  Kind,               \* Kind[r]: how the script deals with the command of r
  NoRequest,
  SlowClose,          \* the script may see a file its native writer has not closed
  MaxStops            \* bound on the times a process stops

Native == Request \ Panel

\* A direct command only reads; a sync one runs in one go; a queued one runs from
\* the mutation queue and answers then; an early one answers when it is queued.
Kinds == {"direct", "sync", "queued", "early"}

ASSUME BridgeConstantsOK ==
  /\ Panel \subseteq Request
  /\ Kind \in [Request -> Kinds]
  /\ NoRequest \notin Request
  /\ SlowClose \in BOOLEAN
  /\ MaxStops \in Nat

VARIABLES
  command,            \* the request in command.json
  result,             \* the result in result.json: whose it is, and what it says
  at,                 \* at[r]: how far the call r has come
  got,                \* got[r]: the result its client has read
  poll,               \* the command the poll loop works on; busy: COMMAND_POLL_BUSY
  queued,             \* queued[r]: mutations of r that wait for the game thread
  ran,                \* ran[r]: times the command of r took effect
  fresh,              \* the heartbeat is less than 15 seconds old
  stops               \* times a process has stopped

files  == <<command, result>>
client == <<at, got>>
script == <<poll, queued, ran>>
vars   == <<files, client, script, fresh, stops>>

Ended   == {"ok", "failed", "refused", "died"}
Sent    == {"writing", "polling", "found", "reading"}
Holding == {"locked", "cleared"} \cup Sent      \* the lock of the process is taken
Place   == {"new", "checked"} \cup Holding \cup Ended

Result   == [id : Request, ok : BOOLEAN]
NoResult == [id |-> NoRequest, ok |-> FALSE]

BridgeTypeOK ==
  /\ command \in Request \cup {NoRequest}
  /\ result \in Result \cup {NoResult}
  /\ at \in [Request -> Place]
  /\ got \in [Request -> Result \cup {NoResult}]
  /\ poll \in [busy : {"idle", "read", "busy"}, req : Request \cup {NoRequest}]
  /\ queued \in [Request -> Nat]
  /\ ran \in [Request -> Nat]
  /\ fresh \in BOOLEAN
  /\ stops \in Nat

PollIdle == [busy |-> "idle", req |-> NoRequest]

Init ==
  /\ command = NoRequest /\ result = NoResult
  /\ at = [r \in Request |-> "new"]
  /\ got = [r \in Request |-> NoResult]
  /\ poll = PollIdle
  /\ queued = [r \in Request |-> 0]
  /\ ran = [r \in Request |-> 0]
  /\ fresh = TRUE
  /\ stops = 0

---------------------------------------------------------------------------
(* The clients.                                                             *)

Goes(r, place) == at' = [at EXCEPT ![r] = place]

\* A call of the same process holds the lock.
Locked(r) == \E q \in Request : (q \in Panel <=> r \in Panel) /\ at[q] \in Holding

\* The panel looks at the heartbeat before it waits for the lock.
PanelCheck(r) ==
  /\ r \in Panel /\ at[r] = "new"
  /\ Goes(r, IF fresh THEN "checked" ELSE "refused")
  /\ UNCHANGED <<files, got, script, fresh, stops>>

PanelLock(r) ==
  /\ at[r] = "checked" /\ ~Locked(r)
  /\ Goes(r, "locked")
  /\ UNCHANGED <<files, got, script, fresh, stops>>

\* The native runtime does not wait for its lock.
NativeLock(r) ==
  /\ r \in Native /\ at[r] = "new"
  /\ Goes(r, IF ~Locked(r) /\ fresh THEN "locked" ELSE "refused")
  /\ UNCHANGED <<files, got, script, fresh, stops>>

\* What is left in command.json when r has deleted it, which only the native runtime
\* does before it has written; a failure to delete is ignored.
Left(r) == IF r \in Native THEN {command, NoRequest} ELSE {command}

\* The result, and the command, of an earlier call are deleted.
Clear(r) ==
  /\ at[r] = "locked"
  /\ result' \in {result, NoResult}
  /\ command' \in Left(r)
  /\ Goes(r, "cleared")
  /\ UNCHANGED <<got, script, fresh, stops>>

\* Somebody has command.json open for writing.
HeldOpen == \E r \in Request : at[r] = "writing"

\* Mutant: the command is in the file, and the call fails all the same.
WriteUnnoticed(r) ==
  /\ at[r] = "cleared"
  /\ \/ command' = r /\ \E place \in {"polling", "refused"} : Goes(r, place)
     \/ command' \in Left(r) /\ Goes(r, "refused")
  /\ UNCHANGED <<result, got, script, fresh, stops>>

\* The command replaces whatever is in the file.  The panel renames a finished
\* file; the native runtime fills the file in place, or deletes it and leaves the text
\* in a .live file that the script does not read.
Write(r) ==
  /\ at[r] = "cleared"
  /\ \/ command' = r /\ ~HeldOpen
        /\ Goes(r, IF r \in Native /\ SlowClose THEN "writing" ELSE "polling")
     \/ command' \in Left(r) /\ Goes(r, "refused")
     \/ command' \in Left(r) /\ r \in Native /\ Goes(r, "polling")
  /\ UNCHANGED <<result, got, script, fresh, stops>>

CloseFile(r) ==
  /\ at[r] = "writing"
  /\ Goes(r, "polling")
  /\ UNCHANGED <<files, got, script, fresh, stops>>

Find(r) ==
  /\ at[r] = "polling" /\ result # NoResult
  /\ Goes(r, "found")
  /\ UNCHANGED <<files, got, script, fresh, stops>>

\* The other process may have deleted the file that was there: then the call fails,
\* and its command stays where it is.
Read(r) ==
  /\ at[r] = "found"
  /\ got' = [got EXCEPT ![r] = result]
  /\ Goes(r, IF result = NoResult THEN "failed" ELSE "reading")
  /\ UNCHANGED <<files, script, fresh, stops>>

\* Mutant: any result is taken for the answer.
AnyResult(r) == TRUE

\* The id of the result is the id of the request.
Own(r) == got[r].id = r

\* The file is deleted, also when another result is in it by now or when it was
\* the other process's; a failure to delete it is ignored.
Take(r) ==
  /\ at[r] = "reading"
  /\ result' \in {result, NoResult}
  /\ Goes(r, IF ~Own(r) THEN "polling" ELSE IF got[r].ok THEN "ok" ELSE "failed")
  /\ UNCHANGED <<command, got, script, fresh, stops>>

\* Mutant: the lock stays taken after a timeout.
TimeoutLocked(r) ==
  /\ at[r] = "polling"
  /\ command' \in {command, NoRequest}
  /\ Goes(r, "locked")
  /\ UNCHANGED <<result, got, script, fresh, stops>>

\* The command file is deleted, whoever's command is in it.
Timeout(r) ==
  /\ at[r] = "polling"
  /\ command' \in {command, NoRequest}
  /\ Goes(r, "failed")
  /\ UNCHANGED <<result, got, script, fresh, stops>>

\* The calls S end with their process.
Die(S) ==
  at' = [r \in Request |-> IF r \notin S \/ at[r] \in {"new"} \cup Ended THEN at[r]
                           ELSE IF at[r] \in Sent THEN "died" ELSE "refused"]

PanelStops ==
  /\ stops < MaxStops /\ stops' = stops + 1
  /\ Die(Panel)
  /\ UNCHANGED <<files, got, script, fresh>>

---------------------------------------------------------------------------
(* The script in the game.                                                  *)

\* readAll
PollRead ==
  /\ poll.busy = "idle" /\ command # NoRequest
  /\ poll' = [busy |-> "read", req |-> command]
  /\ UNCHANGED <<files, client, queued, ran, fresh, stops>>

\* Mutant: the command file stays.
PollForgets ==
  /\ poll.busy = "read"
  /\ poll' = [poll EXCEPT !.busy = "busy"]
  /\ UNCHANGED <<files, client, queued, ran, fresh, stops>>

\* os.remove deletes what is in the file by now, and fails while it is held open;
\* the outcome is not looked at.
PollRemove ==
  /\ poll.busy = "read"
  /\ command' = IF HeldOpen THEN command ELSE NoRequest
  /\ poll' = [poll EXCEPT !.busy = "busy"]
  /\ UNCHANGED <<result, client, queued, ran, fresh, stops>>

\* writeAll removes the result file and renames the new one to its place; each may
\* fail, and the outcome is not looked at.
Answer(r, ok) == result' \in {[id |-> r, ok |-> ok], result, NoResult}

\* A direct command, or one that the scheduler, the player check or the full queue
\* keeps from running.
RouteOnly ==
  /\ poll.busy = "busy"
  /\ \E ok \in BOOLEAN :
       /\ ok => Kind[poll.req] = "direct"
       /\ Answer(poll.req, ok)
  /\ poll' = PollIdle
  /\ UNCHANGED <<command, client, queued, ran, fresh, stops>>

\* Mutant: the mutation is queued but the answer says it is done.
RouteSyncEarly ==
  /\ poll.busy = "busy" /\ Kind[poll.req] = "sync"
  /\ queued' = [queued EXCEPT ![poll.req] = @ + 1]
  /\ Answer(poll.req, TRUE)
  /\ poll' = PollIdle
  /\ UNCHANGED <<command, client, ran, fresh, stops>>

RouteSync ==
  /\ poll.busy = "busy" /\ Kind[poll.req] = "sync"
  /\ ran' = [ran EXCEPT ![poll.req] = @ + 1]
  /\ \E ok \in BOOLEAN : Answer(poll.req, ok)
  /\ poll' = PollIdle
  /\ UNCHANGED <<command, client, queued, fresh, stops>>

RouteQueued ==
  /\ poll.busy = "busy" /\ Kind[poll.req] \in {"queued", "early"}
  /\ queued' = [queued EXCEPT ![poll.req] = @ + 1]
  /\ IF Kind[poll.req] = "early" THEN Answer(poll.req, TRUE) ELSE UNCHANGED result
  /\ poll' = PollIdle
  /\ UNCHANGED <<command, client, ran, fresh, stops>>

\* A mutation runs, or finds that its player is gone; its result may say that it
\* failed although it took effect.
Mutate(r) ==
  /\ queued[r] > 0
  /\ queued' = [queued EXCEPT ![r] = @ - 1]
  /\ \E done, ok \in BOOLEAN :
       /\ ok => done
       /\ ran' = [ran EXCEPT ![r] = IF done THEN @ + 1 ELSE @]
       /\ IF Kind[r] = "early" THEN UNCHANGED result ELSE Answer(r, ok)
  /\ UNCHANGED <<command, client, poll, fresh, stops>>

Heartbeat ==
  /\ fresh' = ~fresh
  /\ UNCHANGED <<files, client, script, stops>>

\* The game stops and takes the native runtime along; the files stay.
GameStops ==
  /\ stops < MaxStops /\ stops' = stops + 1
  /\ Die(Native)
  /\ poll' = PollIdle
  /\ queued' = [r \in Request |-> 0]
  /\ UNCHANGED <<files, got, ran, fresh>>

---------------------------------------------------------------------------

Call(r) ==
  \/ PanelCheck(r) \/ PanelLock(r) \/ NativeLock(r) \/ Clear(r) \/ Write(r)
  \/ CloseFile(r) \/ Find(r) \/ Read(r) \/ Take(r) \/ Timeout(r)

Script ==
  \/ PollRead \/ PollRemove \/ RouteOnly \/ RouteSync \/ RouteQueued
  \/ \E r \in Request : Mutate(r)

Next == (\E r \in Request : Call(r)) \/ Script \/ Heartbeat \/ PanelStops \/ GameStops

Spec == Init /\ [][Next]_vars

\* A client that is not blocked goes on.  Its deadline passes once and for all, and
\* is looked at before each look at the result file.
FairSpec == Spec /\ \A r \in Request : WF_vars(Call(r)) /\ SF_vars(Timeout(r))

---------------------------------------------------------------------------
(* Correctness.                                                             *)

\* A command runs at most once, whatever times out, is overwritten or restarted: no
\* client and no poll picks up a second time what was taken once.
RunsAtMostOnce == \A r \in Request : ran[r] + queued[r] <= 1

\* A success of r says the truth.
Earned(r) == Kind[r] \in {"direct", "early"} \/ ran[r] >= 1

\* A call that succeeds did what it says: the result is its own, and its command
\* took effect, or was queued by a command that answers early, or only reads.
OkIsEarned == \A r \in Request : at[r] = "ok" => Earned(r)

\* The calls whose commands could not have reached the script: they were refused,
\* or have not written anything yet.
Unsent == {r \in Request : at[r] \in {"new", "checked", "locked", "cleared", "refused"}}

\* What the bridge refuses (offline, busy, not written) never runs, now or after a
\* restart, so that it is safe to try it again.
RefusedNeverRuns ==
  \A r \in Unsent : command # r /\ poll.req # r /\ queued[r] = 0 /\ ran[r] = 0

\* Where the command of r may be: in the file, with the poll loop, in the queue, or
\* carried out; in two places only while the poll loop has read it and not removed it.
InOnePlace(r) ==
  /\ command = r \/ poll.req = r => queued[r] = 0 /\ ran[r] = 0
  /\ command = r /\ poll.req = r => poll.busy = "read"

\* The inductive invariant: every command is in one place, and every success that is
\* in the result file or was read from it is earned.  It needs the native writer to
\* close the file before the script sees it (SlowClose is FALSE).
BridgeInv ==
  /\ BridgeTypeOK
  /\ poll.busy = "idle" <=> poll.req = NoRequest
  /\ RunsAtMostOnce /\ RefusedNeverRuns /\ OkIsEarned
  /\ ~HeldOpen
  /\ result.ok => Earned(result.id)
  /\ \A r \in Request : InOnePlace(r) /\ (got[r].ok => Earned(got[r].id))

\* Every call ends, also when the script never answers and when results of other
\* calls keep it busy: no call waits for the lock for ever.
CallsEnd == \A r \in Request : at[r] # "new" ~> at[r] \in Ended
=============================================================================
