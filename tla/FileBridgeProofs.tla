-------------------------- MODULE FileBridgeProofs --------------------------
(***************************************************************************)
(* Proofs about the file bridge, for any calls of any kinds in two         *)
(* processes, any number of restarts and any order of steps.  The types    *)
(* hold always; BridgeInv is inductive when no file is seen before its     *)
(* writer has closed it; the refinement of OneShotCalls follows from it.   *)
(***************************************************************************)
EXTENDS BridgeCalls, TLAPS

\* The places by name.
LEMMA BridgePlaces ==
  {"new", "checked", "locked", "cleared", "writing", "polling", "found", "reading",
   "ok", "failed", "refused", "died"} \subseteq Place
  BY DEF Place, Holding, Sent, Ended

\* Going to a place leaves places.
LEMMA GoesTyped ==
  ASSUME at \in [Request -> Place], NEW r \in Request, NEW p \in Place, Goes(r, p)
  PROVE  at' \in [Request -> Place] /\ at'[r] = p /\ \A q \in Request \ {r} : at'[q] = at[q]
  BY DEF Goes

\* Every answer is a result.
LEMMA AnswerTyped ==
  ASSUME BridgeTypeOK, NEW r \in Request, NEW ok \in BOOLEAN, Answer(r, ok)
  PROVE  /\ result' \in Result \cup {NoResult}
         /\ result' = [id |-> r, ok |-> ok] \/ result' \in {result, NoResult}
  BY DEF BridgeTypeOK, Result, Answer

\* The initial state has its types.
LEMMA InitTyped == Init => BridgeTypeOK
  BY BridgePlaces, BridgeConstantsOK DEF Init, BridgeTypeOK, PollIdle

\* A step of a call keeps the types.
LEMMA CallTyped ==
  ASSUME BridgeTypeOK, NEW r \in Request, Call(r)
  PROVE  BridgeTypeOK'
<1> USE DEF BridgeTypeOK
<1>1. CASE PanelCheck(r)
  BY <1>1, GoesTyped, BridgePlaces DEF PanelCheck, files, script
<1>2. CASE PanelLock(r)
  BY <1>2, GoesTyped, BridgePlaces DEF PanelLock, files, script
<1>3. CASE NativeLock(r)
  BY <1>3, GoesTyped, BridgePlaces DEF NativeLock, files, script
<1>4. CASE Clear(r)
  BY <1>4, GoesTyped, BridgePlaces DEF Clear, Left, script
<1>5. CASE Write(r)
  <2>1. at' \in [Request -> Place]
    BY <1>5, GoesTyped, BridgePlaces DEF Write
  <2> QED
    BY <1>5, <2>1 DEF Write, Left, script
<1>6. CASE CloseFile(r)
  BY <1>6, GoesTyped, BridgePlaces DEF CloseFile, files, script
<1>7. CASE Find(r)
  BY <1>7, GoesTyped, BridgePlaces DEF Find, files, script
<1>8. CASE Read(r)
  BY <1>8, GoesTyped, BridgePlaces DEF Read, files, script
<1>9. CASE Take(r)
  BY <1>9, GoesTyped, BridgePlaces DEF Take, script
<1>10. CASE Timeout(r)
  BY <1>10, GoesTyped, BridgePlaces DEF Timeout, script
<1> QED
  BY <1>1, <1>2, <1>3, <1>4, <1>5, <1>6, <1>7, <1>8, <1>9, <1>10 DEF Call

\* The calls that end with their process have places.
LEMMA DieTyped ==
  ASSUME at \in [Request -> Place], NEW S, Die(S)
  PROVE  at' \in [Request -> Place]
  BY BridgePlaces DEF Die

\* The poll loop works on a request whenever it is not idle.
PollOk == poll.busy = "idle" <=> poll.req = NoRequest

\* A step of the script keeps the types.
LEMMA ScriptTyped ==
  ASSUME BridgeTypeOK, PollOk, Script
  PROVE  BridgeTypeOK' /\ PollOk'
<1> USE DEF BridgeTypeOK
<1>r. poll.busy # "idle" => poll.req \in Request
  BY DEF PollOk
<1>i. PollIdle \in [busy : {"idle", "read", "busy"}, req : Request \cup {NoRequest}]
  BY DEF PollIdle
<1>1. CASE PollRead
  BY <1>1, BridgeConstantsOK DEF PollRead, PollOk, files, client
<1>2. CASE PollRemove
  BY <1>2 DEF PollRemove, PollOk, client
<1>3. CASE RouteOnly
  BY <1>3, <1>r, <1>i, AnswerTyped DEF RouteOnly, PollIdle, PollOk, client
<1>4. CASE RouteSync
  BY <1>4, <1>r, <1>i, AnswerTyped DEF RouteSync, PollIdle, PollOk, client
<1>5. CASE RouteQueued
  <2>1. result' \in Result \cup {NoResult}
    BY <1>5, <1>r, AnswerTyped DEF RouteQueued
  <2> QED
    BY <1>5, <1>r, <1>i, <2>1 DEF RouteQueued, PollIdle, PollOk, client
<1>6. ASSUME NEW r \in Request, Mutate(r) PROVE BridgeTypeOK' /\ PollOk'
  <2>1. result' \in Result \cup {NoResult}
    BY <1>6, AnswerTyped DEF Mutate
  <2>2. queued' \in [Request -> Nat]
    BY <1>6 DEF Mutate
  <2>3. ran' \in [Request -> Nat]
    BY <1>6 DEF Mutate
  <2> QED
    BY <1>6, <2>1, <2>2, <2>3 DEF Mutate, PollOk, client
<1> QED
  BY <1>1, <1>2, <1>3, <1>4, <1>5, <1>6 DEF Script

\* Every step keeps the types.
LEMMA BridgeTypeStep == BridgeTypeOK /\ PollOk /\ [Next]_vars => BridgeTypeOK' /\ PollOk'
<1> SUFFICES ASSUME BridgeTypeOK, PollOk, [Next]_vars PROVE BridgeTypeOK' /\ PollOk'
  OBVIOUS
<1>1. ASSUME NEW r \in Request, Call(r) PROVE BridgeTypeOK' /\ PollOk'
  <2>1. UNCHANGED poll
    BY <1>1 DEF Call, PanelCheck, PanelLock, NativeLock, Clear, Write, CloseFile, Find,
                Read, Take, Timeout, script
  <2> QED
    BY <1>1, <2>1, CallTyped DEF PollOk
<1>2. CASE Script
  BY <1>2, ScriptTyped
<1>3. CASE Heartbeat
  BY <1>3 DEF Heartbeat, files, client, script, BridgeTypeOK, PollOk
<1>4. CASE PanelStops
  <2>1. at' \in [Request -> Place]
    BY <1>4, DieTyped DEF PanelStops, BridgeTypeOK
  <2> QED
    BY <1>4, <2>1 DEF PanelStops, files, script, BridgeTypeOK, PollOk
<1>5. CASE GameStops
  <2>1. at' \in [Request -> Place]
    BY <1>5, DieTyped DEF GameStops, BridgeTypeOK
  <2> QED
    BY <1>5, <2>1 DEF GameStops, PollIdle, files, BridgeTypeOK, PollOk
<1>6. CASE UNCHANGED vars
  BY <1>6 DEF vars, files, client, script, BridgeTypeOK, PollOk
<1> QED
  BY <1>1, <1>2, <1>3, <1>4, <1>5, <1>6 DEF Next

\* The variables of the bridge keep their types, also when files are seen too early
\* (the whole of FileBridgeExecutor.ExecuteAsync, BridgeExecute and the poll loop).
THEOREM BridgeTypeCorrect == Spec => []BridgeTypeOK
<1>1. Init => BridgeTypeOK /\ PollOk
  BY InitTyped DEF Init, PollOk, PollIdle
<1>2. BridgeTypeOK /\ PollOk /\ [Next]_vars => (BridgeTypeOK /\ PollOk)'
  BY BridgeTypeStep
<1> QED
  BY <1>1, <1>2, PTL DEF Spec

---------------------------------------------------------------------------

\* What a success says stays true: no step takes back what ran.
LEMMA EarnedStays ==
  ASSUME NEW r, Earned(r), ran \in [Request -> Nat], ran' \in [Request -> Nat],
         r \in Request, ran'[r] >= ran[r]
  PROVE  Earned(r)'
  BY DEF Earned

\* A step of a client that does not write its command keeps the invariant: it moves
\* only its own call, and at most deletes the files.
LEMMA ClientStep ==
  ASSUME BridgeInv, BridgeTypeOK', NEW r \in Request, NEW place \in Place, Goes(r, place),
         UNCHANGED script,
         command' \in {command, NoRequest}, result' \in {result, NoResult},
         got' = got \/ got' = [got EXCEPT ![r] = result],
         place \notin {"new", "writing"}, place = "ok" => Earned(r),
         place \in {"checked", "locked", "cleared", "refused"} => r \in Unsent
  PROVE  BridgeInv'
<1> USE BridgeConstantsOK
<1>t. BridgeTypeOK
  BY DEF BridgeInv
<1>1. at'[r] = place /\ \A q \in Request \ {r} : at'[q] = at[q]
  BY <1>t, GoesTyped DEF BridgeTypeOK
<1>s. poll' = poll /\ queued' = queued /\ ran' = ran
  BY DEF script
<1>2. \A q : Earned(q)' <=> Earned(q)
  BY <1>s DEF Earned
<1>3. RunsAtMostOnce' /\ (poll.busy = "idle" <=> poll.req = NoRequest)'
  BY <1>s DEF RunsAtMostOnce, BridgeInv
<1>4. Unsent' \subseteq Unsent
  BY <1>1 DEF Unsent
<1>5. RefusedNeverRuns'
  BY <1>4, <1>s DEF RefusedNeverRuns, Unsent, BridgeInv
<1>6. OkIsEarned'
  BY <1>1, <1>2 DEF OkIsEarned, BridgeInv
<1>7. ~HeldOpen'
  BY <1>1 DEF HeldOpen, BridgeInv
<1>8. (result.ok => Earned(result.id))'
  BY <1>2 DEF NoResult, BridgeInv
<1>9. ASSUME NEW q \in Request PROVE (InOnePlace(q) /\ (got[q].ok => Earned(got[q].id)))'
  <2>1. InOnePlace(q)'
    BY <1>s DEF InOnePlace, BridgeInv
  <2>2. got'[q] = got[q] \/ got'[q] = result
    BY <1>t DEF BridgeTypeOK
  <2> QED
    BY <1>2, <2>1, <2>2 DEF BridgeInv
<1> QED
  BY <1>3, <1>5, <1>6, <1>7, <1>8, <1>9 DEF BridgeInv

\* The command goes into the file while its call has not been sent: it is nowhere else.
LEMMA CommandStep ==
  ASSUME BridgeInv, BridgeTypeOK', NEW r \in Request, at[r] = "cleared",
         command' = r, Goes(r, "polling"), UNCHANGED <<result, got, script>>
  PROVE  BridgeInv'
<1> USE BridgeConstantsOK
<1>t. BridgeTypeOK
  BY DEF BridgeInv
<1>1. at'[r] = "polling" /\ \A q \in Request \ {r} : at'[q] = at[q]
  BY <1>t, GoesTyped, BridgePlaces DEF BridgeTypeOK
<1>s. poll' = poll /\ queued' = queued /\ ran' = ran
  BY DEF script
<1>2. \A q : Earned(q)' <=> Earned(q)
  BY <1>s DEF Earned
<1>3. Unsent' \subseteq Unsent \ {r} /\ r \in Unsent
  BY <1>1 DEF Unsent
<1>4. RefusedNeverRuns'
  BY <1>3, <1>s DEF RefusedNeverRuns, BridgeInv
<1>5. \A q \in Request : InOnePlace(q)'
  BY <1>3, <1>s DEF InOnePlace, RefusedNeverRuns, BridgeInv
<1>6. RunsAtMostOnce' /\ OkIsEarned' /\ ~HeldOpen'
  BY <1>1, <1>2, <1>s DEF RunsAtMostOnce, OkIsEarned, HeldOpen, BridgeInv
<1> QED
  BY <1>2, <1>4, <1>5, <1>6, <1>s DEF BridgeInv

\* Every step of a call keeps the invariant.
LEMMA CallKeeps ==
  ASSUME BridgeInv, ~SlowClose, NEW r \in Request, Call(r)
  PROVE  BridgeInv'
<1> USE BridgePlaces
<1>t. BridgeTypeOK /\ BridgeTypeOK'
  BY CallTyped DEF BridgeInv
<1>1. CASE PanelCheck(r)
  BY <1>1, <1>t, ClientStep DEF PanelCheck, files, Unsent
<1>2. CASE PanelLock(r)
  BY <1>2, <1>t, ClientStep DEF PanelLock, files, Unsent
<1>3. CASE NativeLock(r)
  BY <1>3, <1>t, ClientStep DEF NativeLock, files, Unsent
<1>4. CASE Clear(r)
  BY <1>4, <1>t, ClientStep DEF Clear, Left, Unsent
<1>5. CASE Write(r)
  <2>1. CASE command' = r /\ Goes(r, "polling") /\ UNCHANGED <<result, got, script>>
    BY <1>5, <1>t, <2>1, CommandStep DEF Write
  <2>2. CASE command' \in Left(r) /\ \E place \in {"refused", "polling"} : Goes(r, place)
    BY <1>5, <1>t, <2>2, ClientStep DEF Write, Left, Unsent
  <2> QED
    BY <1>5, <2>1, <2>2 DEF Write
<1>6. CASE CloseFile(r)
  BY <1>6 DEF CloseFile, BridgeInv, HeldOpen
<1>7. CASE Find(r)
  BY <1>7, <1>t, ClientStep DEF Find, files
<1>8. CASE Read(r)
  BY <1>8, <1>t, ClientStep DEF Read, files
<1>9. CASE Take(r)
  <2>1. got[r].id = r /\ got[r].ok => Earned(r)
    BY DEF BridgeInv
  <2> QED
    BY <1>9, <1>t, <2>1, ClientStep DEF Take, Own
<1>10. CASE Timeout(r)
  BY <1>10, <1>t, ClientStep DEF Timeout
<1> QED
  BY <1>1, <1>2, <1>3, <1>4, <1>5, <1>6, <1>7, <1>8, <1>9, <1>10 DEF Call

\* A result that says success is that of a call.
LEMMA ResultTyped == BridgeTypeOK /\ result.ok => result.id \in Request
  BY DEF BridgeTypeOK, Result, NoResult

\* An answer that tells a success only of what has run keeps the results truthful.
LEMMA AnswerEarned ==
  ASSUME BridgeInv, NEW r \in Request, NEW ok \in BOOLEAN, Answer(r, ok), ok => Earned(r)',
         \A q \in Request : Earned(q) => Earned(q)'
  PROVE  (result.ok => Earned(result.id))'
<1>1. result' = [id |-> r, ok |-> ok] \/ result' \in {result, NoResult}
  BY AnswerTyped DEF BridgeInv
<1>2. CASE result' = result
  BY <1>2, ResultTyped DEF BridgeInv
<1>3. CASE result' = [id |-> r, ok |-> ok]
  BY <1>3
<1>4. CASE result' = NoResult
  BY <1>4 DEF NoResult
<1> QED
  BY <1>1, <1>2, <1>3, <1>4

\* A step of the script that moves the command of one call keeps the invariant, if
\* afterwards that command is in one place, and the results are truthful.
LEMMA ScriptStep ==
  ASSUME BridgeInv, BridgeTypeOK', PollOk', UNCHANGED client, NEW r \in Request \ Unsent,
         command' \in {command, NoRequest}, poll'.req \in {r, poll.req, NoRequest},
         \A q \in Request \ {r} : InOnePlace(q)' /\ queued'[q] = queued[q] /\ ran'[q] = ran[q],
         InOnePlace(r)', ran'[r] >= ran[r], ran'[r] + queued'[r] <= 1,
         (result.ok => Earned(result.id))'
  PROVE  BridgeInv'
<1> USE BridgeConstantsOK DEF client
<1>1. Unsent' = Unsent /\ ~HeldOpen'
  BY DEF Unsent, HeldOpen, BridgeInv
<1>2. \A q \in Request : Earned(q) => Earned(q)'
  BY DEF Earned, BridgeInv, BridgeTypeOK
<1>3. RunsAtMostOnce'
  BY DEF RunsAtMostOnce, BridgeInv
<1>4. RefusedNeverRuns'
  <2>1. Unsent \subseteq Request /\ r \notin Unsent
    BY DEF Unsent
  <2> QED
    BY <1>1, <2>1 DEF RefusedNeverRuns, BridgeInv
<1>5. OkIsEarned'
  BY <1>2 DEF OkIsEarned, BridgeInv
<1>6. ASSUME NEW q \in Request PROVE (got[q].ok => Earned(got[q].id))'
  <2>1. got[q].ok => got[q].id \in Request /\ Earned(got[q].id)
    BY DEF BridgeInv, BridgeTypeOK, Result, NoResult
  <2> QED
    BY <1>2, <2>1
<1> QED
  BY <1>1, <1>3, <1>4, <1>5, <1>6 DEF BridgeInv, PollOk

\* Every step of the script keeps the invariant.
LEMMA ScriptKeeps ==
  ASSUME BridgeInv, Script
  PROVE  BridgeInv'
<1> USE BridgeConstantsOK
<1>t. BridgeTypeOK /\ PollOk /\ BridgeTypeOK' /\ PollOk'
  BY ScriptTyped DEF BridgeInv, PollOk
<1>p. poll.busy # "idle" => poll.req \in Request \ Unsent
  BY <1>t DEF PollOk, BridgeTypeOK, BridgeInv, RefusedNeverRuns, Unsent
<1>a. poll.busy = "busy" => /\ command # poll.req
                            /\ queued[poll.req] = 0 /\ ran[poll.req] = 0
  BY <1>p DEF BridgeInv, InOnePlace
<1>1. CASE PollRead
  <2>1. command \in Request \ Unsent
    BY <1>1, <1>t DEF PollRead, BridgeTypeOK, BridgeInv, RefusedNeverRuns, Unsent
  <2>2. \A q \in Request : InOnePlace(q)'
    <3>1. /\ poll'.req = command /\ poll'.busy = "read" /\ command' = command
          /\ queued' = queued /\ ran' = ran
      BY <1>1 DEF PollRead, files
    <3> QED
      BY <3>1 DEF InOnePlace, BridgeInv
  <2>3. (result.ok => Earned(result.id))'
    BY <1>1 DEF PollRead, files, Earned, BridgeInv
  <2> QED
    BY <1>1, <1>t, <2>1, <2>2, <2>3, ScriptStep
    DEF PollRead, files, BridgeInv, RunsAtMostOnce, BridgeTypeOK
<1>2. CASE PollRemove
  <2>1. \A q \in Request : InOnePlace(q)'
    BY <1>2 DEF PollRemove, InOnePlace, BridgeInv
  <2>2. (result.ok => Earned(result.id))'
    BY <1>2 DEF PollRemove, Earned, BridgeInv
  <2> QED
    BY <1>2, <1>t, <1>p, <2>1, <2>2, ScriptStep
    DEF PollRemove, BridgeInv, RunsAtMostOnce, BridgeTypeOK
<1>3. CASE RouteOnly
  <2>1. \A q \in Request : InOnePlace(q)'
    BY <1>3 DEF RouteOnly, PollIdle, InOnePlace, BridgeInv
  <2>2. (result.ok => Earned(result.id))'
    BY <1>3, <1>p, AnswerEarned DEF RouteOnly, Earned
  <2> QED
    BY <1>3, <1>t, <1>p, <2>1, <2>2, ScriptStep
    DEF RouteOnly, PollIdle, BridgeInv, RunsAtMostOnce, BridgeTypeOK
<1>4. CASE RouteSync
  <2>1. \A q \in Request : InOnePlace(q)'
    BY <1>4, <1>a, <1>p, <1>t DEF RouteSync, PollIdle, InOnePlace, BridgeInv, BridgeTypeOK
  <2>2. (result.ok => Earned(result.id))'
    <3>1. \A q \in Request : Earned(q) => Earned(q)'
      BY <1>4, <1>p, <1>t DEF RouteSync, Earned, BridgeTypeOK
    <3>2. PICK r \in Request : r = poll.req
      BY <1>4, <1>p DEF RouteSync
    <3>3. Earned(r)'
      BY <1>4, <1>t, <1>a, <3>2 DEF RouteSync, Earned, BridgeTypeOK
    <3> QED
      BY <1>4, <3>1, <3>2, <3>3, AnswerEarned DEF RouteSync
  <2> QED
    BY <1>4, <1>t, <1>p, <1>a, <2>1, <2>2, ScriptStep
    DEF RouteSync, PollIdle, BridgeInv, RunsAtMostOnce, BridgeTypeOK
<1>5. CASE RouteQueued
  <2>1. \A q \in Request : InOnePlace(q)'
    BY <1>5, <1>a, <1>p, <1>t DEF RouteQueued, PollIdle, InOnePlace, BridgeInv, BridgeTypeOK
  <2>2. (result.ok => Earned(result.id))'
    <3>1. \A q \in Request : Earned(q) => Earned(q)'
      BY <1>5 DEF RouteQueued, Earned
    <3>2. PICK r \in Request : r = poll.req
      BY <1>5, <1>p DEF RouteQueued
    <3>3. CASE Kind[r] = "early"
      <4>1. Earned(r)'
        BY <3>3 DEF Earned
      <4> QED
        BY <1>5, <3>1, <3>2, <3>3, <4>1, AnswerEarned DEF RouteQueued
    <3>4. CASE Kind[r] # "early"
      BY <1>5, <1>t, <3>1, <3>2, <3>4, ResultTyped DEF RouteQueued, BridgeInv
    <3> QED
      BY <3>3, <3>4
  <2> QED
    BY <1>5, <1>t, <1>p, <1>a, <2>1, <2>2, ScriptStep
    DEF RouteQueued, PollIdle, BridgeInv, RunsAtMostOnce, BridgeTypeOK
<1>6. ASSUME NEW r \in Request, Mutate(r) PROVE BridgeInv'
  <2>1. r \notin Unsent /\ command # r /\ poll.req # r /\ queued[r] = 1 /\ ran[r] = 0
    <3>1. queued[r] > 0 /\ queued[r] \in Nat /\ ran[r] \in Nat
      BY <1>6, <1>t DEF Mutate, BridgeTypeOK
    <3>2. ran[r] + queued[r] <= 1
      BY DEF BridgeInv, RunsAtMostOnce
    <3>3. queued[r] = 1 /\ ran[r] = 0
      BY <3>1, <3>2
    <3> QED
      BY <3>3 DEF BridgeInv, RefusedNeverRuns, InOnePlace
  <2>2. PICK done \in BOOLEAN, ok \in BOOLEAN :
          /\ ok => done
          /\ ran' = [ran EXCEPT ![r] = IF done THEN @ + 1 ELSE @]
          /\ IF Kind[r] = "early" THEN UNCHANGED result ELSE Answer(r, ok)
    BY <1>6 DEF Mutate
  <2>3. /\ queued'[r] = 0 /\ ran'[r] = (IF done THEN 1 ELSE 0)
        /\ \A q \in Request \ {r} : queued'[q] = queued[q] /\ ran'[q] = ran[q]
    BY <1>6, <1>t, <2>1, <2>2 DEF Mutate, BridgeTypeOK
  <2>4. command' = command /\ poll' = poll /\ UNCHANGED client
    BY <1>6 DEF Mutate
  <2>5. \A q \in Request : InOnePlace(q)'
    BY <2>1, <2>3, <2>4 DEF InOnePlace, BridgeInv
  <2>6. (result.ok => Earned(result.id))'
    <3>1. \A q \in Request : Earned(q) => Earned(q)'
      BY <2>1, <2>2, <1>t DEF Earned, BridgeTypeOK
    <3>2. ok => Earned(r)'
      BY <2>2, <2>3 DEF Earned
    <3>3. CASE Kind[r] = "early"
      BY <2>2, <3>1, <3>3, <1>t, ResultTyped DEF BridgeInv
    <3>4. CASE Kind[r] # "early"
      BY <2>2, <3>1, <3>2, <3>4, AnswerEarned
    <3> QED
      BY <3>3, <3>4
  <2> QED
    BY <1>t, <2>1, <2>3, <2>4, <2>5, <2>6, ScriptStep
<1> QED
  BY <1>1, <1>2, <1>3, <1>4, <1>5, <1>6 DEF Script

\* A process that stops keeps the invariant: it loses the mutations and the command the
\* poll loop holds, or none of them, and ends the calls of S.
LEMMA StopStep ==
  ASSUME BridgeInv, BridgeTypeOK', PollOk', NEW S, Die(S),
         UNCHANGED <<files, got, ran>>, poll' = poll \/ poll' = PollIdle,
         queued' = queued \/ queued' = [r \in Request |-> 0]
  PROVE  BridgeInv'
<1> USE BridgeConstantsOK DEF files
<1>t. BridgeTypeOK
  BY DEF BridgeInv
<1>1. \A r \in Request : /\ at'[r] = "ok" => at[r] = "ok"
                         /\ at'[r] = "writing" => at[r] = "writing"
                         /\ r \in Unsent' => r \in Unsent
  BY <1>t DEF Die, Unsent, Sent, Ended, Place, Holding, BridgeTypeOK
<1>2. \A r : Earned(r)' <=> Earned(r)
  BY DEF Earned
<1>q. \A r \in Request : queued'[r] \in {queued[r], 0}
  BY <1>t DEF BridgeTypeOK
<1>3. RunsAtMostOnce'
  <2> SUFFICES ASSUME NEW r \in Request PROVE ran'[r] + queued'[r] <= 1
    BY DEF RunsAtMostOnce
  <2>1. ran'[r] = ran[r] /\ ran[r] \in Nat /\ queued[r] \in Nat /\ ran[r] + queued[r] <= 1
    BY <1>t DEF BridgeInv, RunsAtMostOnce, BridgeTypeOK
  <2> QED
    BY <1>q, <2>1
<1>p. poll'.req \in {poll.req, NoRequest} /\ (poll' = poll \/ poll'.req = NoRequest)
  BY DEF PollIdle
<1>4. RefusedNeverRuns'
  <2> SUFFICES ASSUME NEW r \in Unsent'
               PROVE  command # r /\ poll'.req # r /\ queued'[r] = 0 /\ ran[r] = 0
    BY DEF RefusedNeverRuns
  <2>1. r \in Request /\ r \in Unsent
    BY <1>1 DEF Unsent
  <2> QED
    BY <1>q, <1>p, <2>1 DEF BridgeInv, RefusedNeverRuns
<1>5. OkIsEarned' /\ ~HeldOpen'
  BY <1>1, <1>2 DEF OkIsEarned, HeldOpen, BridgeInv
<1>6. ASSUME NEW r \in Request PROVE (InOnePlace(r) /\ (got[r].ok => Earned(got[r].id)))'
  <2>1. InOnePlace(r)'
    BY <1>p, <1>q DEF InOnePlace, BridgeInv
  <2> QED
    BY <1>2, <2>1 DEF BridgeInv
<1>7. (result.ok => Earned(result.id))'
  BY <1>2 DEF BridgeInv
<1> QED
  BY <1>3, <1>4, <1>5, <1>6, <1>7 DEF BridgeInv, PollOk

\* The initial state satisfies the invariant.
LEMMA InitKeeps == Init => BridgeInv
<1> SUFFICES ASSUME Init PROVE BridgeInv
  OBVIOUS
<1>1. BridgeTypeOK
  BY InitTyped
<1>2. RunsAtMostOnce /\ RefusedNeverRuns /\ OkIsEarned /\ ~HeldOpen
  BY BridgeConstantsOK DEF Init, RunsAtMostOnce, RefusedNeverRuns, OkIsEarned, HeldOpen, Unsent, PollIdle
<1>3. \A r \in Request : InOnePlace(r) /\ ~got[r].ok
  BY BridgeConstantsOK DEF Init, InOnePlace, PollIdle, NoResult
<1> QED
  BY <1>1, <1>2, <1>3 DEF Init, BridgeInv, PollIdle, NoResult

\* The invariant is inductive.
LEMMA BridgeInvStep ==
  ASSUME ~SlowClose
  PROVE  BridgeInv /\ [Next]_vars => BridgeInv'
<1> SUFFICES ASSUME BridgeInv, [Next]_vars PROVE BridgeInv'
  OBVIOUS
<1>t. BridgeTypeOK' /\ PollOk'
  BY BridgeTypeStep DEF BridgeInv, PollOk
<1>1. ASSUME NEW r \in Request, Call(r) PROVE BridgeInv'
  BY <1>1, CallKeeps
<1>2. CASE Script
  BY <1>2, ScriptKeeps
<1>3. CASE UNCHANGED <<files, client, script>>
  BY <1>3, <1>t DEF files, client, script, BridgeInv, RunsAtMostOnce, RefusedNeverRuns,
                    OkIsEarned, HeldOpen, InOnePlace, Earned, Unsent
<1>4. CASE PanelStops
  BY <1>4, <1>t, StopStep DEF PanelStops, script
<1>5. CASE GameStops
  BY <1>5, <1>t, StopStep DEF GameStops
<1> QED
  BY <1>1, <1>2, <1>3, <1>4, <1>5 DEF Next, Heartbeat, vars

\* Every command is in one place and every success told is true, in every reachable
\* state (the single slots of command.json and result.json, PollRemove before the
\* route, the comparison of the ids in IsStaleResult and BridgeExecute).
THEOREM BridgeCorrect == ~SlowClose /\ Spec => []BridgeInv
<1>1. ~SlowClose /\ BridgeInv /\ [Next]_vars => BridgeInv'
  BY BridgeInvStep
<1>2. ASSUME ~SlowClose PROVE Spec => []BridgeInv
  <2>1. BridgeInv /\ [Next]_vars => BridgeInv'
    BY <1>1, <1>2
  <2> QED
    BY <2>1, InitKeeps, PTL DEF Spec
<1> QED
  BY <1>2

\* No command runs twice: the script removes a command before it routes it, and no
\* client writes its command again (pollCommands in main.lua).
THEOREM CommandRunsOnce == ~SlowClose /\ Spec => []RunsAtMostOnce
<1>1. BridgeInv => RunsAtMostOnce
  BY DEF BridgeInv
<1> QED
  BY <1>1, BridgeCorrect, PTL

\* A call that reports a success did what it says, although both processes read and
\* delete the same result file (ReadResultWhenReadyAsync, BridgeExecute).
THEOREM SuccessIsEarned == ~SlowClose /\ Spec => []OkIsEarned
<1>1. BridgeInv => OkIsEarned
  BY DEF BridgeInv
<1> QED
  BY <1>1, BridgeCorrect, PTL

\* A call that the bridge refused never runs later (the early returns of
\* ExecuteAsync and BridgeExecute).
THEOREM RefusedIsSafe == ~SlowClose /\ Spec => []RefusedNeverRuns
<1>1. BridgeInv => RefusedNeverRuns
  BY DEF BridgeInv
<1> QED
  BY <1>1, BridgeCorrect, PTL

---------------------------------------------------------------------------
(* The refinement of OneShotCalls.                                          *)

\* What the caller knows at each place.
LEMMA Outcomes ==
  /\ \A place \in {"new", "checked", "locked", "cleared"} : OutcomeOf(place) = "none"
  /\ \A place \in {"writing", "polling", "found", "reading"} : OutcomeOf(place) = "sent"
  /\ OutcomeOf("refused") = "refused"
  /\ OutcomeOf("failed") = "unknown" /\ OutcomeOf("died") = "unknown"
  /\ OutcomeOf("ok") = "ok"
  BY DEF OutcomeOf, Sent

\* When a call moves, its caller is told what its new place says, the others nothing.
LEMMA GoesTells ==
  ASSUME at \in [Request -> Place], NEW r \in Request, NEW place \in Place, Goes(r, place)
  PROVE  /\ OutcomeOf(place) = OutcomeOf(at[r]) =>
              UNCHANGED [q \in Request |-> OutcomeOf(at[q])]
         /\ Calls!Tell(r, OutcomeOf(at[r]), OutcomeOf(place))
<1>1. at'[r] = place /\ \A q \in Request \ {r} : at'[q] = at[q]
  BY GoesTyped
<1> QED
  BY <1>1 DEF Calls!Tell

\* Every step of a call is a step of OneShotCalls, or none.
LEMMA CallImplements ==
  ASSUME BridgeInv, NEW r \in Request, Call(r)
  PROVE  [Calls!Next]_(Calls!vars)
<1> USE BridgePlaces, Outcomes
<1>t. at \in [Request -> Place]
  BY DEF BridgeInv, BridgeTypeOK
<1>u. UNCHANGED ran
  BY DEF Call, PanelCheck, PanelLock, NativeLock, Clear, Write, CloseFile, Find, Read,
         Take, Timeout, script
<1>1. ASSUME NEW place \in Place, Goes(r, place), OutcomeOf(place) = OutcomeOf(at[r])
      PROVE  UNCHANGED Calls!vars
  BY <1>1, <1>t, <1>u, GoesTells DEF Calls!vars
<1>2. ASSUME OutcomeOf(at[r]) = "none", Goes(r, "refused") PROVE Calls!Next
  BY <1>2, <1>t, <1>u, GoesTells DEF Calls!Next, Calls!Refuse
<1>3. ASSUME OutcomeOf(at[r]) = "none", Goes(r, "polling") \/ Goes(r, "writing")
      PROVE  Calls!Next
  BY <1>3, <1>t, <1>u, GoesTells DEF Calls!Next, Calls!Send
<1>4. ASSUME OutcomeOf(at[r]) = "sent", Goes(r, "failed") PROVE Calls!Next
  BY <1>4, <1>t, <1>u, GoesTells DEF Calls!Next, Calls!Abandon
<1>5. ASSUME OutcomeOf(at[r]) = "sent", Goes(r, "ok"), Earned(r) PROVE Calls!Next
  <2>1. r \in {q \in Request : Kind[q] \in {"direct", "early"}} \/ ran[r] = 1
    <3>1. ran[r] \in Nat /\ queued[r] \in Nat /\ ran[r] + queued[r] <= 1
      BY DEF BridgeInv, BridgeTypeOK, RunsAtMostOnce
    <3>2. Kind[r] \in {"direct", "early"} \/ ran[r] >= 1
      BY <1>5 DEF Earned
    <3> QED
      BY <3>1, <3>2
  <2> QED
    BY <1>5, <1>t, <1>u, <2>1, GoesTells DEF Calls!Next, Calls!Succeed
<1>6. CASE PanelCheck(r) \/ PanelLock(r) \/ NativeLock(r)
  BY <1>1, <1>2, <1>6 DEF PanelCheck, PanelLock, NativeLock
<1>7. CASE Clear(r)
  BY <1>1, <1>7 DEF Clear
<1>8. CASE Write(r)
  BY <1>2, <1>3, <1>8 DEF Write
<1>9. CASE CloseFile(r) \/ Find(r)
  BY <1>1, <1>9 DEF CloseFile, Find
<1>10. CASE Read(r)
  BY <1>1, <1>4, <1>10 DEF Read
<1>11. CASE Take(r)
  <2>1. Own(r) /\ got[r].ok => Earned(r)
    BY DEF Own, BridgeInv
  <2> QED
    BY <1>1, <1>4, <1>5, <1>11, <2>1 DEF Take
<1>12. CASE Timeout(r)
  BY <1>4, <1>12 DEF Timeout
<1> QED
  BY <1>6, <1>7, <1>8, <1>9, <1>10, <1>11, <1>12 DEF Call

\* A command that runs in the game takes effect for the first time, after it was sent.
LEMMA RunImplements ==
  ASSUME BridgeInv, NEW r \in Request, poll.req = r \/ queued[r] > 0, ran[r] = 0,
         ran' = [ran EXCEPT ![r] = @ + 1], UNCHANGED at
  PROVE  Calls!Next
<1>1. r \notin Unsent /\ at[r] \in Place
  BY DEF BridgeInv, BridgeTypeOK, RefusedNeverRuns
<1>2. at[r] \in Sent \cup {"failed", "died", "ok"}
  BY <1>1 DEF Unsent, Place, Holding, Ended
<1>3. at[r] = "ok" => Kind[r] \in {"direct", "early"}
  BY DEF BridgeInv, OkIsEarned, Earned
<1>4. \/ OutcomeOf(at[r]) \in {"sent", "unknown"}
      \/ OutcomeOf(at[r]) = "ok" /\ Kind[r] \in {"direct", "early"}
  BY <1>2, <1>3, Outcomes DEF Sent
<1>5. Calls!TakeEffect(r)
  BY <1>4 DEF Calls!TakeEffect
<1> QED
  BY <1>5 DEF Calls!Next

\* Every step of the script is a step of OneShotCalls, or none.
LEMMA ScriptImplements ==
  ASSUME BridgeInv, Script
  PROVE  [Calls!Next]_(Calls!vars)
<1>u. UNCHANGED at
  BY DEF Script, PollRead, PollRemove, RouteOnly, RouteSync, RouteQueued, Mutate, client
<1>1. ASSUME UNCHANGED ran PROVE UNCHANGED Calls!vars
  BY <1>1, <1>u DEF Calls!vars
<1>2. CASE RouteSync
  <2>1. PICK r \in Request : r = poll.req
    BY <1>2 DEF RouteSync, BridgeInv, BridgeTypeOK
  <2>2. ran[r] = 0
    BY <2>1 DEF BridgeInv, InOnePlace
  <2> QED
    BY <1>2, <1>u, <2>1, <2>2, RunImplements DEF RouteSync
<1>3. ASSUME NEW r \in Request, Mutate(r) PROVE [Calls!Next]_(Calls!vars)
  <2>1. queued[r] > 0 /\ (UNCHANGED ran \/ ran' = [ran EXCEPT ![r] = @ + 1])
    BY <1>3 DEF Mutate, BridgeInv, BridgeTypeOK
  <2>2. ran[r] = 0
    BY <2>1 DEF BridgeInv, RunsAtMostOnce, BridgeTypeOK
  <2> QED
    BY <1>1, <1>u, <2>1, <2>2, RunImplements
<1> QED
  BY <1>1, <1>2, <1>3 DEF Script, PollRead, PollRemove, RouteOnly, RouteQueued

\* A process that stops is a Stop of the calls that are under way.
LEMMA DieImplements ==
  ASSUME BridgeInv, NEW S, Die(S), UNCHANGED ran
  PROVE  Calls!Next
<1> DEFINE T == {r \in Request : r \in S /\ at[r] \notin {"new"} \cup Ended}
<1>1. \A r \in Request : at[r] \in Place
  BY DEF BridgeInv, BridgeTypeOK
<1>2. ASSUME NEW r \in Request
      PROVE  OutcomeOf(at'[r]) = IF r \notin T THEN OutcomeOf(at[r])
                                 ELSE CASE OutcomeOf(at[r]) = "none" -> "refused"
                                        [] OutcomeOf(at[r]) = "sent" -> "unknown"
                                        [] OTHER -> OutcomeOf(at[r])
  <2>1. CASE r \notin T
    BY <2>1 DEF Die
  <2>2. CASE r \in T /\ at[r] \in Sent
    BY <2>2, Outcomes DEF Die, Sent
  <2>3. CASE r \in T /\ at[r] \notin Sent
    <3>1. at[r] \in {"checked", "locked", "cleared"} /\ at'[r] = "refused"
      BY <1>1, <2>3 DEF Die, Place, Holding
    <3> QED
      BY <2>3, <3>1, Outcomes
  <2> QED
    BY <2>1, <2>2, <2>3
<1>3. Calls!Stop
  <2> T \in SUBSET Request
    OBVIOUS
  <2> HIDE DEF T
  <2> QED
    BY <1>2 DEF Calls!Stop
<1> QED
  BY <1>3 DEF Calls!Next

\* Every step of the bridge is a step of OneShotCalls, or none.
LEMMA StepImplements == BridgeInv /\ [Next]_vars => [Calls!Next]_(Calls!vars)
<1> SUFFICES ASSUME BridgeInv, [Next]_vars PROVE [Calls!Next]_(Calls!vars)
  OBVIOUS
<1>1. CASE UNCHANGED <<files, client, script>>
  BY <1>1 DEF client, script, Calls!vars
<1>2. ASSUME NEW r \in Request, Call(r) PROVE [Calls!Next]_(Calls!vars)
  BY <1>2, CallImplements
<1>3. CASE Script
  BY <1>3, ScriptImplements
<1>4. CASE PanelStops \/ GameStops
  <2>1. UNCHANGED ran /\ \E S \in {Panel, Native} : Die(S)
    BY <1>4 DEF PanelStops, GameStops, script
  <2> QED
    BY <2>1, DieImplements
<1> QED
  BY <1>1, <1>2, <1>3, <1>4 DEF Next, Heartbeat, vars

\* The two processes, the single slots and the restarts together keep the promise of
\* OneShotCalls to every caller: sent at most once, run at most once, no success told
\* that did not happen (ExecuteAsync, BridgeExecute and the poll loop of main.lua).
THEOREM CallsImplemented == ~SlowClose /\ Spec => ImplementsCalls
<1>1. Init => Calls!Init
  <2> SUFFICES ASSUME Init PROVE Calls!Init
    OBVIOUS
  <2>1. \A r \in Request : at[r] = "new"
    BY DEF Init
  <2> QED
    BY <2>1, Outcomes DEF Init, Calls!Init
<1> QED
  BY <1>1, BridgeCorrect, StepImplements, PTL DEF Spec, ImplementsCalls, Calls!Spec
=============================================================================
