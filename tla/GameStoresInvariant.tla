------------------------ MODULE GameStoresInvariant ------------------------
(***************************************************************************)
(* The inductive invariants behind the safety properties of                *)
(* GameStoresDelivery, in named parts: FilesInv, about the pending rows    *)
(* and what a runtime holds of them in memory, holds always; GrantInv,     *)
(* about the grants, holds when the attempts log never outgrows the rows   *)
(* that are read back (LogRolls is FALSE) and the native runtime has one   *)
(* transport for each order (SingleRoute).                                 *)
(***************************************************************************)
EXTENDS GameStoresDelivery

\* The places of the deliver stage in which the pass over the rows is under way.
Delivering == {"rows"} \cup Granting

\* Only the runtime that holds the lease is at work.
LeaseHeld == \A h \in Host : run[h].at # "idle" => lease = h

\* The order h works on is reserved and one of its rows; it is logged only with a
\* delivered marker, and reported to the shop only when it is delivered.
OrderHeld(h) ==
  LET o == run[h].order
      at == run[h].at
  IN /\ at \in Granting => o \in Order /\ markers[o] # {}
     /\ at \in Granting \ {"logging"} => o \in run[h].rows
     /\ at = "logging" => "delivered" \in markers[o]
     /\ at = "confirmed" => o \in Delivered

\* The rows h has in memory account for every undelivered row of the file, and
\* what it takes for settled or reports to the shop is delivered.
RowsAccounted(h) ==
  LET r == run[h] IN
  /\ r.settled \subseteq Delivered
  /\ r.at = "fetch" => pending \subseteq r.rows \cup Delivered
  /\ r.at \in Delivering => /\ pending \subseteq r.rows \cup r.kept \cup Delivered
                            /\ r.rows \cup r.kept \subseteq pending
  /\ r.at \notin Delivering => r.kept = {}
  /\ r.at \in {"confirm", "confirmed"} => r.rows \subseteq Delivered

FilesInv ==
  /\ TypeOK
  /\ LeaseHeld
  /\ UnresolvedStaysPending
  /\ \A h \in Host : OrderHeld(h) /\ RowsAccounted(h)

\* The native runtime never sends a command again over a second transport.
SingleRoute == \A o \in Order : Routes[o] = 1

\* An order that counts as delivered is granted in full, and no command of it is
\* left that could still grant more.
DeliveredIsSettled ==
  \A o \in Order \ Early :
    o \in Delivered \/ shop[o] = "given" => applied[o] = Calls[o] /\ inflight[o] = 0

\* Whatever was sent to the game left a trace that blocks another dispatch.
GrantLeavesTrace ==
  \A o \in Order :
    applied[o] + inflight[o] > 0 =>
      markers[o] # {} \/ "dispatched" \in attemptLog[o] \/ o \in deliveredLog

\* How far the grant that h works on has come.
GrantProgress(h) ==
  LET o == run[h].order
      at == run[h].at
  IN /\ at \notin Granting => run[h].called = 0
     /\ at \in {"reserved", "marked"} =>
          run[h].called = 0 /\ applied[o] = 0 /\ inflight[o] = 0
     /\ at \in {"sending", "waiting"} =>
          run[h].called + Units(h, o) <= Calls[o] /\ (h \in Native => run[h].called = 0)
     /\ at = "sending" => applied[o] = run[h].called /\ inflight[o] = 0
     /\ at = "waiting" =>
          /\ run[h].called <= applied[o]
          /\ applied[o] + inflight[o] <= run[h].called + Units(h, o)
          /\ ~Queues(h, o) /\ answer[o] = "ok" => applied[o] = run[h].called + 1
     /\ at \in {"acked", "logging"} /\ o \notin Early =>
          applied[o] = Calls[o] /\ inflight[o] = 0

\* What h read when its pass began still tells it of every earlier dispatch and
\* delivery that has no marker.
SnapshotHolds(h) ==
  run[h].at \in Delivering =>
    \A o \in Order :
      markers[o] = {} =>
        /\ o \in deliveredLog => o \in run[h].settled
        /\ "dispatched" \in attemptLog[o] => "dispatched" \in run[h].attempts[o]

GrantInv ==
  /\ AtMostOnce
  /\ DeliveredIsSettled
  /\ GrantLeavesTrace
  /\ \A h \in Host : GrantProgress(h) /\ SnapshotHolds(h)

\* What the two runtimes keep between them: the files tell of every order what is
\* needed to neither lose it nor grant it twice, and what was granted agrees with them.
DeliveryInv == FilesInv /\ GrantInv
=============================================================================
