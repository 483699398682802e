--------------------- MODULE GameStoresGrantProofs ---------------------
(***************************************************************************)
(* Proofs about the grants of GameStoresDelivery, under two assumptions:   *)
(* no dispatch rolls out of the attempts log before it is read again       *)
(* (~LogRolls), and the native runtime sends no command again over a       *)
(* second transport (SingleRoute).  GrantInv is inductive relative to      *)
(* FilesInv; that no order is granted twice and that what is called        *)
(* delivered was granted in full follow from it.                           *)
(***************************************************************************)
EXTENDS GameStoresFilesProofs, GameStoresGrants

---------------------------------------------------------------------------
(* GrantInv is inductive when the attempts log keeps every row.             *)

\* Only an order without any marker is reported as new.
LEMMA InspectNone ==
  ASSUME JournalTypeOK, NEW o \in Order, "none" \in Inspect(o)
  PROVE  markers[o] = {}
<1>1. PICK parsed \in SUBSET markers[o] : "none" = Snapshot(markers[o], parsed)
  BY DEF Inspect
<1>2. parsed = markers[o] /\ Furthest(markers[o]) = "none" /\ "delivered" \notin parsed
  BY <1>1 DEF Snapshot
<1>3. "uncertain" \notin markers[o] /\ "dispatching" \notin markers[o] /\ "reserved" \notin markers[o]
  BY <1>2 DEF Furthest
<1> QED
  BY <1>2, <1>3 DEF JournalTypeOK, MarkerState

\* No grant is sent or run and nothing becomes delivered: the parts of GrantInv
\* that are not about a runtime stay true.
LEMMA GrantsRest ==
  ASSUME TypeOK, GrantInv, UNCHANGED <<shop, game>>, Delivered' = Delivered,
         \A o \in Order : markers[o] \subseteq markers'[o],
         \A o \in Order : attemptLog[o] \subseteq attemptLog'[o],
         deliveredLog \subseteq deliveredLog'
  PROVE  AtMostOnce' /\ DeliveredIsSettled' /\ GrantLeavesTrace'
<1>1. UNCHANGED <<inflight, applied>>
  BY DEF game
<1>2. AtMostOnce'
  BY <1>1 DEF GrantInv, AtMostOnce
<1>3. DeliveredIsSettled'
  BY <1>1 DEF GrantInv, DeliveredIsSettled
<1>4. GrantLeavesTrace'
  BY <1>1 DEF GrantInv, GrantLeavesTrace
<1> QED
  BY <1>2, <1>3, <1>4

\* h is not in a pass over the rows after the step.
LEMMA NoGrant ==
  ASSUME NEW h \in Host, run'[h].at \notin Delivering, run'[h].called = 0
  PROVE  GrantProgress(h)' /\ SnapshotHolds(h)'
  BY DEF GrantProgress, SnapshotHolds, Delivering, Granting

\* h goes on with its pass: what it read when the pass began still stands.
LEMMA PassGoesOn ==
  ASSUME NEW h \in Host, SnapshotHolds(h), run[h].at \in Delivering,
         run[h].settled \subseteq run'[h].settled, run'[h].attempts = run[h].attempts,
         \A o \in Order : markers[o] \subseteq markers'[o],
         \A o \in Order : markers'[o] = {} =>
           /\ o \in deliveredLog' => o \in deliveredLog
           /\ "dispatched" \in attemptLog'[o] => "dispatched" \in attemptLog[o]
  PROVE  SnapshotHolds(h)'
  BY DEF SnapshotHolds

\* What a step of h has to show: the other runtimes are idle and stay so.
LEMMA GrantMoves ==
  ASSUME FilesInv, GrantInv, NEW h \in Host, Alone(h),
         run[h].at # "idle" \/ lease = NoHost,
         AtMostOnce', DeliveredIsSettled', GrantLeavesTrace',
         GrantProgress(h)', SnapshotHolds(h)'
  PROVE  GrantInv'
<1>1. ASSUME NEW g \in Host \ {h} PROVE run[g].at = "idle" /\ run'[g] = run[g]
  BY <1>1, ConstantsOK DEF FilesInv, LeaseHeld, Alone
<1>2. ASSUME NEW g \in Host \ {h} PROVE run[g].called = 0
  BY <1>1, <1>2 DEF GrantInv, GrantProgress, Granting
<1>3. ASSUME NEW g \in Host \ {h} PROVE GrantProgress(g)' /\ SnapshotHolds(g)'
  BY <1>1, <1>2, <1>3, NoGrant DEF Delivering, Granting
<1> QED
  BY <1>3 DEF GrantInv

\* Every step keeps GrantInv; that nothing rolls out of the attempts log is needed
\* in LogAttempt alone, and the single transport where a call did not succeed.
LEMMA GrantStep ==
  ~LogRolls /\ SingleRoute /\ FilesInv /\ GrantInv /\ [Next]_vars => GrantInv'
<1> SUFFICES ASSUME ~LogRolls, SingleRoute, FilesInv, GrantInv, [Next]_vars PROVE GrantInv'
  OBVIOUS
<1>t. TypeOK /\ JournalTypeOK
  BY DEF FilesInv, TypeOK
<1>n. \A o \in Order : applied[o] \in Nat /\ inflight[o] \in Nat /\ Calls[o] \in Nat \ {0}
  BY <1>t, ConstantsOK DEF TypeOK
<1>h. ASSUME NEW h \in Host
      PROVE  /\ OrderHeld(h) /\ RowsAccounted(h) /\ GrantProgress(h) /\ SnapshotHolds(h)
             /\ run[h].called \in Nat
  BY <1>t DEF FilesInv, GrantInv, TypeOK, Run
<1>o. ASSUME NEW h \in Host, run[h].at \in Granting
      PROVE  run[h].order \in Order /\ markers[run[h].order] # {}
  BY <1>o, <1>h DEF OrderHeld
<1>s. \A h \in Host : \A o \in Order :
        Units(h, o) \in Nat \ {0} /\ (~Queues(h, o) => Units(h, o) = 1)
  BY UnitsPositive DEF Units, Queues
\* A command of o leaves the queue, and takes effect or not.
<1>a. ASSUME NEW o \in Order, GameRuns(o) \/ GameRejects(o) PROVE GrantInv'
  <2>1. UNCHANGED <<markers, deliveredLog, confirmedLog, attemptLog, shop, run>>
    BY <1>a DEF GameRuns, GameRejects, files, world
  <2>2. /\ inflight[o] > 0 /\ inflight'[o] = inflight[o] - 1
        /\ applied'[o] \in {applied[o], applied[o] + 1}
        /\ answer'[o] = "ok" => answer[o] = "ok" \/ applied'[o] = applied[o] + 1
    BY <1>a, <1>t DEF GameRuns, GameRejects, Says, TypeOK
  <2>3. \A q \in Order \ {o} : /\ inflight'[q] = inflight[q] /\ applied'[q] = applied[q]
                               /\ answer'[q] = answer[q]
    BY <1>a, <1>t DEF GameRuns, GameRejects, Says, TypeOK
  <2>4. Delivered' = Delivered
    BY <2>1 DEF Delivered, DeliveredOrders
  <2>5. AtMostOnce'
    BY <1>n, <2>2, <2>3 DEF GrantInv, AtMostOnce
  <2>6. DeliveredIsSettled'
    BY <1>n, <2>1, <2>2, <2>3, <2>4 DEF GrantInv, DeliveredIsSettled
  <2>7. GrantLeavesTrace'
    BY <1>n, <2>1, <2>2, <2>3 DEF GrantInv, GrantLeavesTrace
  <2>8. ASSUME NEW h \in Host PROVE SnapshotHolds(h)'
    BY <1>h, <2>1 DEF SnapshotHolds
  <2>9. ASSUME NEW h \in Host PROVE GrantProgress(h)'
    <3>1. CASE run[h].at \in Granting /\ run[h].order = o
      BY <1>h, <1>n, <1>s, <2>1, <2>2, <3>1 DEF GrantProgress, Granting
    <3>2. CASE run[h].at \in Granting /\ run[h].order # o
      BY <1>h, <1>o, <1>n, <2>1, <2>3, <3>2 DEF GrantProgress, Granting
    <3>3. CASE run[h].at \notin Granting
      BY <1>h, <2>1, <3>3 DEF GrantProgress, Granting
    <3> QED
      BY <3>1, <3>2, <3>3
  <2> QED
    BY <2>5, <2>6, <2>7, <2>8, <2>9 DEF GrantInv
\* A command of o waits in the queue of the game; only who is told of that early waits.
<1>q. ASSUME NEW o \in Order, GameQueues(o) PROVE GrantInv'
  <2>1. UNCHANGED <<markers, deliveredLog, confirmedLog, attemptLog, shop, run,
                    inflight, applied>>
    BY <1>q DEF GameQueues, files, world
  <2>2. Delivered' = Delivered
    BY <2>1 DEF Delivered, DeliveredOrders
  <2>3. AtMostOnce' /\ DeliveredIsSettled' /\ GrantLeavesTrace'
    BY <2>1, <2>2 DEF GrantInv, AtMostOnce, DeliveredIsSettled, GrantLeavesTrace
  <2>4. PICK g \in Host : Queues(g, o) /\ run[g].at = "waiting" /\ run[g].order = o
    BY <1>q DEF GameQueues
  <2>5. \A p \in Order \ {o} : answer'[p] = answer[p]
    BY <1>q, <1>t DEF GameQueues, TypeOK
  <2>6. ASSUME NEW h \in Host PROVE SnapshotHolds(h)'
    BY <1>h, <2>1 DEF SnapshotHolds
  <2>7. ASSUME NEW h \in Host PROVE GrantProgress(h)'
    <3>1. CASE run[h].at = "waiting"
      <4>1. h = g
        BY <2>4, <3>1, ConstantsOK DEF FilesInv, LeaseHeld
      <4> QED
        BY <1>h, <2>1, <2>4, <3>1, <4>1 DEF GrantProgress, Granting, Units, Queues
    <3>2. CASE run[h].at # "waiting"
      BY <1>h, <2>1, <3>2 DEF GrantProgress, Granting, Units
    <3> QED
      BY <3>1, <3>2
  <2> QED
    BY <2>3, <2>6, <2>7 DEF GrantInv
<1>1. ASSUME Environment PROVE GrantInv'
  <2>1. CASE \E o \in Order : GameQueues(o) \/ GameRuns(o) \/ GameRejects(o)
    BY <1>a, <1>q, <2>1
  <2>2. CASE \/ \E o \in Order : Buy(o) \/ TimerEnds(o)
             \/ \E p \in Player : ComeOrGo(p)
    <3>1. /\ UNCHANGED <<files, game, run>>
          /\ \A o \in Order : shop'[o] = "given" => shop[o] = "given"
      BY <1>t, <2>2 DEF Buy, TimerEnds, ComeOrGo, TypeOK
    <3>2. UNCHANGED <<markers, deliveredLog, attemptLog, inflight, applied, answer, run>>
      BY <3>1 DEF files, game
    <3>3. Delivered' = Delivered
      BY <3>1 DEF files, Delivered, DeliveredOrders
    <3>4. AtMostOnce' /\ GrantLeavesTrace' /\ DeliveredIsSettled'
      BY <3>1, <3>2, <3>3 DEF GrantInv, AtMostOnce, GrantLeavesTrace, DeliveredIsSettled
    <3>5. ASSUME NEW h \in Host PROVE GrantProgress(h)' /\ SnapshotHolds(h)'
      BY <1>h, <3>2 DEF GrantProgress, SnapshotHolds
    <3> QED
      BY <3>4, <3>5 DEF GrantInv
  <2> QED
    BY <1>1, <2>1, <2>2 DEF Environment
\* h is outside a pass after the step, and nothing becomes delivered.
<1>b. ASSUME NEW h \in Host, Alone(h), run[h].at # "idle" \/ lease = NoHost,
             run'[h].at \notin Delivering, run'[h].called = 0,
             UNCHANGED <<markers, attemptLog, shop, game>>, Delivered' = Delivered,
             deliveredLog \subseteq deliveredLog'
      PROVE  GrantInv'
  <2>1. AtMostOnce' /\ DeliveredIsSettled' /\ GrantLeavesTrace'
    BY <1>b, <1>t, GrantsRest
  <2>2. GrantProgress(h)' /\ SnapshotHolds(h)'
    BY <1>b, NoGrant
  <2> QED
    BY <1>b, <2>1, <2>2, GrantMoves
<1>2. ASSUME NEW h \in Host, Stop(h) \/ ConfirmEnd(h) PROVE GrantInv'
  <2>1. /\ Alone(h)
        /\ Stands(h, "idle", {}, {}, {}, NoOrder, 0, [o \in Order |-> {}])
    BY <1>2, <1>t, Idles DEF Stop, ConfirmEnd, Release
  <2>2. run[h].at # "idle" /\ UNCHANGED <<files, world, game>>
    BY <1>2 DEF Stop, ConfirmEnd
  <2>3. Delivered' = Delivered
    BY <2>2 DEF files, Delivered, DeliveredOrders
  <2> QED
    BY <1>b, <2>1, <2>2, <2>3 DEF Stands, Delivering, Granting, files, world
<1>3. ASSUME NEW h \in Host, NEW ops, NEW p, Start(h, ops, p) PROVE GrantInv'
  <2>1. /\ Alone(h)
        /\ Stands(h, "stage", run[h].rows, run[h].kept, run[h].settled, run[h].order,
                  run[h].called, run[h].attempts)
    BY <1>3, <1>t, StartFields
  <2>2. run[h].at = "idle" /\ lease = NoHost /\ UNCHANGED <<files, world, game>>
    BY <1>3 DEF Start, LeaseFree
  <2>3. Delivered' = Delivered
    BY <2>2 DEF files, Delivered, DeliveredOrders
  <2>4. run[h].called = 0
    BY <1>h, <2>2 DEF GrantProgress, Granting
  <2> QED
    BY <1>b, <2>1, <2>2, <2>3, <2>4 DEF Stands, Delivering, Granting, files, world
<1>4. ASSUME NEW h \in Host, NEW listed, SyncBegin(h, listed) PROVE GrantInv'
  <2>1. PICK seen \in DeliveredEntries :
          /\ deliveredLog' = Reconciled(seen)
          /\ Stands(h, "fetch", pending \ Settled(seen), run[h].kept, Settled(seen),
                    run[h].order, run[h].called, run[h].attempts)
    BY <1>4, <1>t, SyncFields
  <2>2. Alone(h)
    BY <1>4, <1>t, SyncFields
  <2>3. run[h].at = "stage" /\ UNCHANGED <<markers, confirmedLog, attemptLog, shop, game>>
    BY <1>4 DEF SyncBegin, Due, world
  <2>4. Delivered' = Delivered /\ deliveredLog \subseteq deliveredLog'
    BY <2>1, <2>3, ReadIsDelivered DEF Reconciled
  <2>5. run[h].called = 0
    BY <1>h, <2>3 DEF GrantProgress, Granting
  <2> QED
    BY <1>b, <2>1, <2>2, <2>3, <2>4, <2>5 DEF Stands, Delivering, Granting
<1>5. ASSUME NEW h \in Host, NEW p, NEW ok, Fetch(h, p, ok) PROVE GrantInv'
  <2>1. /\ Alone(h)
        /\ Stands(h, "fetch", run[h].rows \cup Fetched(h, p, ok), run[h].kept,
                  run[h].settled, run[h].order, run[h].called, run[h].attempts)
    BY <1>5, <1>t, FetchFields
  <2>2. run[h].at = "fetch" /\ UNCHANGED <<files, shop, game>>
    BY <1>5 DEF Fetch
  <2>3. Delivered' = Delivered
    BY <2>2 DEF files, Delivered, DeliveredOrders
  <2>4. run[h].called = 0
    BY <1>h, <2>2 DEF GrantProgress, Granting
  <2> QED
    BY <1>b, <2>1, <2>2, <2>3, <2>4 DEF Stands, Delivering, Granting, files
<1>6. ASSUME NEW h \in Host, SyncEnd(h) \/ SkipDeliver(h) \/ DeliverEnd(h) PROVE GrantInv'
  <2>1. PICK left : Advance(h, left)
    BY <1>6 DEF SyncEnd, SkipDeliver, DeliverEnd
  <2>2. PICK at \in {"idle", "stage"} :
          Stands(h, at, {}, {}, {}, NoOrder, 0, [o \in Order |-> {}])
    BY <1>t, <2>1, StageEnds
  <2>3. /\ run[h].at # "idle"
        /\ UNCHANGED <<markers, deliveredLog, confirmedLog, attemptLog, shop, game>>
    BY <1>6 DEF SyncEnd, SkipDeliver, Due, DeliverEnd, files, world
  <2>4. Delivered' = Delivered
    BY <2>3 DEF Delivered, DeliveredOrders
  <2>5. Alone(h)
    BY <1>t, <2>1, StageEnds
  <2> QED
    BY <1>b, <2>2, <2>3, <2>4, <2>5 DEF Stands, Delivering, Granting
<1>7. ASSUME NEW h \in Host, NEW seen \in DeliveredEntries, ConfirmBegin(h, seen)
      PROVE  GrantInv'
  <2>1. /\ Alone(h)
        /\ Stands(h, "confirm", ToConfirm(seen), run[h].kept, run[h].settled,
                  run[h].order, run[h].called, run[h].attempts)
    BY <1>7, <1>t, ConfirmBeginFields
  <2>2. /\ run[h].at = "stage" /\ deliveredLog' = Reconciled(seen)
        /\ UNCHANGED <<markers, confirmedLog, attemptLog, shop, game>>
    BY <1>7 DEF ConfirmBegin, Due, world
  <2>3. Delivered' = Delivered /\ deliveredLog \subseteq deliveredLog'
    BY <2>2, ReadIsDelivered DEF Reconciled
  <2>4. run[h].called = 0
    BY <1>h, <2>2 DEF GrantProgress, Granting
  <2> QED
    BY <1>b, <2>1, <2>2, <2>3, <2>4 DEF Stands, Delivering, Granting
\* The shop is told of an order that is delivered, hence granted in full.
<1>8. ASSUME NEW h \in Host, NEW o \in Order, NEW accepted \in BOOLEAN,
             NEW received \in BOOLEAN, Confirm(h, o, accepted, received)
      PROVE  GrantInv'
  <2>1. /\ run[h].at = "confirm" /\ o \in run[h].rows /\ UNCHANGED <<files, game>>
        /\ shop' \in {shop, [shop EXCEPT ![o] = "given"]}
    BY <1>8 DEF Confirm
  <2>2. UNCHANGED <<markers, deliveredLog, attemptLog, inflight, applied>>
    BY <2>1 DEF files, game
  <2>3. Delivered' = Delivered /\ o \in Delivered
    BY <1>h, <2>1 DEF files, Delivered, DeliveredOrders, RowsAccounted
  <2>4. \A q \in Order : shop'[q] = "given" => q = o \/ shop[q] = "given"
    BY <1>t, <2>1 DEF TypeOK
  <2>5. AtMostOnce' /\ GrantLeavesTrace'
    BY <2>2 DEF GrantInv, AtMostOnce, GrantLeavesTrace
  <2>6. DeliveredIsSettled'
    BY <2>2, <2>3, <2>4 DEF GrantInv, DeliveredIsSettled
  <2>7. /\ Alone(h)
        /\ IF received
           THEN Stands(h, "confirmed", run[h].rows, run[h].kept, run[h].settled, o,
                       run[h].called, run[h].attempts)
           ELSE Stands(h, "confirm", run[h].rows \ {o}, run[h].kept, run[h].settled,
                       run[h].order, run[h].called, run[h].attempts)
    BY <1>8, <1>t, ConfirmFields
  <2>8. run'[h].at \in {"confirm", "confirmed"} /\ run'[h].called = 0
    BY <1>h, <2>1, <2>7 DEF Stands, GrantProgress, Granting
  <2>9. GrantProgress(h)' /\ SnapshotHolds(h)'
    BY <2>8, NoGrant DEF Delivering, Granting
  <2> QED
    BY <2>1, <2>5, <2>6, <2>7, <2>9, GrantMoves
<1>9. ASSUME NEW h \in Host, LogConfirmed(h) PROVE GrantInv'
  <2>1. /\ Alone(h)
        /\ Stands(h, "confirm", run[h].rows \ {run[h].order}, run[h].kept,
                  run[h].settled, NoOrder, run[h].called, run[h].attempts)
    BY <1>9, <1>t, LogConfirmedFields
  <2>2. /\ run[h].at = "confirmed"
        /\ UNCHANGED <<markers, deliveredLog, attemptLog, shop, game>>
        /\ confirmedLog' \in {confirmedLog, confirmedLog \cup {run[h].order}}
    BY <1>9 DEF LogConfirmed, world
  <2>3. Delivered' = Delivered
    BY <1>h, <2>2 DEF OrderHeld, Delivered, DeliveredOrders
  <2>4. run[h].called = 0
    BY <1>h, <2>2 DEF GrantProgress, Granting
  <2> QED
    BY <1>b, <2>1, <2>2, <2>3, <2>4 DEF Stands, Delivering, Granting
<1>10. ASSUME NEW h \in Host, NEW listed, DeliverBegin(h, listed) PROVE GrantInv'
  <2>1. PICK seen \in DeliveredEntries :
          /\ deliveredLog' = Reconciled(seen)
          /\ Stands(h, "rows", pending, run[h].kept, Settled(seen), run[h].order,
                    run[h].called, attemptLog)
    BY <1>10, <1>t, DeliverFields
  <2>2. Alone(h)
    BY <1>10, <1>t, DeliverFields
  <2>3. run[h].at = "stage" /\ UNCHANGED <<markers, confirmedLog, attemptLog, shop, game>>
    BY <1>10 DEF DeliverBegin, Due, world
  <2>4. Delivered' = Delivered /\ deliveredLog \subseteq deliveredLog'
    BY <2>1, <2>3, ReadIsDelivered DEF Reconciled
  <2>5. AtMostOnce' /\ DeliveredIsSettled' /\ GrantLeavesTrace'
    BY <1>t, <2>3, <2>4, GrantsRest
  <2>6. run[h].called = 0
    BY <1>h, <2>3 DEF GrantProgress, Granting
  <2>7. GrantProgress(h)'
    BY <2>1, <2>6 DEF Stands, GrantProgress, Granting
  <2>8. SnapshotHolds(h)'
    BY <2>1, <2>3 DEF Stands, SnapshotHolds, Settled, Reconciled
  <2> QED
    BY <2>2, <2>3, <2>5, <2>7, <2>8, GrantMoves
\* The pass goes on, between two rows, and nothing becomes delivered.
<1>c. ASSUME NEW h \in Host, Alone(h), run[h].at \in Delivering,
             run'[h].at = "rows", run'[h].called = 0,
             run[h].settled \subseteq run'[h].settled, run'[h].attempts = run[h].attempts,
             UNCHANGED <<attemptLog, shop, game>>, Delivered' = Delivered,
             \A o \in Order : markers[o] \subseteq markers'[o],
             deliveredLog \subseteq deliveredLog',
             \A o \in Order : markers'[o] = {} => (o \in deliveredLog' => o \in deliveredLog)
      PROVE  GrantInv'
  <2>1. AtMostOnce' /\ DeliveredIsSettled' /\ GrantLeavesTrace'
    BY <1>c, <1>t, GrantsRest
  <2>2. GrantProgress(h)'
    BY <1>c DEF GrantProgress, Granting
  <2>3. SnapshotHolds(h)'
    BY <1>c, <1>h, PassGoesOn
  <2>4. run[h].at # "idle"
    BY <1>c DEF Delivering, Granting
  <2> QED
    BY <1>c, <2>1, <2>2, <2>3, <2>4, GrantMoves
<1>11. ASSUME NEW h \in Host, NEW o \in Order, DropRow(h, o) PROVE GrantInv'
  <2>1. /\ Alone(h)
        /\ Stands(h, "rows", run[h].rows \ {o}, run[h].kept, run[h].settled,
                  run[h].order, run[h].called, run[h].attempts)
    BY <1>11, <1>t, DropFields
  <2>2. run[h].at = "rows" /\ UNCHANGED <<markers, confirmedLog, attemptLog, shop, game>>
    BY <1>11 DEF DropRow, Visits, world
  <2>3. \/ UNCHANGED deliveredLog
        \/ "delivered" \in Inspect(o) /\ deliveredLog' = deliveredLog \cup {o}
    BY <1>11 DEF DropRow, Reconciled
  <2>4. "delivered" \in Inspect(o) => o \in Delivered /\ markers[o] # {}
    BY <1>t, InspectDelivered DEF Inspect, Snapshot, Furthest
  <2>5. Delivered' = Delivered
    BY <2>2, <2>3, <2>4 DEF Delivered, DeliveredOrders
  <2>6. run[h].called = 0
    BY <1>h, <2>2 DEF GrantProgress, Granting
  <2> QED
    BY <1>c, <2>1, <2>2, <2>3, <2>4, <2>5, <2>6 DEF Stands, Delivering
\* The row goes to remaining; the marker written, if any, is not "delivered".
<1>d. ASSUME NEW h \in Host, NEW o \in Order, Become(h, Keep(h, o)),
             run[h].at \in Delivering,
             UNCHANGED <<deliveredLog, confirmedLog, attemptLog, shop, game>>,
             \/ UNCHANGED markers
             \/ \E s \in MarkerState \ {"delivered"}, ok \in BOOLEAN : TryWrite(o, s, ok)
      PROVE  GrantInv'
  <2>1. /\ Alone(h)
        /\ Stands(h, "rows", run[h].rows \ {o}, run[h].kept \cup {o}, run[h].settled,
                  NoOrder, 0, run[h].attempts)
    BY <1>d, <1>t, RowIsKept
  <2>2. /\ \A q \in Order : markers[q] \subseteq markers'[q]
        /\ \A q \in Order : "delivered" \in markers'[q] => "delivered" \in markers[q]
    BY <1>d, <1>t, JournalGrows
  <2>3. Delivered' = Delivered
    BY <1>d, <2>2 DEF Delivered, DeliveredOrders
  <2> QED
    BY <1>c, <1>d, <2>1, <2>2, <2>3 DEF Stands
<1>12. ASSUME NEW h \in Host, NEW o \in Order, KeepRow(h, o) PROVE GrantInv'
  BY <1>12, <1>d DEF KeepRow, Visits, Delivering, files, world
<1>13. ASSUME NEW h \in Host, NEW o \in Order, BlockLegacy(h, o) PROVE GrantInv'
  BY <1>13, <1>d DEF BlockLegacy, Visits, Delivering, world, MarkerState
\* Nothing is sent or run, no order becomes delivered, and h is inside a grant.
<1>e. ASSUME NEW h \in Host, Alone(h), run[h].at \in Delivering,
             run'[h].at \in Granting,
             run[h].settled \subseteq run'[h].settled, run'[h].attempts = run[h].attempts,
             UNCHANGED <<deliveredLog, shop, game>>, Delivered' = Delivered,
             \A o \in Order : markers[o] \subseteq markers'[o],
             \A o \in Order : attemptLog[o] \subseteq attemptLog'[o],
             \A o \in Order : markers'[o] = {} => attemptLog'[o] = attemptLog[o],
             GrantProgress(h)'
      PROVE  GrantInv'
  <2>1. AtMostOnce' /\ DeliveredIsSettled' /\ GrantLeavesTrace'
    BY <1>e, <1>t, GrantsRest
  <2>2. SnapshotHolds(h)'
    BY <1>e, <1>h, PassGoesOn
  <2>3. run[h].at # "idle"
    BY <1>e DEF Delivering, Granting
  <2> QED
    BY <1>e, <2>1, <2>2, <2>3, GrantMoves
\* An order without a marker, a logged delivery and a logged dispatch was never sent.
<1>14. ASSUME NEW h \in Host, NEW o \in Order, NEW ok \in BOOLEAN, Reserve(h, o, ok)
       PROVE  GrantInv'
  <2>1. /\ run[h].at = "rows" /\ TryWrite(o, "reserved", ok)
        /\ Unsettled(h, o, "none") /\ ~LegacyDispatch(h, o)
        /\ UNCHANGED <<deliveredLog, confirmedLog, attemptLog, shop, game>>
    BY <1>14 DEF Reserve, Visits, world
  <2>2. CASE ~ok
    <3>1. Become(h, Keep(h, o))
      BY <1>14, <2>2 DEF Reserve
    <3> QED
      BY <1>d, <2>1, <3>1 DEF Delivering, MarkerState
  <2>3. CASE ok
    <3>1. /\ Alone(h)
          /\ Stands(h, "reserved", run[h].rows, run[h].kept, run[h].settled, o,
                    run[h].called, run[h].attempts)
      BY <1>14, <1>t, <2>3, ReserveFields
    <3>2. markers[o] = {}
      BY <1>t, <2>1, InspectNone DEF Unsettled
    <3>3. o \notin deliveredLog /\ "dispatched" \notin attemptLog[o]
      BY <1>h, <2>1, <3>2 DEF Unsettled, LegacyDispatch, SnapshotHolds, Delivering
    <3>4. applied[o] = 0 /\ inflight[o] = 0
      BY <1>n, <3>2, <3>3 DEF GrantInv, GrantLeavesTrace
    <3>5. run[h].called = 0
      BY <1>h, <2>1 DEF GrantProgress, Granting
    <3>6. GrantProgress(h)'
      BY <2>1, <3>1, <3>4, <3>5 DEF Stands, GrantProgress, Granting, game
    <3>7. /\ \A q \in Order : markers[q] \subseteq markers'[q]
          /\ \A q \in Order : "delivered" \in markers'[q] => "delivered" \in markers[q]
      BY <1>t, <2>1, JournalGrows
    <3>8. Delivered' = Delivered
      BY <2>1, <3>7 DEF Delivered, DeliveredOrders
    <3> QED
      BY <1>e, <2>1, <3>1, <3>6, <3>7, <3>8 DEF Stands, Delivering, Granting
  <2> QED
    BY <2>2, <2>3
<1>15. ASSUME NEW h \in Host, MarkDispatching(h) PROVE GrantInv'
  <2>1. /\ run[h].at = "reserved"
        /\ UNCHANGED <<deliveredLog, confirmedLog, attemptLog, shop, game>>
    BY <1>15 DEF MarkDispatching, world
  <2>2. PICK ok \in BOOLEAN :
          /\ TryWrite(run[h].order, "dispatching", ok)
          /\ Become(h, IF ok THEN [run[h] EXCEPT !.at = "marked"] ELSE Keep(h, run[h].order))
    BY <1>15 DEF MarkDispatching
  <2>3. run[h].order \in Order
    BY <1>o, <2>1 DEF Granting
  <2>4. CASE ~ok
    BY <1>d, <2>1, <2>2, <2>3, <2>4 DEF Delivering, Granting, MarkerState
  <2>5. CASE ok
    <3>1. /\ Alone(h)
          /\ Stands(h, "marked", run[h].rows, run[h].kept, run[h].settled, run[h].order,
                    run[h].called, run[h].attempts)
      BY <1>t, <2>2, <2>5, AtChanges DEF Place, Granting
    <3>2. GrantProgress(h)'
      BY <1>h, <2>1, <3>1 DEF Stands, GrantProgress, Granting, game
    <3>3. /\ \A q \in Order : markers[q] \subseteq markers'[q]
          /\ \A q \in Order : "delivered" \in markers'[q] => "delivered" \in markers[q]
      BY <1>t, <2>2, <2>3, JournalGrows
    <3>4. Delivered' = Delivered
      BY <2>1, <3>3 DEF Delivered, DeliveredOrders
    <3> QED
      BY <1>e, <2>1, <3>1, <3>2, <3>3, <3>4 DEF Stands, Delivering, Granting
  <2> QED
    BY <2>4, <2>5
<1>16. ASSUME NEW h \in Host, LogAttempt(h) PROVE GrantInv'
  <2>1. /\ run[h].at = "marked" /\ Become(h, [run[h] EXCEPT !.at = "sending"])
        /\ UNCHANGED <<markers, deliveredLog, confirmedLog, shop, game>>
    BY <1>16 DEF LogAttempt, world
  <2>2. attemptLog' = [o \in Order |-> IF o = run[h].order
                                       THEN attemptLog[o] \cup {"dispatched"}
                                       ELSE attemptLog[o]]
    BY <1>16 DEF LogAttempt
  <2>3. /\ Alone(h)
        /\ Stands(h, "sending", run[h].rows, run[h].kept, run[h].settled, run[h].order,
                  run[h].called, run[h].attempts)
    BY <1>t, <2>1, AtChanges DEF Place, Granting
  <2>4. run[h].order \in Order /\ markers[run[h].order] # {}
    BY <1>o, <2>1 DEF Granting
  <2>5. GrantProgress(h)'
    <3>1. /\ run'[h].at = "sending" /\ run'[h].order = run[h].order /\ run'[h].called = 0
          /\ applied'[run[h].order] = 0 /\ inflight'[run[h].order] = 0
      BY <1>h, <2>1, <2>3 DEF Stands, GrantProgress, game
    <3>2. Units(h, run[h].order) \in Nat /\ Units(h, run[h].order) <= Calls[run[h].order]
      BY <1>n, <2>4 DEF Units
    <3> QED
      BY <1>n, <2>4, <3>1, <3>2 DEF GrantProgress, Granting, Units
  <2>6. Delivered' = Delivered
    BY <2>1 DEF Delivered, DeliveredOrders
  <2> QED
    BY <1>e, <2>1, <2>2, <2>3, <2>4, <2>5, <2>6 DEF Stands, Delivering, Granting
\* h waits or gives up: the commands and answers of its order are all that change.
<1>f. ASSUME NEW h \in Host, Alone(h), run[h].at \in Granting, run'[h].at \in Granting,
             run[h].settled \subseteq run'[h].settled, run'[h].attempts = run[h].attempts,
             UNCHANGED <<files, shop>>,
             AtMostOnce', DeliveredIsSettled', GrantLeavesTrace', GrantProgress(h)'
      PROVE  GrantInv'
  <2>1. UNCHANGED <<markers, deliveredLog, attemptLog>>
    BY <1>f DEF files
  <2>2. SnapshotHolds(h)'
    BY <1>f, <1>h, <2>1, PassGoesOn DEF Delivering
  <2>3. run[h].at # "idle"
    BY <1>f DEF Granting
  <2> QED
    BY <1>f, <2>2, <2>3, GrantMoves
<1>17. ASSUME NEW h \in Host, SendCall(h) PROVE GrantInv'
  <2> DEFINE o == run[h].order
  <2>1. /\ run[h].at = "sending" /\ Become(h, [run[h] EXCEPT !.at = "waiting"])
        /\ UNCHANGED <<files, shop, applied>>
    BY <1>17 DEF SendCall, world
  <2>2. o \in Order /\ markers[o] # {}
    BY <1>o, <2>1 DEF Granting
  <2>3. /\ inflight'[o] = inflight[o] + Units(h, o) /\ answer'[o] = "none"
        /\ \A q \in Order \ {o} : inflight'[q] = inflight[q]
    BY <1>17, <1>t, <2>2 DEF SendCall, TypeOK
  <2>4. /\ Alone(h)
        /\ Stands(h, "waiting", run[h].rows, run[h].kept, run[h].settled, o,
                  run[h].called, run[h].attempts)
    BY <1>t, <2>1, AtChanges DEF Place, Granting
  <2>5. /\ run[h].called + Units(h, o) <= Calls[o] /\ (h \in Native => run[h].called = 0)
        /\ applied[o] = run[h].called /\ inflight[o] = 0
    BY <1>h, <2>1 DEF GrantProgress
  <2>u. Units(h, o) \in Nat \ {0} /\ run[h].called \in Nat
    BY <1>h, <2>2, UnitsPositive
  <2> HIDE DEF o
  <2>6. UNCHANGED <<markers, deliveredLog, confirmedLog, attemptLog>>
    BY <2>1 DEF files
  <2>7. AtMostOnce'
    BY <1>n, <2>1, <2>2, <2>3, <2>5, <2>u DEF GrantInv, AtMostOnce
  <2>8. GrantLeavesTrace'
    BY <1>n, <2>1, <2>2, <2>3, <2>6 DEF GrantInv, GrantLeavesTrace
  <2>9. DeliveredIsSettled'
    BY <1>n, <2>1, <2>2, <2>3, <2>5, <2>6, <2>u
       DEF GrantInv, DeliveredIsSettled, Delivered, DeliveredOrders
  <2>10. GrantProgress(h)'
    <3>1. /\ run'[h].at = "waiting" /\ run'[h].order = o /\ run'[h].called = run[h].called
          /\ applied'[o] = run[h].called /\ inflight'[o] = Units(h, o) /\ answer'[o] = "none"
      BY <2>1, <2>3, <2>4, <2>5, <2>u DEF Stands
    <3> QED
      BY <2>5, <2>u, <3>1 DEF GrantProgress, Granting, Units
  <2> QED
    BY <1>f, <2>1, <2>4, <2>7, <2>8, <2>9, <2>10 DEF Stands, Granting
\* h gives up: the command is gone, or it stays with the game.
<1>18. ASSUME NEW h \in Host,
              RefuseCall(h) \/ CallFailed(h) \/ CallUnverified(h) \/ CallTimeout(h)
       PROVE  GrantInv'
  <2> DEFINE o == run[h].order
  <2>1. run[h].at \in Granting /\ UNCHANGED <<files, shop, applied>>
    BY <1>18 DEF RefuseCall, CallFailed, CallUnverified, CallTimeout, Granting, world, game
  <2>o. o \in Order
    BY <1>o, <2>1
  <2>g. GiveUp(h) = [run[h] EXCEPT !.at = "nacked"]
    <3>1. Routes[o] = 1 /\ run[h].tried \in Nat
      BY <1>t, <2>o DEF SingleRoute, TypeOK, Run
    <3> QED
      BY <3>1 DEF GiveUp
  <2>b. Become(h, [run[h] EXCEPT !.at = "nacked"])
    BY <1>18, <2>g DEF RefuseCall, CallFailed, CallUnverified, CallTimeout
  <2>2. \A q \in Order : inflight'[q] = inflight[q] \/ inflight'[q] = 0
    BY <1>18, <1>t DEF RefuseCall, CallFailed, CallUnverified, CallTimeout, Withdrawn, game, TypeOK
  <2>3. /\ Alone(h)
        /\ Stands(h, "nacked", run[h].rows, run[h].kept, run[h].settled, o,
                  run[h].called, run[h].attempts)
    BY <1>t, <2>b, AtChanges DEF Place, Granting
  <2>4. UNCHANGED <<markers, deliveredLog, confirmedLog, attemptLog>>
    BY <2>1 DEF files
  <2>5. AtMostOnce'
    BY <1>n, <2>1, <2>2 DEF GrantInv, AtMostOnce
  <2>6. GrantLeavesTrace'
    BY <1>n, <2>1, <2>2, <2>4 DEF GrantInv, GrantLeavesTrace
  <2>7. DeliveredIsSettled'
    BY <1>n, <2>1, <2>2, <2>4 DEF GrantInv, DeliveredIsSettled, Delivered, DeliveredOrders
  <2>8. GrantProgress(h)'
    BY <2>3 DEF Stands, GrantProgress, Granting
  <2> QED
    BY <1>f, <2>1, <2>3, <2>5, <2>6, <2>7, <2>8 DEF Stands, Granting
\* The call of h is answered: its commands took effect, unless h is told early.
<1>19. ASSUME NEW h \in Host, CallOk(h) PROVE GrantInv'
  <2> DEFINE o == run[h].order
             at == IF LastCall(h) THEN "acked" ELSE "sending"
             sum == run[h].called + Units(h, o)
  <2>1. /\ run[h].at = "waiting" /\ answer[o] = "ok" /\ Verified(h)
        /\ UNCHANGED <<files, shop, inflight, applied>>
    BY <1>19 DEF CallOk, world
  <2>2. /\ Alone(h)
        /\ Stands(h, at, run[h].rows, run[h].kept, run[h].settled, o, sum,
                  run[h].attempts)
    BY <1>19, <1>t, CallOkFields
  <2>3. o \in Order
    BY <1>o, <2>1 DEF Granting
  <2>4. /\ sum <= Calls[o] /\ (h \in Native => run[h].called = 0)
        /\ applied[o] + inflight[o] <= sum
        /\ ~Queues(h, o) => applied[o] = run[h].called + 1
    BY <1>h, <2>1 DEF GrantProgress
  <2>5. IF at = "acked" THEN sum = Calls[o] ELSE at = "sending" /\ sum # Calls[o]
    BY DEF LastCall
  <2>6. at \in Granting
    BY DEF Granting
  <2>m. /\ applied[o] \in Nat /\ inflight[o] \in Nat /\ Calls[o] \in Nat \ {0}
        /\ sum \in Nat /\ run[h].called \in Nat
        /\ ~Queues(h, o) => Units(h, o) = 1
    BY <1>h, <1>n, <1>s, <2>3
  <2>c. ~Queues(h, o) => applied[o] = sum /\ inflight[o] = 0
    BY <2>4, <2>m
  \* Two or more calls are the panel's, of an order that is not deferred.
  <2>d. at = "sending" => h \in Panel /\ ~Queues(h, o)
    <3>1. h \in Native => sum = Calls[o]
      BY <2>4, <2>m DEF Units
    <3>2. sum # Calls[o] => Calls[o] # 1
      BY <1>s, <2>3, <2>4, <2>m
    <3> QED
      BY <2>3, <2>5, <3>1, <3>2, ConstantsOK DEF Queues, Host
  <2>e. at = "acked" /\ o \notin Early => applied[o] = Calls[o] /\ inflight[o] = 0
    <3>1. CASE Queues(h, o)
      <4>1. o \notin Early => h \in Native /\ o \in Deferred
        BY <2>3, <3>1 DEF Early, Queues, Host
      <4>2. o \notin Early => applied[o] = Calls[o]
        BY <2>1, <4>1 DEF Verified
      <4> QED
        BY <2>4, <2>5, <2>m, <4>2
    <3>2. CASE ~Queues(h, o)
      BY <2>c, <2>5, <3>2
    <3> QED
      BY <3>1, <3>2
  <2>k. at = "sending" => /\ sum + Units(h, o) <= Calls[o] /\ h \notin Native
                         /\ applied[o] = sum /\ inflight[o] = 0
    <3>1. h \in Panel => h \notin Native
      BY ConstantsOK
    <3> QED
      BY <2>4, <2>5, <2>c, <2>d, <2>m, <3>1
  <2> HIDE DEF o, at, sum
  <2>7. UNCHANGED <<markers, deliveredLog, confirmedLog, attemptLog>>
    BY <2>1 DEF files
  <2>8. AtMostOnce' /\ GrantLeavesTrace' /\ DeliveredIsSettled'
    BY <2>1, <2>7 DEF GrantInv, AtMostOnce, GrantLeavesTrace, DeliveredIsSettled,
                      Delivered, DeliveredOrders
  <2>9. GrantProgress(h)'
    <3>1. /\ run'[h].at = at /\ run'[h].order = o /\ run'[h].called = sum
          /\ applied'[o] = applied[o] /\ inflight'[o] = inflight[o]
      BY <2>1, <2>2 DEF Stands
    <3>2. at \in {"acked", "sending"}
      BY <2>5
    <3> QED
      BY <2>e, <2>k, <3>1, <3>2 DEF GrantProgress, Granting, Units, Early
  <2> QED
    BY <1>f, <2>1, <2>2, <2>6, <2>8, <2>9 DEF Stands, Granting
<1>20. ASSUME NEW h \in Host, WriteDelivered(h) PROVE GrantInv'
  <2> DEFINE o == run[h].order
  <2>1. /\ run[h].at = "acked"
        /\ UNCHANGED <<deliveredLog, confirmedLog, attemptLog, shop, game>>
    BY <1>20 DEF WriteDelivered, world
  <2>2. PICK ok \in BOOLEAN :
          /\ TryWrite(o, "delivered", ok)
          /\ Become(h, IF ok THEN Issued(h) ELSE Keep(h, o))
    BY <1>20 DEF WriteDelivered
  <2>3. o \in Order
    BY <1>o, <2>1 DEF Granting
  <2>4. CASE ~ok
    <3>1. Become(h, Keep(h, o)) /\ UNCHANGED markers
      BY <1>t, <2>2, <2>3, <2>4, JournalGrows
    <3> QED
      BY <1>d, <2>1, <2>3, <3>1 DEF Delivering, Granting
  <2>5. CASE ok
    <3>1. /\ Alone(h)
          /\ Stands(h, "logging", run[h].rows \ {o}, run[h].kept,
                    run[h].settled \cup {o}, o, run[h].called, run[h].attempts)
      BY <1>t, <2>2, <2>5, IssuedFields
    <3>2. /\ \A q \in Order : markers[q] \subseteq markers'[q]
          /\ \A q \in Order : q # o => markers'[q] = markers[q]
      BY <1>t, <2>2, <2>3, JournalGrows
    <3>3. o \notin Early => applied[o] = Calls[o] /\ inflight[o] = 0
      BY <1>h, <2>1 DEF GrantProgress
    <3> HIDE DEF o
    <3>4. UNCHANGED <<inflight, applied, answer>>
      BY <2>1 DEF game
    <3>5. AtMostOnce'
      BY <3>4 DEF GrantInv, AtMostOnce
    <3>6. GrantLeavesTrace'
      BY <2>1, <3>2, <3>4 DEF GrantInv, GrantLeavesTrace
    <3>7. DeliveredIsSettled'
      BY <2>1, <3>2, <3>3, <3>4
         DEF GrantInv, DeliveredIsSettled, Delivered, DeliveredOrders
    <3>8. GrantProgress(h)'
      BY <3>1, <3>3, <3>4 DEF Stands, GrantProgress, Granting
    <3>9. SnapshotHolds(h)'
      BY <1>h, <2>1, <3>1, <3>2, PassGoesOn DEF Stands, Delivering, Granting
    <3> QED
      BY <2>1, <3>1, <3>5, <3>6, <3>7, <3>8, <3>9, GrantMoves
  <2> QED
    BY <2>4, <2>5
<1>21. ASSUME NEW h \in Host, LogDelivered(h) PROVE GrantInv'
  <2>1. /\ run[h].at = "logging"
        /\ UNCHANGED <<markers, confirmedLog, attemptLog, shop, game>>
        /\ deliveredLog' \in {deliveredLog, deliveredLog \cup {run[h].order}}
    BY <1>21 DEF LogDelivered, world
  <2>2. /\ Alone(h)
        /\ Stands(h, "rows", run[h].rows, run[h].kept, run[h].settled, NoOrder, 0,
                  run[h].attempts)
    BY <1>21, <1>t, LogDeliveredFields
  <2>3. run[h].order \in Order /\ "delivered" \in markers[run[h].order]
    BY <1>h, <1>o, <2>1 DEF OrderHeld, Granting
  <2>4. Delivered' = Delivered
    BY <2>1, <2>3 DEF Delivered, DeliveredOrders
  <2> QED
    BY <1>c, <2>1, <2>2, <2>3, <2>4 DEF Stands, Delivering, Granting
<1>22. ASSUME NEW h \in Host, WriteUncertain(h) PROVE GrantInv'
  <2> DEFINE o == run[h].order
  <2>1. /\ run[h].at = "nacked"
        /\ UNCHANGED <<deliveredLog, confirmedLog, attemptLog, shop, game>>
    BY <1>22 DEF WriteUncertain, world
  <2>2. PICK ok \in BOOLEAN : TryWrite(o, "uncertain", ok)
    BY <1>22 DEF WriteUncertain
  <2>3. o \in Order
    BY <1>o, <2>1 DEF Granting
  <2>4. CASE Become(h, Keep(h, o))
    BY <1>d, <2>1, <2>2, <2>3, <2>4 DEF Delivering, Granting, MarkerState
  <2>5. CASE Release(h)
    <3>1. /\ Alone(h)
          /\ Stands(h, "idle", {}, {}, {}, NoOrder, 0, [q \in Order |-> {}])
      BY <1>t, <2>5, Idles DEF Release
    <3>2. /\ \A q \in Order : markers[q] \subseteq markers'[q]
          /\ \A q \in Order : "delivered" \in markers'[q] => "delivered" \in markers[q]
      BY <1>t, <2>2, <2>3, JournalGrows
    <3>3. Delivered' = Delivered
      BY <2>1, <3>2 DEF Delivered, DeliveredOrders
    <3>4. AtMostOnce' /\ DeliveredIsSettled' /\ GrantLeavesTrace'
      BY <1>t, <2>1, <3>2, <3>3, GrantsRest
    <3>5. GrantProgress(h)' /\ SnapshotHolds(h)'
      BY <3>1, NoGrant DEF Stands, Delivering, Granting
    <3> QED
      BY <2>1, <3>1, <3>4, <3>5, GrantMoves
  <2> QED
    BY <1>22, <2>4, <2>5 DEF WriteUncertain
<1>23. CASE UNCHANGED vars
  <2>1. UNCHANGED <<markers, deliveredLog, confirmedLog, attemptLog, shop,
                    inflight, applied, answer, run>>
    BY <1>23 DEF vars, files, world, game
  <2>2. ASSUME NEW h \in Host PROVE GrantProgress(h)' /\ SnapshotHolds(h)'
    BY <1>h, <2>1 DEF GrantProgress, SnapshotHolds
  <2> QED
    BY <2>1, <2>2 DEF GrantInv, AtMostOnce, DeliveredIsSettled, GrantLeavesTrace,
                      Delivered, DeliveredOrders
<1> QED
  BY <1>1, <1>2, <1>3, <1>4, <1>5, <1>6, <1>7, <1>8, <1>9, <1>10, <1>11, <1>12, <1>13,
     <1>14, <1>15, <1>16, <1>17, <1>18, <1>19, <1>20, <1>21, <1>22, <1>23
     DEF Next, Step, Row, Grant

---------------------------------------------------------------------------
(* The theorems.                                                            *)

\* GrantInv holds at the start: what an earlier version dispatched or delivered is
\* in its logs.
LEMMA GrantInit == Init => GrantInv
<1> SUFFICES ASSUME Init PROVE GrantInv
  OBVIOUS
<1>1. run = [h \in Host |-> Idle] /\ markers = [o \in Order |-> {}]
  BY DEF Init, JournalInit
<1>2. \A h \in Host : GrantProgress(h) /\ SnapshotHolds(h)
  BY <1>1 DEF Idle, GrantProgress, SnapshotHolds, Granting, Delivering
<1>3. PICK past \in [Order -> History] :
        LET left(S) == {o \in Order : past[o] \in S} IN
        /\ deliveredLog = left({"delivered", "confirmed"})
        /\ confirmedLog = left({"confirmed"})
        /\ attemptLog = [o \in Order |-> {past[o]} \cap AttemptFlag]
        /\ shop = [o \in Order |-> CASE past[o] = "new" -> "unsold"
                                     [] past[o] = "confirmed" -> "given"
                                     [] OTHER -> "open"]
        /\ inflight = [o \in Order |-> 0]
        /\ \A o \in Order :
             CASE past[o] = "dispatched" -> applied[o] \in 0 .. Calls[o]
               [] past[o] \in {"delivered", "confirmed"} -> applied[o] = Calls[o]
               [] OTHER -> applied[o] = 0
  BY DEF Init
<1>4. \A o \in Order : Calls[o] \in Nat
  BY ConstantsOK
<1>5. AtMostOnce
  BY <1>3, <1>4 DEF AtMostOnce
<1>6. \A o \in Order : o \in Delivered \/ shop[o] = "given" => past[o] \in {"delivered", "confirmed"}
  BY <1>1, <1>3 DEF Delivered, DeliveredOrders
<1>7. DeliveredIsSettled
  BY <1>3, <1>6 DEF DeliveredIsSettled
<1>8. GrantLeavesTrace
  <2> SUFFICES ASSUME NEW o \in Order, applied[o] + inflight[o] > 0
               PROVE  "dispatched" \in attemptLog[o] \/ o \in deliveredLog
    BY DEF GrantLeavesTrace
  <2>1. past[o] \in {"dispatched", "delivered", "confirmed"}
    BY <1>3
  <2>2. past[o] = "dispatched" => "dispatched" \in attemptLog[o]
    BY <1>3 DEF AttemptFlag
  <2>3. past[o] \in {"delivered", "confirmed"} => o \in deliveredLog
    BY <1>3
  <2> QED
    BY <2>1, <2>2, <2>3
<1> QED
  BY <1>2, <1>5, <1>7, <1>8 DEF GrantInv

\* GrantInv is an invariant as long as no dispatch rolls out of the attempts log and
\* there is one transport.
THEOREM GrantsCorrect ==
  ASSUME ~LogRolls, SingleRoute
  PROVE  Spec => []GrantInv
<1>1. FilesInv /\ GrantInv /\ [Next]_vars => GrantInv'
  BY GrantStep
<1> QED
  BY <1>1, GrantInit, FilesCorrect, PTL DEF Spec

\* Both inductive invariants together, as the run of the two runtimes checks them.
THEOREM DeliveryCorrect ==
  ASSUME ~LogRolls, SingleRoute
  PROVE  Spec => []DeliveryInv
<1>1. FilesInv /\ GrantInv => DeliveryInv
  BY DEF DeliveryInv
<1> QED
  BY <1>1, FilesCorrect, GrantsCorrect, PTL

\* No order is granted twice, for any number of orders, players, runtimes, calls per
\* order and early stops, as long as no dispatch rolls out of the attempts log and the
\* native runtime has one transport.
THEOREM GrantedAtMostOnce ==
  ASSUME ~LogRolls, SingleRoute
  PROVE  Spec => []AtMostOnce
<1>1. GrantInv => AtMostOnce
  BY DEF GrantInv
<1> QED
  BY <1>1, GrantsCorrect, PTL

\* Whatever the logs, the journal or the shop call delivered has been granted in full,
\* the orders that are taken for granted in the queue of the game (Early) excepted.
THEOREM DeliveredMeansGranted ==
  ASSUME ~LogRolls, SingleRoute
  PROVE  Spec => []DeliveredIsGranted
<1>1. GrantInv => DeliveredIsGranted
  BY DEF GrantInv, DeliveredIsSettled, DeliveredIsGranted
<1> QED
  BY <1>1, GrantsCorrect, PTL

---------------------------------------------------------------------------
(* GameStoresDelivery implements OneGrantPerOrder, under the same          *)
(* assumptions.  Four actions map to steps of the promise (writing a       *)
(* dispatching marker, a command that takes effect, writing a delivered    *)
(* marker, telling the shop); all others, and those four when they repeat  *)
(* what is on record, map to stuttering.                                   *)

\* A write that fails, or of a marker other than m, does not change whether m is there.
LEMMA OtherMarker ==
  ASSUME JournalTypeOK, NEW o \in Order, NEW s, NEW ok, TryWrite(o, s, ok), NEW m, m # s
  PROVE  \A q \in Order : m \in markers'[q] <=> m \in markers[q]
  BY DEF TryWrite, JournalTypeOK

\* No marker is ever removed.
LEMMA MarkersStay ==
  ASSUME FilesInv, [Next]_vars
  PROVE  \A o \in Order : markers[o] \subseteq markers'[o]
<1>t. JournalTypeOK
  BY DEF FilesInv, TypeOK
<1>o. ASSUME NEW h \in Host, run[h].at \in Granting PROVE run[h].order \in Order
  BY <1>o DEF FilesInv, OrderHeld
<1>1. CASE UNCHANGED markers
  BY <1>1
<1>2. ASSUME NEW o \in Order, NEW s, NEW ok, TryWrite(o, s, ok)
      PROVE  \A q \in Order : markers[q] \subseteq markers'[q]
  BY <1>t, <1>2, JournalGrows
<1>3. ASSUME NEW h \in Host, Row(h)
      PROVE  UNCHANGED markers \/ \E o \in Order, s \in MarkerState, ok \in BOOLEAN : TryWrite(o, s, ok)
  BY <1>3 DEF Row, DropRow, KeepRow, BlockLegacy, Reserve, files, MarkerState
<1>4. ASSUME NEW h \in Host, Grant(h)
      PROVE  UNCHANGED markers \/ \E o \in Order, s \in MarkerState, ok \in BOOLEAN : TryWrite(o, s, ok)
  <2>1. CASE MarkDispatching(h) \/ WriteDelivered(h) \/ WriteUncertain(h)
    BY <1>o, <2>1 DEF MarkDispatching, WriteDelivered, WriteUncertain, Granting, MarkerState
  <2>2. CASE \/ LogAttempt(h) \/ SendCall(h) \/ RefuseCall(h) \/ CallOk(h) \/ CallFailed(h)
             \/ CallUnverified(h) \/ CallTimeout(h) \/ LogDelivered(h)
    BY <2>2 DEF LogAttempt, SendCall, RefuseCall, CallOk, CallFailed, CallUnverified,
                CallTimeout, LogDelivered, files
  <2> QED
    BY <1>4, <2>1, <2>2 DEF Grant
<1>5. ASSUME NEW h \in Host, Step(h), ~Row(h), ~Grant(h) PROVE UNCHANGED markers
  BY <1>5 DEF Step, SyncBegin, SyncEnd, Fetch, SkipDeliver, DeliverBegin, DeliverEnd,
              ConfirmBegin, Confirm, LogConfirmed, ConfirmEnd, files
<1>6. ASSUME \/ Environment
             \/ \E h \in Host : \/ Stop(h)
                                \/ \E ops \in Operations, p \in Player \cup {NoPlayer} : Start(h, ops, p)
      PROVE  UNCHANGED markers
  BY <1>6 DEF Environment, GameQueues, GameRuns, GameRejects, Buy, TimerEnds, ComeOrGo, Stop, Start, files
<1>7. CASE UNCHANGED vars
  BY <1>7 DEF vars, files
<1> QED
  BY <1>1, <1>2, <1>3, <1>4, <1>5, <1>6, <1>7 DEF Next

\* Every step keeps the write-ahead rule.
LEMMA WriteAheadStep == FilesInv /\ WriteAhead /\ [Next]_vars => WriteAhead'
<1> SUFFICES ASSUME FilesInv, WriteAhead, [Next]_vars PROVE WriteAhead'
  OBVIOUS
<1>t. TypeOK /\ JournalTypeOK
  BY DEF FilesInv, TypeOK
<1>m. \A o \in Order : markers[o] \subseteq markers'[o]
  BY MarkersStay
<1>o. ASSUME NEW h \in Host, run[h].at \in Granting PROVE run[h].order \in Order
  BY <1>o DEF FilesInv, OrderHeld
\* A step of h that goes on with a grant under way, or leaves the grants.
<1>g. ASSUME NEW h \in Host, Alone(h),
             \/ run'[h].at \notin Granting \ {"reserved"}
             \/ run[h].at \in Granting \ {"reserved"} /\ run'[h].order = run[h].order,
             \A o \in Order : inflight'[o] > 0 => inflight[o] > 0
      PROVE  WriteAhead'
  BY <1>g, <1>m, <1>o DEF WriteAhead, Alone
<1>1. ASSUME Environment PROVE WriteAhead'
  <2>1. UNCHANGED run
    BY <1>1 DEF Environment, GameQueues, GameRuns, GameRejects, Buy, TimerEnds, ComeOrGo
  <2>2. \A o \in Order : inflight'[o] > 0 => inflight[o] > 0
    BY <1>1, <1>t
       DEF Environment, GameQueues, GameRuns, GameRejects, Buy, TimerEnds, ComeOrGo, game, TypeOK
  <2> QED
    BY <1>m, <1>o, <2>1, <2>2 DEF WriteAhead
<1>2. ASSUME NEW h \in Host,
             \/ Stop(h) \/ ConfirmEnd(h)
             \/ \E ops \in Operations, p \in Player \cup {NoPlayer} : Start(h, ops, p)
             \/ \E listed \in SUBSET Player : SyncBegin(h, listed) \/ DeliverBegin(h, listed)
             \/ \E p \in Player, ok \in BOOLEAN : Fetch(h, p, ok)
             \/ \E o \in Order : DropRow(h, o)
             \/ \E seen \in DeliveredEntries : ConfirmBegin(h, seen)
             \/ LogConfirmed(h) \/ LogDelivered(h)
      PROVE  WriteAhead'
  <2>1. Alone(h) /\ run'[h].at \in {"idle", "stage", "fetch", "rows", "confirm"}
    BY <1>2, <1>t, Idles, StartFields, SyncFields, FetchFields, DeliverFields, DropFields,
       ConfirmBeginFields, LogConfirmedFields, LogDeliveredFields
       DEF Stop, ConfirmEnd, Release, Stands
  <2>2. UNCHANGED inflight
    BY <1>2 DEF Stop, ConfirmEnd, Start, SyncBegin, Fetch, DeliverBegin, DropRow, ConfirmBegin,
                LogConfirmed, LogDelivered, game
  <2> QED
    BY <1>g, <2>1, <2>2 DEF Granting
<1>3. ASSUME NEW h \in Host, SyncEnd(h) \/ SkipDeliver(h) \/ DeliverEnd(h) PROVE WriteAhead'
  <2>1. PICK left : Advance(h, left)
    BY <1>3 DEF SyncEnd, SkipDeliver, DeliverEnd
  <2>2. Alone(h) /\ run'[h].at \in {"idle", "stage"}
    BY <1>t, <2>1, StageEnds DEF Stands
  <2>3. UNCHANGED inflight
    BY <1>3 DEF SyncEnd, SkipDeliver, DeliverEnd, game
  <2> QED
    BY <1>g, <2>2, <2>3 DEF Granting
<1>4. ASSUME NEW h \in Host, NEW o \in Order, NEW accepted \in BOOLEAN,
             NEW received \in BOOLEAN, Confirm(h, o, accepted, received)
      PROVE  WriteAhead'
  <2>1. Alone(h) /\ run'[h].at \in {"confirm", "confirmed"}
    BY <1>4, <1>t, ConfirmFields DEF Stands
  <2>2. UNCHANGED inflight
    BY <1>4 DEF Confirm, game
  <2> QED
    BY <1>g, <2>1, <2>2 DEF Granting
<1>5. ASSUME NEW h \in Host, NEW o \in Order,
             KeepRow(h, o) \/ BlockLegacy(h, o) \/ \E ok \in BOOLEAN : Reserve(h, o, ok)
      PROVE  WriteAhead'
  <2>1. Become(h, Keep(h, o)) \/ Reserve(h, o, TRUE)
    BY <1>5 DEF KeepRow, BlockLegacy, Reserve
  <2>2. Alone(h) /\ run'[h].at \in {"rows", "reserved"}
    BY <1>t, <2>1, RowIsKept, ReserveFields DEF Stands
  <2>3. UNCHANGED inflight
    BY <1>5 DEF KeepRow, BlockLegacy, Reserve, game
  <2> QED
    BY <1>g, <2>2, <2>3 DEF Granting
<1>6. ASSUME NEW h \in Host, MarkDispatching(h) PROVE WriteAhead'
  <2>1. run[h].at = "reserved" /\ UNCHANGED inflight
    BY <1>6 DEF MarkDispatching, game
  <2>2. PICK ok \in BOOLEAN :
          /\ TryWrite(run[h].order, "dispatching", ok)
          /\ Become(h, IF ok THEN [run[h] EXCEPT !.at = "marked"] ELSE Keep(h, run[h].order))
    BY <1>6 DEF MarkDispatching
  <2>3. run[h].order \in Order
    BY <1>o, <2>1 DEF Granting
  <2>4. CASE ~ok
    <3>1. Alone(h) /\ run'[h].at = "rows"
      BY <1>t, <2>2, <2>3, <2>4, RowIsKept DEF Stands
    <3> QED
      BY <1>g, <2>1, <3>1 DEF Granting
  <2>5. CASE ok
    <3>1. Alone(h) /\ run'[h].order = run[h].order
      BY <1>t, <2>2, <2>5, AtChanges DEF Stands, Place, Granting
    <3>2. "dispatching" \in markers'[run[h].order]
      BY <1>t, <2>2, <2>3, <2>5, JournalGrows
    <3> QED
      BY <1>m, <1>o, <2>1, <3>1, <3>2 DEF WriteAhead, Alone
  <2> QED
    BY <2>4, <2>5
<1>7. ASSUME NEW h \in Host,
             \/ LogAttempt(h) \/ SendCall(h) \/ CallUnverified(h)
             \/ RefuseCall(h) \/ CallFailed(h) \/ CallTimeout(h)
      PROVE  WriteAhead'
  <2>1. Become(h, GiveUp(h)) \/ \E at \in Granting : Become(h, [run[h] EXCEPT !.at = at])
    BY <1>7 DEF LogAttempt, SendCall, RefuseCall, CallFailed, CallUnverified, CallTimeout,
                Granting
  <2>2. Alone(h) /\ run'[h].order = run[h].order
    BY <1>t, <2>1, AtChanges, GiveUpFields DEF Stands, Place
  <2>3. run[h].at \in Granting \ {"reserved"}
    BY <1>7 DEF LogAttempt, SendCall, RefuseCall, CallFailed, CallUnverified, CallTimeout,
                Granting
  <2>4. \A o \in Order : inflight'[o] > 0 => inflight[o] > 0 \/ o = run[h].order
    BY <1>7, <1>t, <1>o, <2>3
       DEF LogAttempt, SendCall, RefuseCall, CallFailed, CallUnverified, CallTimeout,
           Withdrawn, game, TypeOK
  <2> QED
    BY <1>m, <1>o, <2>2, <2>3, <2>4 DEF WriteAhead, Alone
<1>8. ASSUME NEW h \in Host, CallOk(h) PROVE WriteAhead'
  <2>1. Alone(h) /\ run'[h].order = run[h].order
    BY <1>8, <1>t, CallOkFields DEF Stands
  <2>2. run[h].at = "waiting" /\ UNCHANGED inflight
    BY <1>8 DEF CallOk
  <2> QED
    BY <1>g, <2>1, <2>2 DEF Granting
<1>9. ASSUME NEW h \in Host, WriteDelivered(h) PROVE WriteAhead'
  <2>1. run[h].at = "acked" /\ UNCHANGED inflight
    BY <1>9 DEF WriteDelivered, game
  <2>2. Become(h, Issued(h)) \/ Become(h, Keep(h, run[h].order))
    BY <1>9 DEF WriteDelivered
  <2>3. run[h].order \in Order
    BY <1>o, <2>1 DEF Granting
  <2>4. Alone(h) /\ (run'[h].at = "rows" \/ run'[h].order = run[h].order)
    BY <1>t, <2>2, <2>3, IssuedFields, RowIsKept DEF Stands
  <2> QED
    BY <1>g, <2>1, <2>4 DEF Granting
<1>10. ASSUME NEW h \in Host, WriteUncertain(h) PROVE WriteAhead'
  <2>1. run[h].at = "nacked" /\ UNCHANGED inflight
    BY <1>10 DEF WriteUncertain, game
  <2>2. Become(h, Keep(h, run[h].order)) \/ Become(h, Idle)
    BY <1>10 DEF WriteUncertain, Release
  <2>3. run[h].order \in Order
    BY <1>o, <2>1 DEF Granting
  <2>4. Alone(h) /\ run'[h].at \in {"rows", "idle"}
    BY <1>t, <2>2, <2>3, RowIsKept, Idles DEF Stands
  <2> QED
    BY <1>g, <2>1, <2>4 DEF Granting
<1>11. CASE UNCHANGED vars
  BY <1>11 DEF vars, files, game, WriteAhead
<1> QED
  BY <1>1, <1>2, <1>3, <1>4, <1>5, <1>6, <1>7, <1>8, <1>9, <1>10, <1>11
     DEF Next, Step, Row, Grant

\* Nothing is sent at the start.
LEMMA WriteAheadInit == Init => WriteAhead
<1> SUFFICES ASSUME Init PROVE WriteAhead
  OBVIOUS
<1>1. run = [h \in Host |-> Idle] /\ inflight = [o \in Order |-> 0]
  BY DEF Init
<1> QED
  BY <1>1 DEF WriteAhead, Idle, Granting

\* Before any command of an order can run, a dispatching marker is on disk, whatever
\* the runtimes do and whenever they stop (DeliverPendingCoreAsync writes it before it
\* calls the bridge).
THEOREM WrittenAhead == Spec => []WriteAhead
<1>1. FilesInv /\ WriteAhead /\ [Next]_vars => WriteAhead'
  BY WriteAheadStep
<1> QED
  BY <1>1, WriteAheadInit, FilesCorrect, PTL DEF Spec

---------------------------------------------------------------------------
(* The refinement.                                                          *)

\* The mapped state.
phases == [o \in Order |-> PhaseOf(o)]

\* A step that the promise does not see.
LEMMA Still ==
  ASSUME UNCHANGED applied, Delivered' = Delivered,
         \A o \in Order : shop'[o] = "given" <=> shop[o] = "given",
         \A o \in Order : Attempted(o)' <=> Attempted(o)
  PROVE  UNCHANGED Promise!vars
  BY DEF PhaseOf, Promise!vars

\* The same, when the markers, the attempts and the shop stay as they are.
LEMMA StillHere ==
  ASSUME UNCHANGED <<markers, attemptLog, shop, applied>>, Delivered' = Delivered
  PROVE  UNCHANGED Promise!vars
  BY Still DEF Attempted

\* The initial states are initial states of the promise.
LEMMA PromiseInit == Init => Promise!Init
<1> SUFFICES ASSUME Init PROVE Promise!Init
  OBVIOUS
<1>1. applied \in [Order -> Nat] /\ \A o \in Order : inflight[o] = 0
  BY TypeInit DEF TypeOK, Init
<1>2. GrantInv /\ \A o \in Order : markers[o] = {}
  BY GrantInit DEF Init, JournalInit
<1>3. \A o \in Order : Calls[o] \in Nat
  BY ConstantsOK
<1>4. \A o \in Order : applied[o] <= Calls[o]
  BY <1>1, <1>2, <1>3 DEF GrantInv, AtMostOnce
<1>5. \A o \in Order \ Early :
        PhaseOf(o) \in {"delivered", "told"} => applied[o] = Calls[o]
  BY <1>2 DEF GrantInv, DeliveredIsSettled, PhaseOf
<1>6. ASSUME NEW o \in Order, PhaseOf(o) = "waiting" PROVE applied[o] = 0
  <2>1. "dispatched" \notin attemptLog[o] /\ o \notin deliveredLog
    BY <1>6 DEF PhaseOf, Attempted, Delivered
  <2> QED
    BY <1>1, <1>2, <2>1 DEF GrantInv, GrantLeavesTrace
<1>7. phases \in [Order -> Promise!Phase]
  BY DEF phases, PhaseOf, Promise!Phase
<1> QED
  BY <1>1, <1>4, <1>5, <1>6, <1>7 DEF Promise!Init, phases

\* Every step is a step of the promise, or one that the promise does not see.
LEMMA PromiseStep ==
  ~LogRolls /\ SingleRoute /\ FilesInv /\ GrantInv /\ WriteAhead /\ [Next]_vars
    => [Promise!Next]_(Promise!vars)
<1> SUFFICES ASSUME ~LogRolls, SingleRoute, FilesInv, GrantInv, WriteAhead, [Next]_vars
             PROVE  Promise!Next \/ UNCHANGED Promise!vars
  BY DEF Promise!vars
<1>t. TypeOK /\ JournalTypeOK
  BY DEF FilesInv, TypeOK
<1>n. \A o \in Order : applied[o] \in Nat /\ inflight[o] \in Nat /\ Calls[o] \in Nat
  BY <1>t, ConstantsOK DEF TypeOK
<1>o. ASSUME NEW h \in Host, run[h].at \in Granting PROVE run[h].order \in Order
  BY <1>o DEF FilesInv, OrderHeld
<1>p. ASSUME NEW h \in Host PROVE OrderHeld(h) /\ RowsAccounted(h) /\ GrantProgress(h)
  BY DEF FilesInv, GrantInv
\* A marker of s is written that the promise does not look at, or the write fails.
<1>w. ASSUME NEW o \in Order, NEW s \in {"reserved", "uncertain"}, NEW ok, TryWrite(o, s, ok),
             UNCHANGED <<deliveredLog, confirmedLog, attemptLog, shop, applied>>
      PROVE  UNCHANGED Promise!vars
  <2>1. \A q \in Order : /\ "delivered" \in markers'[q] <=> "delivered" \in markers[q]
                         /\ "dispatching" \in markers'[q] <=> "dispatching" \in markers[q]
    BY <1>t, <1>w, OtherMarker
  <2>2. Delivered' = Delivered
    BY <1>w, <2>1 DEF Delivered, DeliveredOrders
  <2>3. \A q \in Order : Attempted(q)' <=> Attempted(q)
    BY <1>w, <2>1 DEF Attempted
  <2> QED
    BY <1>w, <2>2, <2>3, Still
\* A command takes effect: its order was attempted, and is not delivered unless it was
\* taken for granted early.
<1>1. ASSUME NEW o \in Order, GameRuns(o) PROVE Promise!Next
  <2>1. /\ inflight[o] > 0 /\ applied' = [applied EXCEPT ![o] = @ + 1]
        /\ UNCHANGED <<markers, deliveredLog, confirmedLog, attemptLog, shop>>
    BY <1>1 DEF GameRuns, files, world
  <2>2. o \notin Early => o \notin Delivered /\ shop[o] # "given"
    BY <2>1 DEF GrantInv, DeliveredIsSettled
  <2>3. "dispatching" \in markers[o]
    BY <2>1 DEF WriteAhead
  <2>4. \/ PhaseOf(o) = "attempted"
        \/ o \in Early /\ PhaseOf(o) \in {"delivered", "told"}
    BY <2>2, <2>3 DEF PhaseOf, Attempted
  <2>5. applied[o] < Calls[o]
    BY <1>n, <2>1 DEF GrantInv, AtMostOnce
  <2>6. phases' = phases
    BY <2>1 DEF phases, PhaseOf, Attempted, Delivered, DeliveredOrders
  <2>7. Promise!GrantPart(o)
    BY <2>1, <2>4, <2>5, <2>6 DEF Promise!GrantPart, phases
  <2> QED
    BY <2>7 DEF Promise!Next
<1>2. ASSUME NEW o \in Order, GameQueues(o) \/ GameRejects(o) \/ Buy(o) \/ TimerEnds(o)
      PROVE  UNCHANGED Promise!vars
  <2>1. /\ UNCHANGED <<markers, deliveredLog, confirmedLog, attemptLog, applied>>
        /\ \A q \in Order : shop'[q] = "given" <=> shop[q] = "given"
    BY <1>2, <1>t DEF GameQueues, GameRejects, Buy, TimerEnds, files, world, game, TypeOK
  <2>2. Delivered' = Delivered
    BY <2>1 DEF Delivered, DeliveredOrders
  <2> QED
    BY <2>1, <2>2, Still DEF Attempted
<1>3. ASSUME NEW p \in Player, ComeOrGo(p) PROVE UNCHANGED Promise!vars
  BY <1>3, StillHere DEF ComeOrGo, files, game, Delivered, DeliveredOrders
\* Neither the logs nor the journal change.
<1>4. ASSUME NEW h \in Host,
             \/ Stop(h) \/ \E ops \in Operations, p \in Player \cup {NoPlayer} : Start(h, ops, p)
             \/ \E p \in Player, ok \in BOOLEAN : Fetch(h, p, ok)
             \/ SyncEnd(h) \/ SkipDeliver(h) \/ DeliverEnd(h) \/ ConfirmEnd(h)
             \/ \E o \in Order : KeepRow(h, o)
             \/ SendCall(h) \/ RefuseCall(h) \/ CallOk(h) \/ CallFailed(h)
             \/ CallUnverified(h) \/ CallTimeout(h)
      PROVE  UNCHANGED Promise!vars
  <2>1. UNCHANGED <<markers, deliveredLog, confirmedLog, attemptLog, shop, applied>>
    BY <1>4 DEF Stop, Start, Fetch, SyncEnd, SkipDeliver, DeliverEnd, ConfirmEnd, KeepRow,
                SendCall, RefuseCall, CallOk, CallFailed, CallUnverified, CallTimeout,
                files, world, game
  <2> QED
    BY <2>1, StillHere DEF Delivered, DeliveredOrders
\* The delivered log takes over what the journal says.
<1>5. ASSUME NEW h \in Host,
             \/ \E listed \in SUBSET Player : SyncBegin(h, listed) \/ DeliverBegin(h, listed)
             \/ \E seen \in DeliveredEntries : ConfirmBegin(h, seen)
      PROVE  UNCHANGED Promise!vars
  <2>1. /\ \E seen \in DeliveredEntries : deliveredLog' = Reconciled(seen)
        /\ UNCHANGED <<markers, confirmedLog, attemptLog, shop, applied>>
    BY <1>5 DEF SyncBegin, DeliverBegin, ConfirmBegin, world, game
  <2> QED
    BY <2>1, ReadIsDelivered, StillHere
<1>6. ASSUME NEW h \in Host, NEW o \in Order, DropRow(h, o) PROVE UNCHANGED Promise!vars
  <2>1. /\ UNCHANGED <<markers, confirmedLog, attemptLog, shop, applied>>
        /\ \/ UNCHANGED deliveredLog
           \/ "delivered" \in Inspect(o) /\ deliveredLog' = deliveredLog \cup {o}
    BY <1>6 DEF DropRow, Reconciled, world, game
  <2>2. Delivered' = Delivered
    BY <2>1, InspectDelivered DEF Delivered, DeliveredOrders
  <2> QED
    BY <2>1, <2>2, StillHere
<1>7. ASSUME NEW h \in Host, NEW o \in Order,
             BlockLegacy(h, o) \/ \E ok \in BOOLEAN : Reserve(h, o, ok)
      PROVE  UNCHANGED Promise!vars
  <2>1. /\ \E s \in {"reserved", "uncertain"}, ok \in BOOLEAN : TryWrite(o, s, ok)
        /\ UNCHANGED <<deliveredLog, confirmedLog, attemptLog, shop, applied>>
    BY <1>7 DEF BlockLegacy, Reserve, world, game
  <2> QED
    BY <1>w, <2>1
\* The attempt begins with its marker.
<1>8. ASSUME NEW h \in Host, MarkDispatching(h) PROVE Promise!Next \/ UNCHANGED Promise!vars
  <2>1. PICK o \in Order : o = run[h].order
    BY <1>8, <1>o DEF MarkDispatching, Granting
  <2>2. /\ UNCHANGED <<deliveredLog, confirmedLog, attemptLog, shop, applied>>
        /\ \E ok \in BOOLEAN : TryWrite(o, "dispatching", ok)
    BY <1>8, <2>1 DEF MarkDispatching, world, game
  <2>3. /\ \A q \in Order : "delivered" \in markers'[q] <=> "delivered" \in markers[q]
        /\ \A q \in Order \ {o} : markers'[q] = markers[q]
        /\ UNCHANGED markers \/ "dispatching" \in markers'[o]
    BY <1>t, <2>1, <2>2, OtherMarker, JournalGrows
  <2>4. Delivered' = Delivered
    BY <2>2, <2>3 DEF Delivered, DeliveredOrders
  <2>5. CASE Attempted(o)' <=> Attempted(o)
    <3>1. \A q \in Order : Attempted(q)' <=> Attempted(q)
      BY <2>2, <2>3, <2>5 DEF Attempted
    <3> QED
      BY <2>2, <2>4, <3>1, Still
  <2>6. CASE ~(Attempted(o)' <=> Attempted(o))
    <3>1. Attempted(o)' /\ ~Attempted(o)
      BY <2>2, <2>3, <2>6 DEF Attempted
    <3>2. \A q \in Order \ {o} : PhaseOf(q)' = PhaseOf(q)
      BY <2>2, <2>3, <2>4 DEF PhaseOf, Attempted
    <3>3. CASE shop[o] = "given" \/ o \in Delivered
      <4>1. PhaseOf(o)' = PhaseOf(o)
        BY <2>2, <2>4, <3>3 DEF PhaseOf
      <4> QED
        BY <2>2, <3>2, <4>1 DEF Promise!vars
    <3>4. CASE ~(shop[o] = "given" \/ o \in Delivered)
      <4>1. PhaseOf(o) = "waiting" /\ PhaseOf(o)' = "attempted"
        BY <2>2, <2>4, <3>1, <3>4 DEF PhaseOf
      <4>2. phases' = [phases EXCEPT ![o] = "attempted"]
        BY <2>1, <3>2, <4>1 DEF phases
      <4>3. Promise!Attempt(o)
        BY <2>1, <2>2, <4>1, <4>2 DEF Promise!Attempt, phases
      <4> QED
        BY <2>1, <4>3 DEF Promise!Next
    <3> QED
      BY <3>3, <3>4
  <2> QED
    BY <2>5, <2>6
\* The attempt is on record already when its row is logged.
<1>9. ASSUME NEW h \in Host, LogAttempt(h) PROVE UNCHANGED Promise!vars
  <2>o. PICK o \in Order : o = run[h].order
    BY <1>9, <1>o DEF LogAttempt, Granting
  <2>1. "dispatching" \in markers[o]
    BY <1>9, <2>o DEF LogAttempt, WriteAhead, Granting
  <2>2. /\ UNCHANGED <<markers, deliveredLog, confirmedLog, shop, applied>>
        /\ attemptLog' = [q \in Order |-> IF q = o THEN attemptLog[q] \cup {"dispatched"}
                                          ELSE attemptLog[q]]
    BY <1>9, <2>o DEF LogAttempt, world, game
  <2>3. \A q \in Order : Attempted(q)' <=> Attempted(q)
    BY <2>1, <2>2 DEF Attempted
  <2>4. Delivered' = Delivered
    BY <2>2 DEF Delivered, DeliveredOrders
  <2> QED
    BY <2>2, <2>3, <2>4, Still
\* The order becomes delivered with its marker, when every call was answered ok.
<1>10. ASSUME NEW h \in Host, WriteDelivered(h) PROVE Promise!Next \/ UNCHANGED Promise!vars
  <2>o. PICK o \in Order : o = run[h].order
    BY <1>10, <1>o DEF WriteDelivered, Granting
  <2>1. run[h].at = "acked" /\ "dispatching" \in markers[o]
    BY <1>10, <2>o DEF WriteDelivered, WriteAhead, Granting
  <2>2. /\ UNCHANGED <<deliveredLog, confirmedLog, attemptLog, shop, applied>>
        /\ \E ok \in BOOLEAN : TryWrite(o, "delivered", ok)
    BY <1>10, <2>o DEF WriteDelivered, world, game
  <2>3. o \notin Early => applied[o] = Calls[o]
    BY <1>p, <2>o, <2>1 DEF GrantProgress
  <2>4. /\ \A q \in Order : "dispatching" \in markers'[q] <=> "dispatching" \in markers[q]
        /\ \A q \in Order \ {o} : markers'[q] = markers[q]
        /\ UNCHANGED markers \/ "delivered" \in markers'[o]
    BY <1>t, <2>1, <2>2, OtherMarker, JournalGrows
  <2>5. \A q \in Order : Attempted(q)' <=> Attempted(q)
    BY <2>2, <2>4 DEF Attempted
  <2>6. \A q \in Order \ {o} : q \in Delivered' <=> q \in Delivered
    BY <2>2, <2>4 DEF Delivered, DeliveredOrders
  <2>7. \A q \in Order \ {o} : PhaseOf(q)' = PhaseOf(q)
    BY <2>2, <2>5, <2>6 DEF PhaseOf
  <2>8. CASE PhaseOf(o)' = PhaseOf(o)
    BY <2>2, <2>7, <2>8 DEF Promise!vars
  <2>9. CASE PhaseOf(o)' # PhaseOf(o)
    <3>1. ~UNCHANGED markers
      <4> SUFFICES ASSUME UNCHANGED markers PROVE FALSE
        OBVIOUS
      <4>1. PhaseOf(o)' = PhaseOf(o)
        BY <2>2 DEF PhaseOf, Attempted, Delivered, DeliveredOrders
      <4> QED
        BY <2>9, <4>1
    <3>2. o \in Delivered'
      BY <2>1, <2>4, <3>1 DEF Delivered, DeliveredOrders
    <3>3. shop[o] # "given" /\ o \notin Delivered
      BY <2>2, <2>9, <3>2 DEF PhaseOf
    <3>4. PhaseOf(o) = "attempted" /\ PhaseOf(o)' = "delivered"
      BY <2>1, <2>2, <3>2, <3>3 DEF PhaseOf, Attempted
    <3>5. phases' = [phases EXCEPT ![o] = "delivered"]
      BY <2>1, <2>7, <3>4 DEF phases
    <3>6. Promise!Deliver(o)
      BY <2>1, <2>2, <2>3, <3>4, <3>5 DEF Promise!Deliver, phases
    <3> QED
      BY <2>1, <3>6 DEF Promise!Next
  <2> QED
    BY <2>8, <2>9
<1>11. ASSUME NEW h \in Host, LogDelivered(h) PROVE UNCHANGED Promise!vars
  <2>1. /\ run[h].at = "logging"
        /\ UNCHANGED <<markers, confirmedLog, attemptLog, shop, applied>>
        /\ deliveredLog' \in {deliveredLog, deliveredLog \cup {run[h].order}}
    BY <1>11 DEF LogDelivered, world, game
  <2>2. run[h].order \in Order /\ "delivered" \in markers[run[h].order]
    BY <1>o, <1>p, <2>1 DEF OrderHeld, Granting
  <2>3. Delivered' = Delivered
    BY <2>1, <2>2 DEF Delivered, DeliveredOrders
  <2> QED
    BY <2>1, <2>3, StillHere
<1>12. ASSUME NEW h \in Host, WriteUncertain(h) PROVE UNCHANGED Promise!vars
  <2>1. /\ run[h].order \in Order
        /\ \E ok \in BOOLEAN : TryWrite(run[h].order, "uncertain", ok)
        /\ UNCHANGED <<deliveredLog, confirmedLog, attemptLog, shop, applied>>
    BY <1>12, <1>o DEF WriteUncertain, world, game, Granting
  <2> QED
    BY <1>w, <2>1
\* The shop is told of a delivered order.
<1>13. ASSUME NEW h \in Host, NEW o \in Order, NEW accepted \in BOOLEAN,
              NEW received \in BOOLEAN, Confirm(h, o, accepted, received)
       PROVE  Promise!Next \/ UNCHANGED Promise!vars
  <2>1. /\ run[h].at = "confirm" /\ o \in run[h].rows
        /\ UNCHANGED <<markers, deliveredLog, confirmedLog, attemptLog, applied>>
        /\ shop' \in {shop, [shop EXCEPT ![o] = "given"]}
    BY <1>13 DEF Confirm, files, game
  <2>2. o \in Delivered
    BY <1>p, <2>1 DEF RowsAccounted
  <2>3. \A q \in Order \ {o} : shop'[q] = shop[q]
    BY <1>t, <2>1 DEF TypeOK
  <2>4. Delivered' = Delivered /\ \A q \in Order : Attempted(q)' <=> Attempted(q)
    BY <2>1 DEF Delivered, DeliveredOrders, Attempted
  <2>5. CASE shop'[o] = "given" <=> shop[o] = "given"
    BY <2>1, <2>3, <2>4, <2>5, Still
  <2>6. CASE ~(shop'[o] = "given" <=> shop[o] = "given")
    <3>1. shop'[o] = "given" /\ shop[o] # "given"
      BY <1>t, <2>1, <2>6 DEF TypeOK
    <3>2. PhaseOf(o) = "delivered" /\ PhaseOf(o)' = "told"
      BY <2>2, <3>1 DEF PhaseOf
    <3>3. \A q \in Order \ {o} : PhaseOf(q)' = PhaseOf(q)
      BY <2>3, <2>4 DEF PhaseOf
    <3>4. phases' = [phases EXCEPT ![o] = "told"]
      BY <3>2, <3>3 DEF phases
    <3>5. Promise!Tell(o)
      BY <2>1, <3>2, <3>4 DEF Promise!Tell, phases
    <3> QED
      BY <3>5 DEF Promise!Next
  <2> QED
    BY <2>5, <2>6
<1>14. ASSUME NEW h \in Host, LogConfirmed(h) PROVE UNCHANGED Promise!vars
  <2>1. /\ run[h].at = "confirmed"
        /\ UNCHANGED <<markers, deliveredLog, attemptLog, shop, applied>>
        /\ confirmedLog' \in {confirmedLog, confirmedLog \cup {run[h].order}}
    BY <1>14 DEF LogConfirmed, world, game
  <2>2. Delivered' = Delivered
    BY <1>p, <2>1 DEF OrderHeld, Delivered, DeliveredOrders
  <2> QED
    BY <2>1, <2>2, StillHere
<1>15. CASE UNCHANGED vars
  BY <1>15, StillHere DEF vars, files, world, game, Delivered, DeliveredOrders
<1> QED
  BY <1>1, <1>2, <1>3, <1>4, <1>5, <1>6, <1>7, <1>8, <1>9, <1>10, <1>11, <1>12, <1>13, <1>14,
     <1>15 DEF Next, Environment, Step, Row, Grant

\* The two runtimes, their crashes and the late answers of the game together keep the
\* promise of OneGrantPerOrder, as long as no dispatch rolls out of the attempts log and
\* the native runtime has one transport.
THEOREM KeepsPromise ==
  ASSUME ~LogRolls, SingleRoute
  PROVE  Spec => ImplementsPromise
<1>1. FilesInv /\ GrantInv /\ WriteAhead /\ [Next]_vars => [Promise!Next]_(Promise!vars)
  BY PromiseStep
<1> QED
  BY <1>1, PromiseInit, FilesCorrect, GrantsCorrect, WrittenAhead, PTL
     DEF Spec, ImplementsPromise, Promise!Spec
=============================================================================
