--------------------- MODULE GameStoresFilesProofs ---------------------
(***************************************************************************)
(* Proofs about the pending rows, the logs and the lease of                *)
(* GameStoresDelivery.  FilesInv is inductive: TypeStep shows its types,   *)
(* one step per action, FilesStep the rest.  The lemmas between them say   *)
(* what each action makes of the acting runtime's record, and reduce       *)
(* FilesInv' to what a step of one runtime has to show.                    *)
(***************************************************************************)
EXTENDS GameStoresInvariant, TLAPS

\* Become changes the record of h alone.
LEMMA Becomes ==
  ASSUME run \in [Host -> Run], NEW h \in Host, NEW r \in Run, Become(h, r)
  PROVE  /\ run' \in [Host -> Run]
         /\ run'[h] = r
         /\ \A g \in Host \ {h} : run'[g] = run[g]
  BY DEF Become

\* The record of a runtime that does nothing is a record.
LEMMA IdleRun == Idle \in Run
  BY DEF Idle, Run, Place, Granting

\* A stage that ends leaves a record behind, and the lease free or unchanged.
LEMMA Advances ==
  ASSUME TypeOK, NEW h \in Host, NEW left \in SUBSET Stage, Advance(h, left)
  PROVE  /\ run' \in [Host -> Run]
         /\ lease' \in {lease, NoHost}
<1>1. CASE left = {}
  BY <1>1, IdleRun, Becomes DEF Advance, Release, TypeOK
<1>2. CASE left # {}
  <2> DEFINE r == [Idle EXCEPT !.at = "stage", !.stages = left, !.claim = run[h].claim]
  <2>1. run[h].claim \in Player \cup {NoPlayer}
    BY DEF TypeOK, Run
  <2>2. r \in Run
    BY <2>1 DEF Idle, Run, Place, Granting
  <2> QED
    BY <1>2, <2>2, Becomes DEF Advance, TypeOK
<1> QED
  BY <1>1, <1>2

\* The record after a row went to "remaining" is a record.
LEMMA Keeps ==
  ASSUME TypeOK, NEW h \in Host, NEW o \in Order
  PROVE  Keep(h, o) \in Run
<1>1. run[h] \in Run
  BY DEF TypeOK
<1> QED
  BY <1>1 DEF Keep, Run, Place, Granting

\* The record after a call that did not succeed is a record.
LEMMA GivesUpRun ==
  ASSUME TypeOK, NEW h \in Host
  PROVE  GiveUp(h) \in Run
<1>1. run[h] \in Run /\ run[h].tried + 1 \in Nat
  BY DEF TypeOK, Run
<1> QED
  BY <1>1 DEF GiveUp, Run, Place, Granting

\* One call asks for at least one grant.
LEMMA UnitsPositive ==
  ASSUME NEW h \in Host, NEW o \in Order
  PROVE  Units(h, o) \in Nat \ {0}
  BY ConstantsOK DEF Units

\* Writing a marker leaves a journal.
LEMMA Writes ==
  ASSUME JournalTypeOK, NEW o \in Order, NEW s \in MarkerState, NEW ok, TryWrite(o, s, ok)
  PROVE  JournalTypeOK'
  BY DEF TryWrite, JournalTypeOK

\* Reading the journal and the logs yields orders.
LEMMA Reads ==
  ASSUME TypeOK, NEW seen \in DeliveredEntries
  PROVE  seen \subseteq Order /\ Settled(seen) \subseteq Order /\ Reconciled(seen) \subseteq Order
  BY DEF DeliveredEntries, DeliveredOrders, TypeOK, Settled, Reconciled

\* Every step keeps the types; that a grant has an order is the one fact it takes
\* from the rest of FilesInv.
LEMMA TypeStep == FilesInv /\ [Next]_vars => TypeOK'
<1> SUFFICES ASSUME FilesInv, [Next]_vars PROVE TypeOK'
  OBVIOUS
<1> TypeOK
  BY DEF FilesInv
<1>r. /\ run \in [Host -> Run]
      /\ \A h \in Host : run[h] \in Run
  BY DEF TypeOK
<1>o. ASSUME NEW h \in Host, run[h].at \in Granting \cup {"confirmed"}
      PROVE  run[h].order \in Order
  BY <1>o DEF FilesInv, OrderHeld, TypeOK, JournalTypeOK, Delivered, DeliveredOrders
<1>1. ASSUME NEW o \in Order, GameRuns(o) PROVE TypeOK'
  BY <1>1 DEF GameRuns, Says, files, world, TypeOK, JournalTypeOK
<1>2. ASSUME NEW o \in Order, GameRejects(o) PROVE TypeOK'
  BY <1>2 DEF GameRejects, Says, files, world, TypeOK, JournalTypeOK
<1>q. ASSUME NEW o \in Order, GameQueues(o) PROVE TypeOK'
  BY <1>q DEF GameQueues, files, world, TypeOK, JournalTypeOK
<1>3. ASSUME NEW o \in Order, Buy(o) PROVE TypeOK'
  BY <1>3 DEF Buy, files, game, TypeOK, JournalTypeOK
<1>4. ASSUME NEW o \in Order, TimerEnds(o) PROVE TypeOK'
  BY <1>4 DEF TimerEnds, Timer, files, game, TypeOK, JournalTypeOK
<1>5. ASSUME NEW p \in Player, ComeOrGo(p) PROVE TypeOK'
  BY <1>5 DEF ComeOrGo, files, game, TypeOK, JournalTypeOK
<1>6. ASSUME NEW h \in Host, Stop(h) PROVE TypeOK'
  <2>1. run' \in [Host -> Run]
    BY <1>6, <1>r, IdleRun, Becomes DEF Stop, Release
  <2> QED
    BY <1>6, <2>1 DEF Stop, Release, files, world, game, TypeOK, JournalTypeOK
<1>7. ASSUME NEW h \in Host, NEW ops \in Operations, NEW p \in Player \cup {NoPlayer},
             Start(h, ops, p)
      PROVE  TypeOK'
  <2>r. run[h] \in Run
    BY <1>r
  <2> DEFINE r == [run[h] EXCEPT !.at = "stage", !.stages = ops, !.claim = p]
  <2>1. r \in Run
    BY <2>r DEF Run, Place, Operations, Stage
  <2>2. run' \in [Host -> Run]
    BY <1>7, <1>r, <2>1, Becomes DEF Start
  <2> QED
    BY <1>7, <2>2 DEF Start, files, world, game, TypeOK, JournalTypeOK, LeaseFree
<1>8. ASSUME NEW h \in Host, NEW listed, SyncBegin(h, listed) PROVE TypeOK'
  <2>r. run[h] \in Run
    BY <1>r
  <2> DEFINE live == IF h \in Panel /\ run[h].claim # NoPlayer THEN {run[h].claim} ELSE listed
             r(seen) == [run[h] EXCEPT !.at = "fetch", !.settled = Settled(seen),
                                       !.rows = pending \ Settled(seen), !.players = live]
  <2>1. PICK seen \in DeliveredEntries :
          deliveredLog' = Reconciled(seen) /\ Become(h, r(seen))
    BY <1>8 DEF SyncBegin
  <2>2. live \subseteq Player
    BY <1>8, <1>r DEF SyncBegin, Listings, TypeOK, Run
  <2>3. pending \ Settled(seen) \subseteq Order
    BY DEF TypeOK
  <2>s. Settled(seen) \subseteq Order
    BY Reads
  <2>4. r(seen) \in Run
    <3> HIDE DEF live
    <3> QED
      BY <2>r, <2>2, <2>3, <2>s DEF Run, Place
  <2>5. run' \in [Host -> Run]
    BY <1>r, <2>1, <2>4, Becomes
  <2>6. deliveredLog' \subseteq Order
    BY <2>1, Reads
  <2>7. UNCHANGED <<markers, pending, confirmedLog, attemptLog, world, game, lease, stops>>
    BY <1>8 DEF SyncBegin
  <2> QED
    BY <2>5, <2>6, <2>7 DEF world, game, TypeOK, JournalTypeOK
<1>9. ASSUME NEW h \in Host, NEW p \in Player, NEW ok \in BOOLEAN, Fetch(h, p, ok)
      PROVE  TypeOK'
  <2>r. run[h] \in Run
    BY <1>r
  <2> DEFINE new == Fetched(h, p, ok)
  <2>1. /\ Become(h, [run[h] EXCEPT !.players = @ \ {p}, !.rows = @ \cup new])
        /\ timers' = [o \in Order |-> IF o \in new /\ DeliveryDelay
                                      THEN timers[o] \cup {"delivery"} ELSE timers[o]]
    BY <1>9 DEF Fetch
  <2>n. new \subseteq Order
    BY ConstantsOK DEF Fetched, Unknown
  <2> HIDE DEF new
  <2>2. [run[h] EXCEPT !.players = @ \ {p}, !.rows = @ \cup new] \in Run
    BY <2>r, <2>n DEF Run
  <2>3. run' \in [Host -> Run]
    BY <1>r, <2>1, <2>2, Becomes
  <2>4. timers' \in [Order -> SUBSET Timer]
    BY <2>1 DEF TypeOK, Timer
  <2>5. UNCHANGED <<files, shop, online, game, lease, stops>>
    BY <1>9 DEF Fetch
  <2> QED
    BY <2>3, <2>4, <2>5 DEF files, game, TypeOK, JournalTypeOK
<1>10. ASSUME NEW h \in Host, SyncEnd(h) PROVE TypeOK'
  <2>1. run[h].stages \ {"sync"} \subseteq Stage /\ run[h].rows \subseteq Order
    BY <1>r DEF Run
  <2>2. run' \in [Host -> Run] /\ lease' \in {lease, NoHost}
    BY <1>10, <2>1, Advances DEF SyncEnd
  <2> QED
    BY <1>10, <2>1, <2>2 DEF SyncEnd, SavePending, world, game, TypeOK, JournalTypeOK
<1>11. ASSUME NEW h \in Host, SkipDeliver(h) PROVE TypeOK'
  <2>1. run[h].stages \ {"deliver"} \subseteq Stage
    BY <1>r DEF Run
  <2>2. run' \in [Host -> Run] /\ lease' \in {lease, NoHost}
    BY <1>11, <2>1, Advances DEF SkipDeliver
  <2> QED
    BY <1>11, <2>2 DEF SkipDeliver, files, world, game, TypeOK, JournalTypeOK
<1>12. ASSUME NEW h \in Host, NEW listed, DeliverBegin(h, listed) PROVE TypeOK'
  <2>r. run[h] \in Run
    BY <1>r
  <2> DEFINE live == Present(h, listed)
             r(seen) == [run[h] EXCEPT !.at = "rows", !.settled = Settled(seen),
                                       !.rows = pending, !.attempts = attemptLog,
                                       !.players = live]
  <2>1. PICK seen \in DeliveredEntries :
          deliveredLog' = Reconciled(seen) /\ Become(h, r(seen))
    BY <1>12 DEF DeliverBegin
  <2>2. live \subseteq Player
    BY <1>12, <1>r DEF DeliverBegin, Present, Listings, TypeOK, Run
  <2>3. pending \subseteq Order /\ attemptLog \in [Order -> SUBSET AttemptFlag]
    BY DEF TypeOK
  <2>s. Settled(seen) \subseteq Order
    BY Reads
  <2>4. r(seen) \in Run
    <3> HIDE DEF live
    <3> QED
      BY <2>r, <2>2, <2>3, <2>s DEF Run, Place
  <2>5. run' \in [Host -> Run]
    BY <1>r, <2>1, <2>4, Becomes
  <2>6. deliveredLog' \subseteq Order
    BY <2>1, Reads
  <2>7. UNCHANGED <<markers, pending, confirmedLog, attemptLog, world, game, lease, stops>>
    BY <1>12 DEF DeliverBegin
  <2> QED
    BY <2>5, <2>6, <2>7 DEF world, game, TypeOK, JournalTypeOK
<1>13. ASSUME NEW h \in Host, NEW o \in Order, DropRow(h, o) PROVE TypeOK'
  <2>r. run[h] \in Run
    BY <1>r
  <2>1. [run[h] EXCEPT !.rows = @ \ {o}] \in Run
    BY <2>r DEF Run
  <2>2. run' \in [Host -> Run]
    BY <1>13, <1>r, <2>1, Becomes DEF DropRow
  <2> QED
    BY <1>13, <2>2 DEF DropRow, Reconciled, world, game, TypeOK, JournalTypeOK
<1>14. ASSUME NEW h \in Host, NEW o \in Order, KeepRow(h, o) PROVE TypeOK'
  <2>1. run' \in [Host -> Run]
    BY <1>14, <1>r, Keeps, Becomes DEF KeepRow
  <2> QED
    BY <1>14, <2>1 DEF KeepRow, files, world, game, TypeOK, JournalTypeOK
<1>15. ASSUME NEW h \in Host, NEW o \in Order, BlockLegacy(h, o) PROVE TypeOK'
  <2>1. run' \in [Host -> Run]
    BY <1>15, <1>r, Keeps, Becomes DEF BlockLegacy
  <2>2. JournalTypeOK'
    BY <1>15, Writes DEF BlockLegacy, MarkerState, TypeOK
  <2> QED
    BY <1>15, <2>1, <2>2 DEF BlockLegacy, world, game, TypeOK
<1>16. ASSUME NEW h \in Host, NEW o \in Order, NEW ok \in BOOLEAN, Reserve(h, o, ok)
       PROVE  TypeOK'
  <2>r. run[h] \in Run
    BY <1>r
  <2>1. [run[h] EXCEPT !.at = "reserved", !.order = o] \in Run
    BY <2>r DEF Run, Place, Granting
  <2>2. run' \in [Host -> Run]
    BY <1>16, <1>r, <2>1, Keeps, Becomes DEF Reserve
  <2>3. JournalTypeOK'
    BY <1>16, Writes DEF Reserve, MarkerState, TypeOK
  <2> QED
    BY <1>16, <2>2, <2>3 DEF Reserve, world, game, TypeOK
<1>17. ASSUME NEW h \in Host, MarkDispatching(h) PROVE TypeOK'
  <2>1. [run[h] EXCEPT !.at = "marked"] \in Run
    BY <1>r DEF Run, Place, Granting
  <2>2. run' \in [Host -> Run]
    BY <1>17, <1>r, <1>o, <2>1, Keeps, Becomes DEF MarkDispatching, Granting
  <2>3. JournalTypeOK'
    BY <1>17, <1>o, Writes DEF MarkDispatching, MarkerState, TypeOK, Granting
  <2> QED
    BY <1>17, <2>2, <2>3 DEF MarkDispatching, world, game, TypeOK
<1>18. ASSUME NEW h \in Host, LogAttempt(h) PROVE TypeOK'
  <2>1. [run[h] EXCEPT !.at = "sending"] \in Run
    BY <1>r DEF Run, Place, Granting
  <2>2. run' \in [Host -> Run]
    BY <1>18, <1>r, <2>1, Becomes DEF LogAttempt
  <2> QED
    BY <1>18, <2>2 DEF LogAttempt, AttemptFlag, world, game, TypeOK, JournalTypeOK
<1>19. ASSUME NEW h \in Host, SendCall(h) PROVE TypeOK'
  <2>1. [run[h] EXCEPT !.at = "waiting"] \in Run
    BY <1>r DEF Run, Place, Granting
  <2>2. run' \in [Host -> Run]
    BY <1>19, <1>r, <2>1, Becomes DEF SendCall
  <2>3. run[h].order \in Order
    BY <1>19, <1>o DEF SendCall, Granting
  <2>4. inflight' \in [Order -> Nat]
    BY <1>19, <2>3, UnitsPositive DEF SendCall, TypeOK
  <2>5. answer' \in [Order -> {"none", "ok", "failed"}]
    BY <1>19 DEF SendCall, TypeOK
  <2>6. UNCHANGED <<files, world, applied, lease, stops>>
    BY <1>19 DEF SendCall
  <2> QED
    BY <2>2, <2>4, <2>5, <2>6 DEF files, world, TypeOK, JournalTypeOK
<1>20. ASSUME NEW h \in Host, RefuseCall(h) PROVE TypeOK'
  <2>1. run' \in [Host -> Run]
    BY <1>20, <1>r, GivesUpRun, Becomes DEF RefuseCall
  <2> QED
    BY <1>20, <2>1 DEF RefuseCall, files, world, game, TypeOK, JournalTypeOK
<1>21. ASSUME NEW h \in Host, CallOk(h) PROVE TypeOK'
  <2>r. run[h] \in Run
    BY <1>r
  <2> DEFINE next == IF LastCall(h) THEN "acked" ELSE "sending"
             sum == run[h].called + Units(h, run[h].order)
  <2>a. next \in Place
    BY DEF Place, Granting
  <2>o. run[h].order \in Order
    BY <1>21, <1>o DEF CallOk, Granting
  <2>b. sum \in Nat
    BY <1>r, <2>o, UnitsPositive DEF Run
  <2>c. Become(h, [run[h] EXCEPT !.called = sum, !.tried = 0, !.at = next])
    BY <1>21, <1>r DEF CallOk, Run
  <2>1. [run[h] EXCEPT !.called = sum, !.tried = 0, !.at = next] \in Run
    <3> HIDE DEF next, sum
    <3> QED
      BY <2>r, <2>a, <2>b DEF Run
  <2>2. run' \in [Host -> Run]
    BY <1>r, <2>c, <2>1, Becomes
  <2> QED
    BY <1>21, <2>2 DEF CallOk, files, world, TypeOK, JournalTypeOK
<1>22. ASSUME NEW h \in Host, CallFailed(h) PROVE TypeOK'
  <2>1. run' \in [Host -> Run]
    BY <1>22, <1>r, GivesUpRun, Becomes DEF CallFailed
  <2> QED
    BY <1>22, <2>1 DEF CallFailed, files, world, game, TypeOK, JournalTypeOK
<1>v. ASSUME NEW h \in Host, CallUnverified(h) PROVE TypeOK'
  <2>r. run[h] \in Run
    BY <1>r
  <2>1. [run[h] EXCEPT !.at = "nacked"] \in Run
    BY <2>r DEF Run, Place, Granting
  <2>2. run' \in [Host -> Run]
    BY <1>v, <1>r, <2>1, Becomes DEF CallUnverified
  <2> QED
    BY <1>v, <2>2 DEF CallUnverified, files, world, game, TypeOK, JournalTypeOK
<1>23. ASSUME NEW h \in Host, CallTimeout(h) PROVE TypeOK'
  <2>1. run' \in [Host -> Run]
    BY <1>23, <1>r, GivesUpRun, Becomes DEF CallTimeout
  <2>2. inflight' \in [Order -> Nat]
    BY <1>23 DEF CallTimeout, Withdrawn, TypeOK
  <2> QED
    BY <1>23, <2>1, <2>2 DEF CallTimeout, files, world, TypeOK, JournalTypeOK
<1>24. ASSUME NEW h \in Host, WriteDelivered(h) PROVE TypeOK'
  <2>r. run[h] \in Run
    BY <1>r
  <2>o. run[h].order \in Order
    BY <1>24, <1>o DEF WriteDelivered, Granting
  <2>b. run[h].issued + 1 \in Nat
    BY <1>r DEF Run
  <2>a. "logging" \in Place
    BY DEF Place, Granting
  <2>1. Issued(h) \in Run
    BY <2>r, <2>a, <2>o, <2>b DEF Issued, Run
  <2>2. run' \in [Host -> Run]
    BY <1>24, <1>r, <1>o, <2>1, Keeps, Becomes DEF WriteDelivered, Granting
  <2>3. JournalTypeOK'
    BY <1>24, <1>o, Writes DEF WriteDelivered, MarkerState, TypeOK, Granting
  <2> QED
    BY <1>24, <2>2, <2>3 DEF WriteDelivered, world, game, TypeOK
<1>25. ASSUME NEW h \in Host, LogDelivered(h) PROVE TypeOK'
  <2>r. run[h] \in Run
    BY <1>r
  <2>1. [run[h] EXCEPT !.at = "rows", !.order = NoOrder, !.called = 0,
                         !.tried = 0] \in Run
    BY <2>r DEF Run, Place, Granting
  <2>2. run' \in [Host -> Run]
    BY <1>25, <1>r, <2>1, Becomes DEF LogDelivered
  <2>3. deliveredLog' \subseteq Order
    BY <1>25, <1>o DEF LogDelivered, TypeOK, Granting
  <2> QED
    BY <1>25, <2>2, <2>3 DEF LogDelivered, world, game, TypeOK, JournalTypeOK
<1>26. ASSUME NEW h \in Host, WriteUncertain(h) PROVE TypeOK'
  <2>1. run' \in [Host -> Run] /\ lease' \in {lease, NoHost}
    BY <1>26, <1>r, <1>o, Keeps, IdleRun, Becomes DEF WriteUncertain, Release, Granting
  <2>2. JournalTypeOK'
    BY <1>26, <1>o, Writes DEF WriteUncertain, MarkerState, TypeOK, Granting
  <2> QED
    BY <1>26, <2>1, <2>2 DEF WriteUncertain, world, game, TypeOK
<1>27. ASSUME NEW h \in Host, DeliverEnd(h) PROVE TypeOK'
  <2>1. run[h].stages \ {"deliver"} \subseteq Stage /\ run[h].kept \subseteq Order
    BY <1>r DEF Run
  <2>2. run' \in [Host -> Run] /\ lease' \in {lease, NoHost}
    BY <1>27, <2>1, Advances DEF DeliverEnd
  <2> QED
    BY <1>27, <2>1, <2>2 DEF DeliverEnd, SavePending, world, game, TypeOK, JournalTypeOK
<1>28. ASSUME NEW h \in Host, NEW seen \in DeliveredEntries, ConfirmBegin(h, seen)
       PROVE  TypeOK'
  <2>r. run[h] \in Run
    BY <1>r
  <2>1. Reconciled(seen) \subseteq Order
    BY Reads
  <2>2. [run[h] EXCEPT !.at = "confirm", !.rows = ToConfirm(seen)] \in Run
    BY <2>r, <2>1 DEF ToConfirm, Run, Place, Granting
  <2>3. run' \in [Host -> Run]
    BY <1>28, <1>r, <2>2, Becomes DEF ConfirmBegin
  <2> QED
    BY <1>28, <2>1, <2>3 DEF ConfirmBegin, world, game, TypeOK, JournalTypeOK
<1>29. ASSUME NEW h \in Host, NEW o \in Order, NEW accepted \in BOOLEAN,
              NEW received \in BOOLEAN, Confirm(h, o, accepted, received)
       PROVE  TypeOK'
  <2>r. run[h] \in Run
    BY <1>r
  <2>1. /\ [run[h] EXCEPT !.at = "confirmed", !.order = o] \in Run
        /\ [run[h] EXCEPT !.rows = @ \ {o}] \in Run
    BY <2>r DEF Run, Place, Granting
  <2>2. run' \in [Host -> Run]
    BY <1>29, <1>r, <2>1, Becomes DEF Confirm
  <2> QED
    BY <1>29, <2>2 DEF Confirm, files, game, TypeOK, JournalTypeOK
<1>30. ASSUME NEW h \in Host, LogConfirmed(h) PROVE TypeOK'
  <2>r. run[h] \in Run
    BY <1>r
  <2>a. "confirm" \in Place
    BY DEF Place
  <2>1. [run[h] EXCEPT !.at = "confirm", !.rows = @ \ {run[h].order}, !.order = NoOrder]
          \in Run
    BY <2>r, <2>a DEF Run
  <2>2. run' \in [Host -> Run]
    BY <1>30, <1>r, <2>1, Becomes DEF LogConfirmed
  <2>3. confirmedLog' \subseteq Order
    BY <1>30, <1>o DEF LogConfirmed, TypeOK
  <2> QED
    BY <1>30, <2>2, <2>3 DEF LogConfirmed, world, game, TypeOK, JournalTypeOK
<1>31. ASSUME NEW h \in Host, ConfirmEnd(h) PROVE TypeOK'
  <2>1. run' \in [Host -> Run]
    BY <1>31, <1>r, IdleRun, Becomes DEF ConfirmEnd, Release
  <2> QED
    BY <1>31, <2>1 DEF ConfirmEnd, Release, files, world, game, TypeOK, JournalTypeOK
<1>32. CASE UNCHANGED vars
  BY <1>32 DEF vars, files, world, game, TypeOK, JournalTypeOK
<1> QED
  BY <1>1, <1>2, <1>3, <1>4, <1>5, <1>6, <1>7, <1>8, <1>9, <1>10, <1>11, <1>12, <1>13, <1>14,
     <1>15, <1>16, <1>17, <1>18, <1>19, <1>20, <1>21, <1>22, <1>23, <1>24, <1>25, <1>26,
     <1>27, <1>28, <1>29, <1>30, <1>31, <1>32, <1>q, <1>v
     DEF Next, Environment, Step, Row, Grant

---------------------------------------------------------------------------
(* What an action makes of the record of the runtime that takes it.         *)

\* The record of h after the step, in the fields the invariants speak of.
Stands(h, at, rows, kept, settled, order, called, attempts) ==
  /\ run'[h].at = at /\ run'[h].rows = rows /\ run'[h].kept = kept
  /\ run'[h].settled = settled /\ run'[h].order = order
  /\ run'[h].called = called /\ run'[h].attempts = attempts

\* Only h takes a step.
Alone(h) == \A g \in Host \ {h} : run'[g] = run[g]

\* The operation goes on to another place.
LEMMA AtChanges ==
  ASSUME TypeOK, NEW h \in Host, NEW at \in Place, Become(h, [run[h] EXCEPT !.at = at])
  PROVE  /\ Alone(h)
         /\ Stands(h, at, run[h].rows, run[h].kept, run[h].settled, run[h].order,
                   run[h].called, run[h].attempts)
  BY DEF TypeOK, Become, Run, Alone, Stands

\* The row of o goes to "remaining".
LEMMA RowIsKept ==
  ASSUME TypeOK, NEW h \in Host, NEW o \in Order, Become(h, Keep(h, o))
  PROVE  /\ Alone(h)
         /\ Stands(h, "rows", run[h].rows \ {o}, run[h].kept \cup {o}, run[h].settled,
                   NoOrder, 0, run[h].attempts)
<1>1. run \in [Host -> Run] /\ run[h] \in Run
  BY DEF TypeOK
<1>2. Alone(h) /\ run'[h] = Keep(h, o)
  BY <1>1 DEF Become, Alone
<1> QED
  BY <1>1, <1>2 DEF Keep, Stands, Run

\* The operation is over.
LEMMA Idles ==
  ASSUME TypeOK, NEW h \in Host, Become(h, Idle)
  PROVE  /\ Alone(h)
         /\ Stands(h, "idle", {}, {}, {}, NoOrder, 0, [o \in Order |-> {}])
  BY DEF TypeOK, Become, Idle, Alone, Stands

\* The operation is over, or its next stage is due.
LEMMA StageEnds ==
  ASSUME TypeOK, NEW h \in Host, NEW left, Advance(h, left)
  PROVE  /\ Alone(h)
         /\ \E at \in {"idle", "stage"} :
              /\ Stands(h, at, {}, {}, {}, NoOrder, 0, [o \in Order |-> {}])
              /\ at = "stage" => UNCHANGED lease
<1>1. CASE left = {}
  BY <1>1, Idles DEF Advance, Release
<1>2. CASE left # {}
  <2> DEFINE r == [Idle EXCEPT !.at = "stage", !.stages = left, !.claim = run[h].claim]
  <2>1. Become(h, r) /\ UNCHANGED lease
    BY <1>2 DEF Advance
  <2>2. Alone(h) /\ run'[h] = r
    BY <2>1 DEF Become, TypeOK, Alone
  <2>3. Stands(h, "stage", {}, {}, {}, NoOrder, 0, [o \in Order |-> {}])
    BY <2>2 DEF Idle, Stands
  <2> QED
    BY <2>1, <2>2, <2>3
<1> QED
  BY <1>1, <1>2

\* An operation begins.
LEMMA StartFields ==
  ASSUME TypeOK, NEW h \in Host, NEW ops, NEW p, Start(h, ops, p)
  PROVE  /\ Alone(h)
         /\ Stands(h, "stage", run[h].rows, run[h].kept, run[h].settled, run[h].order,
                   run[h].called, run[h].attempts)
  BY DEF Start, TypeOK, Become, Run, Alone, Stands

\* A sync reads the journal, the logs and the pending rows.
LEMMA SyncFields ==
  ASSUME TypeOK, NEW h \in Host, NEW listed, SyncBegin(h, listed)
  PROVE  /\ Alone(h)
         /\ \E seen \in DeliveredEntries :
              /\ deliveredLog' = Reconciled(seen)
              /\ Stands(h, "fetch", pending \ Settled(seen), run[h].kept, Settled(seen),
                        run[h].order, run[h].called, run[h].attempts)
  BY DEF SyncBegin, TypeOK, Become, Run, Alone, Stands

\* A sync adds the unknown orders of a player.
LEMMA FetchFields ==
  ASSUME TypeOK, NEW h \in Host, NEW p, NEW ok, Fetch(h, p, ok)
  PROVE  /\ Alone(h)
         /\ Stands(h, "fetch", run[h].rows \cup Fetched(h, p, ok), run[h].kept,
                   run[h].settled, run[h].order, run[h].called, run[h].attempts)
  BY DEF Fetch, TypeOK, Become, Run, Alone, Stands

\* A pass reads the journal, the logs and the pending rows.
LEMMA DeliverFields ==
  ASSUME TypeOK, NEW h \in Host, NEW listed, DeliverBegin(h, listed)
  PROVE  /\ Alone(h)
         /\ \E seen \in DeliveredEntries :
              /\ deliveredLog' = Reconciled(seen)
              /\ Stands(h, "rows", pending, run[h].kept, Settled(seen), run[h].order,
                        run[h].called, attemptLog)
  BY DEF DeliverBegin, TypeOK, Become, Run, Alone, Stands

\* A pass drops the row of a settled order.
LEMMA DropFields ==
  ASSUME TypeOK, NEW h \in Host, NEW o, DropRow(h, o)
  PROVE  /\ Alone(h)
         /\ Stands(h, "rows", run[h].rows \ {o}, run[h].kept, run[h].settled,
                   run[h].order, run[h].called, run[h].attempts)
  BY DEF DropRow, Visits, TypeOK, Become, Run, Alone, Stands

\* A pass turns to the order it reserved.
LEMMA ReserveFields ==
  ASSUME TypeOK, NEW h \in Host, NEW o, Reserve(h, o, TRUE)
  PROVE  /\ Alone(h)
         /\ Stands(h, "reserved", run[h].rows, run[h].kept, run[h].settled, o,
                   run[h].called, run[h].attempts)
  BY DEF Reserve, TypeOK, Become, Run, Alone, Stands

\* A call of the delivery did not succeed: another transport is tried, or none.
LEMMA GiveUpFields ==
  ASSUME TypeOK, NEW h \in Host, Become(h, GiveUp(h))
  PROVE  /\ Alone(h)
         /\ \E at \in {"sending", "nacked"} :
              /\ Stands(h, at, run[h].rows, run[h].kept, run[h].settled, run[h].order,
                        run[h].called, run[h].attempts)
              /\ at = "sending" => run[h].tried + 1 < Routes[run[h].order]
<1>1. run \in [Host -> Run] /\ run[h] \in Run
  BY DEF TypeOK
<1>2. Alone(h) /\ run'[h] = GiveUp(h)
  BY <1>1 DEF Become, Alone
<1>3. CASE h \in Native /\ run[h].tried + 1 < Routes[run[h].order]
  BY <1>1, <1>2, <1>3 DEF GiveUp, Run, Stands
<1>4. CASE ~(h \in Native /\ run[h].tried + 1 < Routes[run[h].order])
  BY <1>1, <1>2, <1>4 DEF GiveUp, Run, Stands
<1> QED
  BY <1>2, <1>3, <1>4

\* A call of the delivery is answered ok.
LEMMA CallOkFields ==
  ASSUME TypeOK, NEW h \in Host, CallOk(h)
  PROVE  /\ Alone(h)
         /\ Stands(h, IF LastCall(h) THEN "acked" ELSE "sending", run[h].rows, run[h].kept,
                   run[h].settled, run[h].order, run[h].called + Units(h, run[h].order),
                   run[h].attempts)
<1>1. run \in [Host -> Run] /\ run[h] \in Run
  BY DEF TypeOK
<1> DEFINE next == IF LastCall(h) THEN "acked" ELSE "sending"
       sum == run[h].called + Units(h, run[h].order)
<1>2. Become(h, [run[h] EXCEPT !.called = sum, !.tried = 0, !.at = next])
  BY <1>1 DEF CallOk, Run
<1> HIDE DEF next, sum
<1>3. Alone(h) /\ Stands(h, next, run[h].rows, run[h].kept, run[h].settled, run[h].order,
                         sum, run[h].attempts)
  BY <1>1, <1>2 DEF Become, Run, Alone, Stands
<1> QED
  BY <1>3 DEF next, sum

\* The order is settled for the rest of the pass.
LEMMA IssuedFields ==
  ASSUME TypeOK, NEW h \in Host, Become(h, Issued(h))
  PROVE  /\ Alone(h)
         /\ Stands(h, "logging", run[h].rows \ {run[h].order}, run[h].kept,
                   run[h].settled \cup {run[h].order}, run[h].order, run[h].called,
                   run[h].attempts)
  BY DEF Issued, TypeOK, Become, Run, Alone, Stands

\* The pass goes back to its rows.
LEMMA LogDeliveredFields ==
  ASSUME TypeOK, NEW h \in Host, LogDelivered(h)
  PROVE  /\ Alone(h)
         /\ Stands(h, "rows", run[h].rows, run[h].kept, run[h].settled, NoOrder, 0,
                   run[h].attempts)
  BY DEF LogDelivered, TypeOK, Become, Run, Alone, Stands

\* Confirming begins with the delivered orders that are not confirmed.
LEMMA ConfirmBeginFields ==
  ASSUME TypeOK, NEW h \in Host, NEW seen, ConfirmBegin(h, seen)
  PROVE  /\ Alone(h)
         /\ Stands(h, "confirm", ToConfirm(seen), run[h].kept, run[h].settled,
                   run[h].order, run[h].called, run[h].attempts)
  BY DEF ConfirmBegin, TypeOK, Become, Run, Alone, Stands

\* An order was confirmed, or it is left for a later run.
LEMMA ConfirmFields ==
  ASSUME TypeOK, NEW h \in Host, NEW o, NEW accepted, NEW received \in BOOLEAN,
         Confirm(h, o, accepted, received)
  PROVE  /\ Alone(h)
         /\ IF received
            THEN Stands(h, "confirmed", run[h].rows, run[h].kept, run[h].settled, o,
                        run[h].called, run[h].attempts)
            ELSE Stands(h, "confirm", run[h].rows \ {o}, run[h].kept, run[h].settled,
                        run[h].order, run[h].called, run[h].attempts)
  BY DEF Confirm, TypeOK, Become, Run, Alone, Stands

\* Confirming goes on with the other orders.
LEMMA LogConfirmedFields ==
  ASSUME TypeOK, NEW h \in Host, LogConfirmed(h)
  PROVE  /\ Alone(h)
         /\ Stands(h, "confirm", run[h].rows \ {run[h].order}, run[h].kept,
                   run[h].settled, NoOrder, run[h].called, run[h].attempts)
  BY DEF LogConfirmed, TypeOK, Become, Run, Alone, Stands

---------------------------------------------------------------------------
(* FilesInv is inductive.                                                   *)

\* A marker once written stays; a write adds at most its own.
LEMMA JournalGrows ==
  ASSUME JournalTypeOK, NEW o \in Order, NEW s, NEW ok, TryWrite(o, s, ok)
  PROVE  /\ \A q \in Order : markers[q] \subseteq markers'[q]
         /\ \A q \in Order : q # o => markers'[q] = markers[q]
         /\ markers'[o] \subseteq markers[o] \cup {s}
         /\ ok => s \in markers'[o]
         /\ ~ok => markers' = markers
  BY DEF TryWrite, JournalTypeOK

\* What counts as delivered stays delivered when the files only grow.
LEMMA DeliveredGrows ==
  ASSUME deliveredLog \subseteq deliveredLog', confirmedLog \subseteq confirmedLog',
         \A o \in Order : markers[o] \subseteq markers'[o]
  PROVE  Delivered \subseteq Delivered'
  BY DEF Delivered, DeliveredOrders

\* The entries that the journal returned are delivered, before and after the step.
LEMMA ReadIsDelivered ==
  ASSUME NEW seen \in DeliveredEntries, UNCHANGED <<markers, confirmedLog>>,
         deliveredLog' = Reconciled(seen)
  PROVE  /\ Delivered' = Delivered
         /\ Settled(seen) \subseteq Delivered
         /\ Reconciled(seen) \subseteq Delivered
  BY DEF DeliveredEntries, DeliveredOrders, Delivered, Settled, Reconciled

\* Only an order with a delivered marker is reported as delivered.
LEMMA InspectDelivered ==
  ASSUME NEW o \in Order, "delivered" \in Inspect(o)
  PROVE  o \in Delivered
  BY DEF Inspect, Snapshot, Furthest, Delivered, DeliveredOrders

\* A step that touches no file, no record and not the lease.
LEMMA Quiet ==
  ASSUME FilesInv, TypeOK', UNCHANGED <<files, run, lease>>
  PROVE  FilesInv'
<1>1. UNCHANGED <<markers, pending, deliveredLog, confirmedLog, run, lease>>
  BY DEF files
<1>2. Delivered' = Delivered
  BY <1>1 DEF Delivered, DeliveredOrders
<1>3. ASSUME NEW h \in Host PROVE OrderHeld(h)' /\ RowsAccounted(h)'
  BY <1>1, <1>2 DEF FilesInv, OrderHeld, RowsAccounted
<1> QED
  BY <1>1, <1>2, <1>3 DEF FilesInv, LeaseHeld, UnresolvedStaysPending

\* What a step of h has to show: the other runtimes are idle and stay so.
LEMMA Moves ==
  ASSUME FilesInv, TypeOK', NEW h \in Host, Alone(h),
         run[h].at # "idle" \/ lease = NoHost,
         run'[h].at # "idle" => lease' = h,
         Delivered \subseteq Delivered',
         UnresolvedStaysPending', OrderHeld(h)', RowsAccounted(h)'
  PROVE  FilesInv'
<1>1. ASSUME NEW g \in Host \ {h} PROVE run[g].at = "idle" /\ run'[g] = run[g]
  BY <1>1, ConstantsOK DEF FilesInv, LeaseHeld, Alone
<1>2. ASSUME NEW g \in Host \ {h} PROVE OrderHeld(g)' /\ RowsAccounted(g)'
  BY <1>1, <1>2 DEF FilesInv, OrderHeld, RowsAccounted, Granting, Delivering
<1> QED
  BY <1>1, <1>2 DEF FilesInv, LeaseHeld

\* The same, when no file changes.
LEMMA Thinks ==
  ASSUME FilesInv, TypeOK', NEW h \in Host, Alone(h),
         run[h].at # "idle" \/ lease = NoHost,
         run'[h].at # "idle" => lease' = h,
         UNCHANGED files,
         OrderHeld(h)', RowsAccounted(h)'
  PROVE  FilesInv'
<1>1. UNCHANGED <<markers, pending, deliveredLog, confirmedLog>>
  BY DEF files
<1>2. Delivered' = Delivered
  BY <1>1 DEF Delivered, DeliveredOrders
<1>3. UnresolvedStaysPending'
  BY <1>1, <1>2 DEF FilesInv, UnresolvedStaysPending
<1> QED
  BY <1>2, <1>3, Moves

\* Every step keeps FilesInv.
LEMMA FilesStep == FilesInv /\ [Next]_vars => FilesInv'
<1> SUFFICES ASSUME FilesInv, [Next]_vars PROVE FilesInv'
  OBVIOUS
<1>t. TypeOK /\ TypeOK' /\ JournalTypeOK
  BY TypeStep DEF FilesInv, TypeOK
<1>r. /\ run \in [Host -> Run]
      /\ \A h \in Host : run[h] \in Run
  BY <1>t DEF TypeOK
<1>h. ASSUME NEW h \in Host PROVE OrderHeld(h) /\ RowsAccounted(h)
  BY DEF FilesInv
<1>l. ASSUME NEW h \in Host, run[h].at # "idle" PROVE lease = h
  BY <1>l DEF FilesInv, LeaseHeld
<1>u. UnresolvedStaysPending
  BY DEF FilesInv
<1>o. ASSUME NEW h \in Host, run[h].at \in Granting \cup {"confirmed"}
      PROVE  run[h].order \in Order
  BY <1>o, <1>h, <1>t DEF OrderHeld, TypeOK, JournalTypeOK, Delivered, DeliveredOrders
<1>1. ASSUME Environment PROVE FilesInv'
  <2>1. UNCHANGED <<files, run, lease>>
    BY <1>1 DEF Environment, GameQueues, GameRuns, GameRejects, Buy, TimerEnds, ComeOrGo
  <2> QED
    BY <2>1, <1>t, Quiet
<1>2. ASSUME NEW h \in Host, Stop(h) PROVE FilesInv'
  <2>1. /\ Alone(h)
        /\ Stands(h, "idle", {}, {}, {}, NoOrder, 0, [o \in Order |-> {}])
    BY <1>2, <1>t, Idles DEF Stop, Release
  <2>2. OrderHeld(h)' /\ RowsAccounted(h)'
    BY <2>1 DEF Stands, OrderHeld, RowsAccounted, Granting, Delivering
  <2> QED
    BY <1>2, <1>t, <2>1, <2>2, Thinks DEF Stop, Stands
<1>3. ASSUME NEW h \in Host, NEW ops, NEW p, Start(h, ops, p) PROVE FilesInv'
  <2>1. /\ Alone(h)
        /\ Stands(h, "stage", run[h].rows, run[h].kept, run[h].settled, run[h].order,
                  run[h].called, run[h].attempts)
    BY <1>3, <1>t, StartFields
  <2>2. run[h].at = "idle" /\ lease = NoHost /\ lease' = h /\ UNCHANGED files
    BY <1>3 DEF Start, LeaseFree
  <2>3. Delivered' = Delivered
    BY <2>2 DEF files, Delivered, DeliveredOrders
  <2>4. OrderHeld(h)' /\ RowsAccounted(h)'
    BY <1>h, <2>1, <2>2, <2>3 DEF Stands, OrderHeld, RowsAccounted, Granting, Delivering
  <2> QED
    BY <1>t, <2>1, <2>2, <2>4, Thinks
<1>4. ASSUME NEW h \in Host, NEW listed, SyncBegin(h, listed) PROVE FilesInv'
  <2>1. PICK seen \in DeliveredEntries :
          /\ deliveredLog' = Reconciled(seen)
          /\ Stands(h, "fetch", pending \ Settled(seen), run[h].kept, Settled(seen),
                    run[h].order, run[h].called, run[h].attempts)
    BY <1>4, <1>t, SyncFields
  <2>2. Alone(h)
    BY <1>4, <1>t, SyncFields
  <2>3. run[h].at = "stage" /\ UNCHANGED <<markers, pending, confirmedLog, lease>>
    BY <1>4 DEF SyncBegin, Due
  <2>4. Delivered' = Delivered /\ Settled(seen) \subseteq Delivered
    BY <2>1, <2>3, ReadIsDelivered
  <2>5. UnresolvedStaysPending'
    BY <1>u, <2>3, <2>4 DEF UnresolvedStaysPending
  <2>6. OrderHeld(h)' /\ RowsAccounted(h)'
    BY <1>h, <2>1, <2>3, <2>4
       DEF Stands, OrderHeld, RowsAccounted, Granting, Delivering
  <2>7. run[h].at # "idle" /\ lease' = h /\ Delivered \subseteq Delivered'
    BY <1>l, <2>3, <2>4
  <2> QED
    BY <1>t, <2>2, <2>5, <2>6, <2>7, Moves
<1>5. ASSUME NEW h \in Host, NEW p, NEW ok, Fetch(h, p, ok) PROVE FilesInv'
  <2>1. /\ Alone(h)
        /\ Stands(h, "fetch", run[h].rows \cup Fetched(h, p, ok), run[h].kept,
                  run[h].settled, run[h].order, run[h].called, run[h].attempts)
    BY <1>5, <1>t, FetchFields
  <2>2. run[h].at = "fetch" /\ UNCHANGED <<files, lease>>
    BY <1>5 DEF Fetch
  <2>3. Delivered' = Delivered /\ UNCHANGED pending
    BY <2>2 DEF files, Delivered, DeliveredOrders
  <2>4. OrderHeld(h)' /\ RowsAccounted(h)'
    BY <1>h, <2>1, <2>2, <2>3 DEF Stands, OrderHeld, RowsAccounted, Granting, Delivering
  <2>5. run[h].at # "idle" /\ lease' = h
    BY <1>l, <2>2
  <2> QED
    BY <1>t, <2>1, <2>2, <2>4, <2>5, Thinks
<1>e. ASSUME NEW h \in Host, NEW left, Advance(h, left), run[h].at # "idle",
             UNCHANGED <<markers, deliveredLog, confirmedLog>>, UnresolvedStaysPending'
      PROVE  FilesInv'
  <2>1. Alone(h)
    BY <1>e, <1>t, StageEnds
  <2>2. PICK at \in {"idle", "stage"} :
          /\ Stands(h, at, {}, {}, {}, NoOrder, 0, [o \in Order |-> {}])
          /\ at = "stage" => UNCHANGED lease
    BY <1>e, <1>t, StageEnds
  <2>3. Delivered' = Delivered
    BY <1>e DEF Delivered, DeliveredOrders
  <2>4. OrderHeld(h)' /\ RowsAccounted(h)'
    BY <2>2 DEF Stands, OrderHeld, RowsAccounted, Granting, Delivering
  <2>5. run'[h].at # "idle" => lease' = h
    BY <1>e, <1>l, <2>2 DEF Stands
  <2> QED
    BY <1>e, <1>t, <2>1, <2>3, <2>4, <2>5, Moves
<1>6. ASSUME NEW h \in Host, SyncEnd(h) PROVE FilesInv'
  <2>1. /\ run[h].at = "fetch" /\ SavePending(h, run[h].rows)
        /\ UNCHANGED <<markers, deliveredLog, confirmedLog>>
    BY <1>6 DEF SyncEnd
  <2>2. Delivered' = Delivered
    BY <2>1 DEF Delivered, DeliveredOrders
  <2>3. UnresolvedStaysPending'
    BY <1>h, <1>u, <2>1, <2>2 DEF UnresolvedStaysPending, SavePending, RowsAccounted
  <2> QED
    BY <1>6, <1>e, <2>1, <2>3 DEF SyncEnd
<1>7. ASSUME NEW h \in Host, SkipDeliver(h) PROVE FilesInv'
  <2>1. run[h].at = "stage" /\ UNCHANGED files
    BY <1>7 DEF SkipDeliver, Due
  <2>2. UnresolvedStaysPending'
    BY <1>u, <2>1 DEF files, UnresolvedStaysPending, Delivered, DeliveredOrders
  <2> QED
    BY <1>7, <1>e, <2>1, <2>2 DEF SkipDeliver, files
<1>8. ASSUME NEW h \in Host, NEW listed, DeliverBegin(h, listed) PROVE FilesInv'
  <2>1. PICK seen \in DeliveredEntries :
          /\ deliveredLog' = Reconciled(seen)
          /\ Stands(h, "rows", pending, run[h].kept, Settled(seen), run[h].order,
                    run[h].called, attemptLog)
    BY <1>8, <1>t, DeliverFields
  <2>2. Alone(h)
    BY <1>8, <1>t, DeliverFields
  <2>3. run[h].at = "stage" /\ UNCHANGED <<markers, pending, confirmedLog, lease>>
    BY <1>8 DEF DeliverBegin, Due
  <2>4. Delivered' = Delivered /\ Settled(seen) \subseteq Delivered
    BY <2>1, <2>3, ReadIsDelivered
  <2>5. UnresolvedStaysPending'
    BY <1>u, <2>3, <2>4 DEF UnresolvedStaysPending
  <2>6. OrderHeld(h)' /\ RowsAccounted(h)'
    BY <1>h, <2>1, <2>3, <2>4
       DEF Stands, OrderHeld, RowsAccounted, Granting, Delivering
  <2>7. run[h].at # "idle" /\ lease' = h /\ Delivered \subseteq Delivered'
    BY <1>l, <2>3, <2>4
  <2> QED
    BY <1>t, <2>2, <2>5, <2>6, <2>7, Moves
<1>9. ASSUME NEW h \in Host, NEW o \in Order, DropRow(h, o) PROVE FilesInv'
  <2>1. /\ Alone(h)
        /\ Stands(h, "rows", run[h].rows \ {o}, run[h].kept, run[h].settled,
                  run[h].order, run[h].called, run[h].attempts)
    BY <1>9, <1>t, DropFields
  <2>2. run[h].at = "rows" /\ UNCHANGED <<markers, pending, confirmedLog, lease>>
    BY <1>9 DEF DropRow, Visits
  <2>3. o \in Delivered /\ deliveredLog' \in {deliveredLog, deliveredLog \cup {o}}
    BY <1>9, <1>h, InspectDelivered DEF DropRow, Reconciled, RowsAccounted
  <2>4. Delivered' = Delivered
    BY <2>2, <2>3 DEF Delivered, DeliveredOrders
  <2>5. UnresolvedStaysPending'
    BY <1>u, <2>2, <2>4 DEF UnresolvedStaysPending
  <2>6. OrderHeld(h)' /\ RowsAccounted(h)'
    BY <1>h, <2>1, <2>2, <2>3, <2>4
       DEF Stands, OrderHeld, RowsAccounted, Granting, Delivering
  <2>7. run[h].at # "idle" /\ lease' = h /\ Delivered \subseteq Delivered'
    BY <1>l, <2>2, <2>4
  <2> QED
    BY <1>t, <2>1, <2>5, <2>6, <2>7, Moves
\* The row of o stays: o was one of the rows, or it is accounted for already.
<1>k. ASSUME NEW h \in Host, NEW o \in pending, Become(h, Keep(h, o)),
             run[h].at \in Delivering, UNCHANGED <<pending, lease>>,
             Delivered \subseteq Delivered', UnresolvedStaysPending'
      PROVE  FilesInv'
  <2>1. /\ Alone(h)
        /\ Stands(h, "rows", run[h].rows \ {o}, run[h].kept \cup {o}, run[h].settled,
                  NoOrder, 0, run[h].attempts)
    BY <1>k, <1>t, RowIsKept DEF TypeOK
  <2>2. OrderHeld(h)' /\ RowsAccounted(h)'
    BY <1>k, <1>h, <2>1 DEF Stands, OrderHeld, RowsAccounted, Granting, Delivering
  <2>3. run[h].at # "idle" /\ lease' = h
    BY <1>k, <1>l DEF Delivering, Granting
  <2> QED
    BY <1>k, <1>t, <2>1, <2>2, <2>3, Moves
\* A marker other than dispatching is written, or none.
<1>w. ASSUME NEW o \in Order, NEW s \in MarkerState, s # "dispatching", NEW ok,
             TryWrite(o, s, ok), UNCHANGED <<pending, deliveredLog, confirmedLog>>
      PROVE  Delivered \subseteq Delivered' /\ UnresolvedStaysPending'
  <2>1. Delivered \subseteq Delivered'
    BY <1>w, <1>t, JournalGrows, DeliveredGrows
  <2>2. \A q \in Order : "dispatching" \in markers'[q] => "dispatching" \in markers[q]
    BY <1>w, <1>t, JournalGrows
  <2> QED
    BY <1>u, <1>w, <2>1, <2>2 DEF UnresolvedStaysPending
\* The order of a grant has its row.
<1>p. ASSUME NEW h \in Host, run[h].at \in Granting \ {"logging"}
      PROVE  run[h].order \in pending
  BY <1>p, <1>h DEF OrderHeld, RowsAccounted, Delivering
<1>10. ASSUME NEW h \in Host, NEW o \in Order, KeepRow(h, o) PROVE FilesInv'
  <2>1. /\ run[h].at = "rows" /\ o \in run[h].rows /\ Become(h, Keep(h, o))
        /\ UNCHANGED files /\ UNCHANGED lease
    BY <1>10 DEF KeepRow, Visits
  <2>2. o \in pending
    BY <1>h, <2>1 DEF RowsAccounted, Delivering
  <2>3. Delivered' = Delivered /\ UNCHANGED <<pending, markers>>
    BY <2>1 DEF files, Delivered, DeliveredOrders
  <2>4. UnresolvedStaysPending'
    BY <1>u, <2>3 DEF UnresolvedStaysPending
  <2> QED
    BY <1>k, <2>1, <2>2, <2>3, <2>4 DEF Delivering
<1>11. ASSUME NEW h \in Host, NEW o \in Order, BlockLegacy(h, o) PROVE FilesInv'
  <2>1. /\ run[h].at = "rows" /\ o \in run[h].rows /\ Become(h, Keep(h, o))
        /\ UNCHANGED <<pending, deliveredLog, confirmedLog, lease>>
        /\ \E ok \in BOOLEAN : TryWrite(o, "uncertain", ok)
    BY <1>11 DEF BlockLegacy, Visits
  <2>2. o \in pending
    BY <1>h, <2>1 DEF RowsAccounted, Delivering
  <2>3. Delivered \subseteq Delivered' /\ UnresolvedStaysPending'
    BY <1>w, <2>1 DEF MarkerState
  <2> QED
    BY <1>k, <2>1, <2>2, <2>3 DEF Delivering
<1>12. ASSUME NEW h \in Host, NEW o \in Order, NEW ok \in BOOLEAN, Reserve(h, o, ok)
       PROVE  FilesInv'
  <2>1. /\ run[h].at = "rows" /\ o \in run[h].rows /\ TryWrite(o, "reserved", ok)
        /\ UNCHANGED <<pending, deliveredLog, confirmedLog, lease>>
    BY <1>12 DEF Reserve, Visits
  <2>2. o \in pending
    BY <1>h, <2>1 DEF RowsAccounted, Delivering
  <2>3. Delivered \subseteq Delivered' /\ UnresolvedStaysPending'
    BY <1>w, <2>1 DEF MarkerState
  <2>4. CASE ~ok
    <3>1. Become(h, Keep(h, o))
      BY <1>12, <2>4 DEF Reserve
    <3> QED
      BY <1>k, <2>1, <2>2, <2>3, <3>1 DEF Delivering
  <2>5. CASE ok
    <3>1. /\ Alone(h)
          /\ Stands(h, "reserved", run[h].rows, run[h].kept, run[h].settled, o,
                    run[h].called, run[h].attempts)
      BY <1>12, <1>t, <2>5, ReserveFields
    <3>2. "reserved" \in markers'[o]
      BY <1>t, <2>1, <2>5, JournalGrows
    <3>3. OrderHeld(h)' /\ RowsAccounted(h)'
      BY <1>h, <2>1, <2>3, <3>1, <3>2
         DEF Stands, OrderHeld, RowsAccounted, Granting, Delivering
    <3>4. run[h].at # "idle" /\ lease' = h
      BY <1>l, <2>1
    <3> QED
      BY <1>t, <2>3, <3>1, <3>3, <3>4, Moves
  <2> QED
    BY <2>4, <2>5
<1>13. ASSUME NEW h \in Host, MarkDispatching(h) PROVE FilesInv'
  <2>1. /\ run[h].at = "reserved"
        /\ UNCHANGED <<pending, deliveredLog, confirmedLog, lease>>
    BY <1>13 DEF MarkDispatching
  <2>2. PICK ok \in BOOLEAN :
          /\ TryWrite(run[h].order, "dispatching", ok)
          /\ Become(h, IF ok THEN [run[h] EXCEPT !.at = "marked"] ELSE Keep(h, run[h].order))
    BY <1>13 DEF MarkDispatching
  <2>3. run[h].order \in Order /\ run[h].order \in pending
    BY <1>o, <1>p, <2>1 DEF Granting
  <2>4. Delivered \subseteq Delivered'
    BY <1>t, <2>1, <2>2, <2>3, JournalGrows, DeliveredGrows
  <2>5. \A q \in Order : q # run[h].order => markers'[q] = markers[q]
    BY <1>t, <2>2, <2>3, JournalGrows
  <2>6. UnresolvedStaysPending'
    BY <1>u, <2>1, <2>3, <2>4, <2>5 DEF UnresolvedStaysPending
  <2>7. CASE ~ok
    BY <1>k, <2>1, <2>2, <2>3, <2>4, <2>6, <2>7 DEF Delivering, Granting
  <2>8. CASE ok
    <3>1. /\ Alone(h)
          /\ Stands(h, "marked", run[h].rows, run[h].kept, run[h].settled, run[h].order,
                    run[h].called, run[h].attempts)
      BY <1>t, <2>2, <2>8, AtChanges DEF Place, Granting
    <3>2. markers'[run[h].order] # {}
      BY <1>t, <2>2, <2>3, <2>8, JournalGrows
    <3>3. OrderHeld(h)' /\ RowsAccounted(h)'
      BY <1>h, <2>1, <2>3, <2>4, <3>1, <3>2
         DEF Stands, OrderHeld, RowsAccounted, Granting, Delivering
    <3>4. run[h].at # "idle" /\ lease' = h
      BY <1>l, <2>1
    <3> QED
      BY <1>t, <2>4, <2>6, <3>1, <3>3, <3>4, Moves
  <2> QED
    BY <2>7, <2>8
\* h goes from one place of a grant to another; no file changes that FilesInv is about.
<1>g. ASSUME NEW h \in Host, NEW at \in Granting \ {"logging"}, NEW called,
             run[h].at \in Granting \ {"logging"}, Alone(h),
             Stands(h, at, run[h].rows, run[h].kept, run[h].settled, run[h].order, called,
                    run[h].attempts),
             UNCHANGED <<markers, pending, deliveredLog, confirmedLog, lease>>
      PROVE  FilesInv'
  <2>1. Delivered' = Delivered
    BY <1>g DEF Delivered, DeliveredOrders
  <2>2. UnresolvedStaysPending'
    BY <1>g, <1>u, <2>1 DEF UnresolvedStaysPending
  <2>3. OrderHeld(h)' /\ RowsAccounted(h)'
    BY <1>g, <1>h, <2>1 DEF Stands, OrderHeld, RowsAccounted, Granting, Delivering
  <2>4. run[h].at # "idle" /\ lease' = h
    BY <1>g, <1>l DEF Granting
  <2> QED
    BY <1>g, <1>t, <2>1, <2>2, <2>3, <2>4, Moves
<1>14. ASSUME NEW h \in Host, LogAttempt(h) \/ SendCall(h) \/ CallUnverified(h)
       PROVE  FilesInv'
  <2>1. /\ run[h].at \in Granting \ {"logging"}
        /\ UNCHANGED <<markers, pending, deliveredLog, confirmedLog, lease>>
    BY <1>14 DEF LogAttempt, SendCall, CallUnverified, files, Granting
  <2>2. PICK at \in Granting \ {"logging"} : Become(h, [run[h] EXCEPT !.at = at])
    BY <1>14 DEF LogAttempt, SendCall, CallUnverified, Granting
  <2>3. /\ Alone(h)
        /\ Stands(h, at, run[h].rows, run[h].kept, run[h].settled, run[h].order,
                  run[h].called, run[h].attempts)
    BY <1>t, <2>2, AtChanges DEF Place
  <2> QED
    BY <1>g, <2>1, <2>3
<1>v. ASSUME NEW h \in Host, RefuseCall(h) \/ CallFailed(h) \/ CallTimeout(h)
      PROVE  FilesInv'
  <2>1. /\ run[h].at \in Granting \ {"logging"} /\ Become(h, GiveUp(h))
        /\ UNCHANGED <<markers, pending, deliveredLog, confirmedLog, lease>>
    BY <1>v DEF RefuseCall, CallFailed, CallTimeout, files, Granting
  <2>2. Alone(h)
    BY <1>t, <2>1, GiveUpFields
  <2>3. PICK at \in {"sending", "nacked"} :
          Stands(h, at, run[h].rows, run[h].kept, run[h].settled, run[h].order,
                 run[h].called, run[h].attempts)
    BY <1>t, <2>1, GiveUpFields
  <2>4. at \in Granting \ {"logging"}
    BY DEF Granting
  <2> QED
    BY <1>g, <2>1, <2>2, <2>3, <2>4
<1>15. ASSUME NEW h \in Host, CallOk(h) PROVE FilesInv'
  <2> DEFINE at == IF LastCall(h) THEN "acked" ELSE "sending"
  <2>1. /\ run[h].at \in Granting \ {"logging"}
        /\ UNCHANGED <<markers, pending, deliveredLog, confirmedLog, lease>>
    BY <1>15 DEF CallOk, files, Granting
  <2>2. /\ Alone(h)
        /\ Stands(h, at, run[h].rows, run[h].kept, run[h].settled, run[h].order,
                  run[h].called + Units(h, run[h].order), run[h].attempts)
    BY <1>15, <1>t, CallOkFields
  <2>3. at \in Granting \ {"logging"}
    BY DEF Granting
  <2> HIDE DEF at
  <2> QED
    BY <1>g, <2>1, <2>2, <2>3
<1>16. ASSUME NEW h \in Host, WriteDelivered(h) PROVE FilesInv'
  <2>1. /\ run[h].at = "acked"
        /\ UNCHANGED <<pending, deliveredLog, confirmedLog, lease>>
    BY <1>16 DEF WriteDelivered
  <2>2. PICK ok \in BOOLEAN :
          /\ TryWrite(run[h].order, "delivered", ok)
          /\ Become(h, IF ok THEN Issued(h) ELSE Keep(h, run[h].order))
    BY <1>16 DEF WriteDelivered
  <2>3. run[h].order \in Order /\ run[h].order \in pending
    BY <1>o, <1>p, <2>1 DEF Granting
  <2>4. Delivered \subseteq Delivered' /\ UnresolvedStaysPending'
    BY <1>w, <2>1, <2>2, <2>3 DEF MarkerState
  <2>5. CASE ~ok
    BY <1>k, <2>1, <2>2, <2>3, <2>4, <2>5 DEF Delivering, Granting
  <2>6. CASE ok
    <3>1. /\ Alone(h)
          /\ Stands(h, "logging", run[h].rows \ {run[h].order}, run[h].kept,
                    run[h].settled \cup {run[h].order}, run[h].order, run[h].called,
                    run[h].attempts)
      BY <1>t, <2>2, <2>6, IssuedFields
    <3>2. "delivered" \in markers'[run[h].order]
      BY <1>t, <2>2, <2>3, <2>6, JournalGrows
    <3>3. run[h].order \in Delivered'
      BY <2>3, <3>2 DEF Delivered, DeliveredOrders
    <3>4. OrderHeld(h)' /\ RowsAccounted(h)'
      BY <1>h, <2>1, <2>3, <2>4, <3>1, <3>2, <3>3
         DEF Stands, OrderHeld, RowsAccounted, Granting, Delivering
    <3>5. run[h].at # "idle" /\ lease' = h
      BY <1>l, <2>1
    <3> QED
      BY <1>t, <2>4, <3>1, <3>4, <3>5, Moves
  <2> QED
    BY <2>5, <2>6
<1>17. ASSUME NEW h \in Host, LogDelivered(h) PROVE FilesInv'
  <2>1. /\ run[h].at = "logging"
        /\ UNCHANGED <<markers, pending, confirmedLog, lease>>
        /\ deliveredLog' \in {deliveredLog, deliveredLog \cup {run[h].order}}
    BY <1>17 DEF LogDelivered
  <2>2. /\ Alone(h)
        /\ Stands(h, "rows", run[h].rows, run[h].kept, run[h].settled, NoOrder, 0,
                  run[h].attempts)
    BY <1>17, <1>t, LogDeliveredFields
  <2>3. run[h].order \in Delivered
    BY <1>h, <1>o, <2>1 DEF OrderHeld, Delivered, DeliveredOrders, Granting
  <2>4. Delivered' = Delivered
    BY <2>1, <2>3 DEF Delivered, DeliveredOrders
  <2>5. UnresolvedStaysPending'
    BY <1>u, <2>1, <2>4 DEF UnresolvedStaysPending
  <2>6. OrderHeld(h)' /\ RowsAccounted(h)'
    BY <1>h, <2>1, <2>2, <2>4 DEF Stands, OrderHeld, RowsAccounted, Granting, Delivering
  <2>7. run[h].at # "idle" /\ lease' = h
    BY <1>l, <2>1
  <2> QED
    BY <1>t, <2>2, <2>4, <2>5, <2>6, <2>7, Moves
<1>18. ASSUME NEW h \in Host, WriteUncertain(h) PROVE FilesInv'
  <2>1. /\ run[h].at = "nacked"
        /\ UNCHANGED <<pending, deliveredLog, confirmedLog>>
    BY <1>18 DEF WriteUncertain
  <2>2. PICK ok \in BOOLEAN : TryWrite(run[h].order, "uncertain", ok)
    BY <1>18 DEF WriteUncertain
  <2>3. run[h].order \in Order /\ run[h].order \in pending
    BY <1>o, <1>p, <2>1 DEF Granting
  <2>4. Delivered \subseteq Delivered' /\ UnresolvedStaysPending'
    BY <1>w, <2>1, <2>2, <2>3 DEF MarkerState
  <2>5. CASE Become(h, Keep(h, run[h].order)) /\ UNCHANGED lease
    BY <1>k, <2>1, <2>3, <2>4, <2>5 DEF Delivering, Granting
  <2>6. CASE Release(h)
    <3>1. /\ Alone(h)
          /\ Stands(h, "idle", {}, {}, {}, NoOrder, 0, [o \in Order |-> {}])
      BY <1>t, <2>6, Idles DEF Release
    <3>2. OrderHeld(h)' /\ RowsAccounted(h)'
      BY <3>1 DEF Stands, OrderHeld, RowsAccounted, Granting, Delivering
    <3>3. run[h].at # "idle" /\ run'[h].at = "idle"
      BY <2>1, <3>1 DEF Stands
    <3> QED
      BY <1>t, <2>4, <3>1, <3>2, <3>3, Moves
  <2> QED
    BY <1>18, <2>5, <2>6 DEF WriteUncertain
<1>19. ASSUME NEW h \in Host, DeliverEnd(h) PROVE FilesInv'
  <2>1. /\ run[h].at = "rows" /\ run[h].rows = {} /\ SavePending(h, run[h].kept)
        /\ UNCHANGED <<markers, deliveredLog, confirmedLog>>
    BY <1>19 DEF DeliverEnd
  <2>2. Delivered' = Delivered
    BY <2>1 DEF Delivered, DeliveredOrders
  <2>3. UnresolvedStaysPending'
    BY <1>h, <1>u, <2>1, <2>2
       DEF UnresolvedStaysPending, SavePending, RowsAccounted, Delivering
  <2>4. PICK left : Advance(h, left)
    BY <1>19 DEF DeliverEnd
  <2> QED
    BY <1>e, <2>1, <2>3, <2>4
<1>20. ASSUME NEW h \in Host, NEW seen \in DeliveredEntries, ConfirmBegin(h, seen)
       PROVE  FilesInv'
  <2>1. /\ run[h].at = "stage" /\ deliveredLog' = Reconciled(seen)
        /\ UNCHANGED <<markers, pending, confirmedLog, lease>>
    BY <1>20 DEF ConfirmBegin, Due
  <2>2. /\ Alone(h)
        /\ Stands(h, "confirm", ToConfirm(seen), run[h].kept, run[h].settled,
                  run[h].order, run[h].called, run[h].attempts)
    BY <1>20, <1>t, ConfirmBeginFields
  <2>3. Delivered' = Delivered /\ ToConfirm(seen) \subseteq Delivered
    BY <2>1, ReadIsDelivered DEF ToConfirm
  <2>4. UnresolvedStaysPending'
    BY <1>u, <2>1, <2>3 DEF UnresolvedStaysPending
  <2>5. OrderHeld(h)' /\ RowsAccounted(h)'
    BY <1>h, <2>1, <2>2, <2>3 DEF Stands, OrderHeld, RowsAccounted, Granting, Delivering
  <2>6. run[h].at # "idle" /\ lease' = h
    BY <1>l, <2>1
  <2> QED
    BY <1>t, <2>2, <2>3, <2>4, <2>5, <2>6, Moves
<1>21. ASSUME NEW h \in Host, NEW o \in Order, NEW accepted \in BOOLEAN,
              NEW received \in BOOLEAN, Confirm(h, o, accepted, received)
       PROVE  FilesInv'
  <2>1. /\ run[h].at = "confirm" /\ o \in run[h].rows /\ UNCHANGED files /\ UNCHANGED lease
    BY <1>21 DEF Confirm
  <2>2. /\ Alone(h)
        /\ IF received
           THEN Stands(h, "confirmed", run[h].rows, run[h].kept, run[h].settled, o,
                       run[h].called, run[h].attempts)
           ELSE Stands(h, "confirm", run[h].rows \ {o}, run[h].kept, run[h].settled,
                       run[h].order, run[h].called, run[h].attempts)
    BY <1>21, <1>t, ConfirmFields
  <2>3. Delivered' = Delivered /\ o \in Delivered
    BY <1>h, <2>1 DEF files, Delivered, DeliveredOrders, RowsAccounted
  <2>4. OrderHeld(h)' /\ RowsAccounted(h)'
    <3>1. CASE received
      BY <1>h, <2>1, <2>2, <2>3, <3>1
         DEF Stands, OrderHeld, RowsAccounted, Granting, Delivering
    <3>2. CASE ~received
      BY <1>h, <2>1, <2>2, <2>3, <3>2
         DEF Stands, OrderHeld, RowsAccounted, Granting, Delivering
    <3> QED
      BY <3>1, <3>2
  <2>5. run[h].at # "idle" /\ lease' = h
    BY <1>l, <2>1
  <2> QED
    BY <1>t, <2>1, <2>2, <2>4, <2>5, Thinks
<1>22. ASSUME NEW h \in Host, LogConfirmed(h) PROVE FilesInv'
  <2>1. /\ run[h].at = "confirmed"
        /\ UNCHANGED <<markers, pending, deliveredLog, lease>>
        /\ confirmedLog' \in {confirmedLog, confirmedLog \cup {run[h].order}}
    BY <1>22 DEF LogConfirmed
  <2>2. /\ Alone(h)
        /\ Stands(h, "confirm", run[h].rows \ {run[h].order}, run[h].kept,
                  run[h].settled, NoOrder, run[h].called, run[h].attempts)
    BY <1>22, <1>t, LogConfirmedFields
  <2>3. Delivered' = Delivered
    BY <1>h, <2>1 DEF OrderHeld, Delivered, DeliveredOrders
  <2>4. UnresolvedStaysPending'
    BY <1>u, <2>1, <2>3 DEF UnresolvedStaysPending
  <2>5. OrderHeld(h)' /\ RowsAccounted(h)'
    BY <1>h, <2>1, <2>2, <2>3 DEF Stands, OrderHeld, RowsAccounted, Granting, Delivering
  <2>6. run[h].at # "idle" /\ lease' = h
    BY <1>l, <2>1
  <2> QED
    BY <1>t, <2>2, <2>3, <2>4, <2>5, <2>6, Moves
<1>23. ASSUME NEW h \in Host, ConfirmEnd(h) PROVE FilesInv'
  <2>1. /\ Alone(h)
        /\ Stands(h, "idle", {}, {}, {}, NoOrder, 0, [o \in Order |-> {}])
    BY <1>23, <1>t, Idles DEF ConfirmEnd, Release
  <2>2. OrderHeld(h)' /\ RowsAccounted(h)'
    BY <2>1 DEF Stands, OrderHeld, RowsAccounted, Granting, Delivering
  <2> QED
    BY <1>23, <1>t, <2>1, <2>2, Thinks DEF ConfirmEnd, Stands
<1>24. CASE UNCHANGED vars
  BY <1>t, <1>24, Quiet DEF vars
<1> QED
  BY <1>1, <1>2, <1>3, <1>4, <1>5, <1>6, <1>7, <1>8, <1>9, <1>10, <1>11, <1>12, <1>13,
     <1>14, <1>15, <1>16, <1>17, <1>18, <1>19, <1>20, <1>21, <1>22, <1>23, <1>24, <1>v
     DEF Next, Step, Row, Grant

---------------------------------------------------------------------------
(* The theorems.                                                            *)

\* The states found at the start have the types.
LEMMA TypeInit == Init => TypeOK
<1> USE ConstantsOK
<1>1. Idle \in Run
  BY DEF Idle, Run, Place
<1> QED
  BY <1>1 DEF Init, TypeOK, JournalInit, JournalTypeOK, Past, AttemptFlag, Timer, Host

\* FilesInv holds at the start, when no operation is under way.
LEMMA FilesInit == Init => FilesInv
<1> SUFFICES ASSUME Init PROVE FilesInv
  OBVIOUS
<1>1. run = [h \in Host |-> Idle] /\ markers = [o \in Order |-> {}]
  BY DEF Init, JournalInit
<1>2. \A h \in Host : OrderHeld(h) /\ RowsAccounted(h)
  BY <1>1 DEF Idle, OrderHeld, RowsAccounted, Granting, Delivering
<1>3. LeaseHeld
  BY <1>1 DEF Idle, LeaseHeld
<1>4. UnresolvedStaysPending
  BY <1>1 DEF UnresolvedStaysPending
<1> QED
  BY <1>2, <1>3, <1>4, TypeInit DEF FilesInv

\* Only the end of a sync and of a pass rewrite the pending rows, from what the
\* runtime read when it began.
LEMMA PendingStep == FilesInv /\ [Next]_vars => pending \ pending' \subseteq Delivered
<1> SUFFICES ASSUME FilesInv, [Next]_vars PROVE pending \ pending' \subseteq Delivered
  OBVIOUS
<1>h. ASSUME NEW h \in Host PROVE RowsAccounted(h)
  BY DEF FilesInv
<1>1. CASE UNCHANGED pending
  BY <1>1
<1>2. ASSUME NEW h \in Host, SyncEnd(h) PROVE pending \ pending' \subseteq Delivered
  BY <1>2, <1>h DEF SyncEnd, SavePending, RowsAccounted
<1>3. ASSUME NEW h \in Host, DeliverEnd(h) PROVE pending \ pending' \subseteq Delivered
  BY <1>3, <1>h DEF DeliverEnd, SavePending, RowsAccounted, Delivering
<1>4. ASSUME NEW h \in Host, Step(h) PROVE UNCHANGED pending \/ SyncEnd(h) \/ DeliverEnd(h)
  <2>1. ASSUME Row(h) PROVE UNCHANGED pending
    BY <2>1 DEF Row, DropRow, KeepRow, BlockLegacy, Reserve, files
  <2>2. ASSUME Grant(h) PROVE UNCHANGED pending
    BY <2>2 DEF Grant, MarkDispatching, LogAttempt, SendCall, RefuseCall, CallOk, CallFailed,
                CallUnverified, CallTimeout, WriteDelivered, LogDelivered, WriteUncertain, files
  <2>3. ASSUME \/ \E listed : SyncBegin(h, listed) \/ DeliverBegin(h, listed)
               \/ SkipDeliver(h) \/ LogConfirmed(h) \/ ConfirmEnd(h)
        PROVE  UNCHANGED pending
    BY <2>3 DEF SyncBegin, SkipDeliver, DeliverBegin, LogConfirmed, ConfirmEnd, files
  <2>4. ASSUME NEW p, NEW ok, Fetch(h, p, ok) PROVE UNCHANGED pending
    BY <2>4 DEF Fetch, files
  <2>5. ASSUME NEW seen, ConfirmBegin(h, seen) PROVE UNCHANGED pending
    BY <2>5 DEF ConfirmBegin
  <2>6. ASSUME NEW o, NEW accepted, NEW received, Confirm(h, o, accepted, received)
        PROVE  UNCHANGED pending
    BY <2>6 DEF Confirm, files
  <2> QED
    BY <1>4, <2>1, <2>2, <2>3, <2>4, <2>5, <2>6 DEF Step
<1>5. ASSUME Environment PROVE UNCHANGED pending
  BY <1>5 DEF Environment, GameQueues, GameRuns, GameRejects, Buy, TimerEnds, ComeOrGo, files
<1>6. ASSUME NEW h \in Host,
             Stop(h) \/ \E ops \in Operations, p \in Player \cup {NoPlayer} : Start(h, ops, p)
      PROVE  UNCHANGED pending
  BY <1>6 DEF Stop, Start, files
<1>7. CASE UNCHANGED vars
  BY <1>7 DEF vars, files
<1> QED
  BY <1>1, <1>2, <1>3, <1>4, <1>5, <1>6, <1>7 DEF Next

\* FilesInv is an invariant: only the holder of the lease works, what it has in
\* memory accounts for every undelivered row of the pending file, and what it takes
\* for settled is delivered.
THEOREM FilesCorrect == Spec => []FilesInv
  BY FilesInit, FilesStep, PTL DEF Spec

\* The state always has its types (in particular no operation grants or confirms
\* "no order", and no command count goes below zero).
THEOREM TypeCorrect == Spec => []TypeOK
<1>1. FilesInv => TypeOK
  BY DEF FilesInv
<1> QED
  BY <1>1, FilesCorrect, PTL

\* Whatever the runtimes do, an order that was dispatched and is not known to be
\* delivered keeps its pending row (DeliverPendingCoreAsync and its native twin).
THEOREM UnresolvedKept == Spec => []UnresolvedStaysPending
<1>1. FilesInv => UnresolvedStaysPending
  BY DEF FilesInv
<1> QED
  BY <1>1, FilesCorrect, PTL

\* Neither runtime ever drops the pending row of an undelivered order, although both
\* rewrite the whole file from a copy they read earlier.
THEOREM PendingKept == Spec => PendingKeepsUndelivered
<1>1. FilesInv /\ [Next]_vars => [pending \ pending' \subseteq Delivered]_vars
  BY PendingStep
<1> QED
  BY <1>1, FilesCorrect, PTL DEF Spec, PendingKeepsUndelivered
=============================================================================
