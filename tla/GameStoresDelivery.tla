------------------------- MODULE GameStoresDelivery -------------------------
(***************************************************************************)
(* Delivery of GameStores purchases.  Two runtimes, the C# panel and the   *)
(* native DLL, share the files of the state directory: the pending rows,   *)
(* the delivered, confirmed and attempts logs and the delivery journal.    *)
(* Each operation (sync, deliver, confirm, or a composition of them) runs  *)
(* under a cross-process lease; it asks the shop for open orders, has the  *)
(* game grant them through the bridge and tells the shop what was given.   *)
(* A grant is not idempotent, and any operation may stop at any point.     *)
(***************************************************************************)
EXTENDS DeliveryJournal, Naturals

CONSTANTS
  Player, NoPlayer,   \* the players; NoPlayer: the operation is for everybody
  Panel, Native,      \* the instances of the two runtimes
  NoHost, NoOrder,
  Owner,              \* Owner[o]: the player who bought o
  Calls,              \* Calls[o]: grants that make up o (19 for all skills, else 1)
  Deferred,           \* the money and fame orders: the bridge only queues their grant
  Routes,             \* Routes[o]: transports the native runtime tries for a grant of o
  Sellable,           \* the orders for which the config has a delivery rule
  Limit,              \* AutoDeliveryMaxPerRun, ManualClaimMaxPerRun
  AutoDeliver,        \* AutoDeliverPending
  OnlyOnline,         \* DeliverOnlyToOnlinePlayers
  DeliveryDelay,      \* DeliveryDelaySeconds > 0
  LogRolls,           \* the attempts log may outgrow the 1000 rows that are read
  History,            \* what may have happened to the orders found at the start
  MaxStops            \* bound on the operations that stop early

Host == Panel \cup Native

\* An order found at the start is new, or it passed through a version of the
\* service from before the journal, which left rows in the logs but no marker.
Past == {"new", "dispatched", "retried", "exhausted", "delivered", "confirmed"}

ASSUME ConstantsOK ==
  /\ Owner \in [Order -> Player]
  /\ Calls \in [Order -> Nat \ {0}]
  /\ Deferred \subseteq {o \in Order : Calls[o] = 1}
  /\ Routes \in [Order -> Nat \ {0}]
  /\ Sellable \subseteq Order
  /\ Limit \in Nat \ {0}
  /\ History \subseteq Past
  /\ MaxStops \in Nat
  /\ {AutoDeliver, OnlyOnline, DeliveryDelay, LogRolls} \subseteq BOOLEAN
  /\ Panel \cap Native = {}
  /\ NoPlayer \notin Player /\ NoHost \notin Host /\ NoOrder \notin Order

VARIABLES
  pending,            \* gamestores-pending: the orders with a row
  deliveredLog,       \* gamestores-delivered
  confirmedLog,       \* gamestores-confirmed
  attemptLog,         \* gamestores-attempts, as AttemptIndex sums it up
  timers,             \* timers[o]: the delays of o that have not run out
  lease,              \* the runtime that holds operation.lock open
  run,                \* run[h]: the operation in progress in runtime h
  shop,               \* shop[o]: the order at the GameStores API
  online,             \* the players connected to the game server
  inflight,           \* inflight[o]: grants of o that were sent and may still be made
  applied,            \* applied[o]: grants of o that were made
  answer,             \* answer[o]: the result the game left for the last call
  stops               \* operations that have stopped early

files == <<markers, pending, deliveredLog, confirmedLog, attemptLog>>
world == <<shop, online, timers>>
game  == <<inflight, applied, answer>>
vars  == <<files, world, game, lease, run, stops>>

Stage == {"sync", "deliver", "confirm"}
AttemptFlag == {"dispatched", "exhausted"}
Timer == {"delivery", "retry"}

\* Where an operation stands.  From "reserved" on it works on the order run[h].order.
Granting == {"reserved", "marked", "sending", "waiting", "acked", "nacked", "logging"}
Place == {"idle", "stage", "fetch", "rows", "confirm", "confirmed"} \cup Granting

Run == [ at      : Place,
         stages  : SUBSET Stage,                  \* the stages left, in order
         claim   : Player \cup {NoPlayer},        \* the player who claims
         players : SUBSET Player,                 \* the live players it read
         rows    : SUBSET Order,                  \* the rows still to visit
         kept    : SUBSET Order,                  \* "remaining"
         settled : SUBSET Order,                  \* SettledKeys as read
         attempts: [Order -> SUBSET AttemptFlag], \* AttemptIndex as read
         order   : Order \cup {NoOrder},
         called  : Nat,                           \* grants of the order answered ok
         tried   : Nat,                           \* transports that failed for this call
         issued  : Nat ]

Idle == [ at |-> "idle", stages |-> {}, claim |-> NoPlayer, players |-> {},
          rows |-> {}, kept |-> {}, settled |-> {},
          attempts |-> [o \in Order |-> {}], order |-> NoOrder,
          called |-> 0, tried |-> 0, issued |-> 0 ]

TypeOK ==
  /\ JournalTypeOK
  /\ pending \subseteq Order /\ deliveredLog \subseteq Order /\ confirmedLog \subseteq Order
  /\ attemptLog \in [Order -> SUBSET AttemptFlag]
  /\ timers \in [Order -> SUBSET Timer]
  /\ lease \in Host \cup {NoHost}
  /\ run \in [Host -> Run]
  /\ shop \in [Order -> {"unsold", "open", "given"}]
  /\ online \subseteq Player
  /\ inflight \in [Order -> Nat] /\ applied \in [Order -> Nat]
  /\ answer \in [Order -> {"none", "ok", "failed"}]
  /\ stops \in Nat

---------------------------------------------------------------------------
Init ==
  \E past \in [Order -> History] :
    LET left(S) == {o \in Order : past[o] \in S} IN
    /\ JournalInit
    /\ pending = left({"dispatched", "retried", "exhausted"})
    /\ deliveredLog = left({"delivered", "confirmed"})
    /\ confirmedLog = left({"confirmed"})
    /\ attemptLog = [o \in Order |-> {past[o]} \cap AttemptFlag]
    /\ timers = [o \in Order |-> IF past[o] = "retried" THEN {"retry"} ELSE {}]
    /\ shop = [o \in Order |-> CASE past[o] = "new" -> "unsold"
                                 [] past[o] = "confirmed" -> "given"
                                 [] OTHER -> "open"]
    /\ inflight = [o \in Order |-> 0]
    /\ applied \in [Order -> UNION {0 .. Calls[o] : o \in Order}]
    /\ \A o \in Order :
         CASE past[o] = "dispatched" -> applied[o] \in 0 .. Calls[o]
           [] past[o] \in {"delivered", "confirmed"} -> applied[o] = Calls[o]
           [] OTHER -> applied[o] = 0
    /\ answer = [o \in Order |-> "none"]
    /\ lease = NoHost
    /\ run = [h \in Host |-> Idle]
    /\ online \in SUBSET Player
    /\ stops = 0

---------------------------------------------------------------------------
(* Operations.  SerializeOperationAsync and GameStoresOperationLease open   *)
(* the lock file exclusively; the system closes it when the holder dies.    *)

\* The stages of an operation.  Process and Claim hold the lease over all three;
\* the native worker's poll takes it once for each.
Operations == {{"sync"}, {"deliver"}, {"confirm"}, Stage}

\* Mutant: two runtimes work at the same time.
LeaseIgnored == TRUE

LeaseFree == lease = NoHost

\* The operation of h now stands as r says.
Become(h, r) == run' = [run EXCEPT ![h] = r]

\* The operation ends.
Release(h) == Become(h, Idle) /\ lease' = NoHost

\* The next stage of h's operation is s.
Due(h, s) ==
  /\ run[h].at = "stage"
  /\ s \in run[h].stages
  /\ s = "deliver" => "sync" \notin run[h].stages
  /\ s = "confirm" => run[h].stages = {"confirm"}

\* h ends stage s; left are the stages that still follow.
Advance(h, left) ==
  IF left = {}
  THEN Release(h)
  ELSE /\ Become(h, [Idle EXCEPT !.at = "stage", !.stages = left, !.claim = run[h].claim])
       /\ UNCHANGED lease

\* Whom h may find online when it asks.  The panel takes a failed list_players for an
\* empty server (and the bridge script that is shipped always fails it), except for a
\* claim, which it then refuses; the native runtime then reads the sessions of SCUM.log,
\* which lag behind the game.
Listings(h) == IF h \in Panel THEN {online, {}} ELSE SUBSET Player

\* h begins the operation ops, for the player p who claims or for everybody.
\* The panel refuses a claim of a player it does not find online.
Start(h, ops, p) ==
  /\ run[h].at = "idle"
  /\ LeaseFree
  /\ p # NoPlayer => ops = Stage /\ (h \in Panel => p \in online)
  /\ lease' = h
  /\ Become(h, [run[h] EXCEPT !.at = "stage", !.stages = ops, !.claim = p])
  /\ UNCHANGED <<files, world, game, stops>>

\* An exception, a cancellation or a crash of the runtime: the lease is
\* released, and everything that was not yet in a file is gone.
Stop(h) ==
  /\ run[h].at # "idle"
  /\ stops < MaxStops
  /\ stops' = stops + 1
  /\ Release(h)
  /\ UNCHANGED <<files, world, game>>

---------------------------------------------------------------------------
(* Sync: merge the shop's open orders into the pending rows.                *)

\* Mutant: the entries of the journal do not reach the log.
Unreconciled(seen) == deliveredLog

\* The delivered log after ReconcileDeliveredJournal read the entries seen.
Reconciled(seen) == deliveredLog \cup seen

Settled(seen) == deliveredLog \cup confirmedLog \cup seen

SyncBegin(h, listed) ==
  /\ Due(h, "sync")
  /\ listed \in Listings(h)
  /\ \E seen \in DeliveredEntries :
       /\ deliveredLog' = Reconciled(seen)
       /\ Become(h, [run[h] EXCEPT !.at = "fetch", !.settled = Settled(seen),
                                   !.rows = pending \ Settled(seen),
                                   !.players = IF h \in Panel /\ run[h].claim # NoPlayer
                                               THEN {run[h].claim} ELSE listed])
  /\ UNCHANGED <<markers, pending, confirmedLog, attemptLog, world, game, lease, stops>>

\* The open orders of p that no row, log or journal marker knows yet.
Unknown(h, p) ==
  { o \in Sellable : /\ Owner[o] = p /\ shop[o] = "open"
                     /\ o \notin run[h].rows \cup run[h].settled
                     /\ "none" \in Inspect(o) }

\* The API call for one player: it fails, or the unknown orders get a row.
Fetched(h, p, ok) == IF ok THEN Unknown(h, p) ELSE {}

Fetch(h, p, ok) ==
  LET new == Fetched(h, p, ok) IN
  /\ run[h].at = "fetch"
  /\ p \in run[h].players
  /\ Become(h, [run[h] EXCEPT !.players = @ \ {p}, !.rows = @ \cup new])
  /\ timers' = [o \in Order |-> IF o \in new /\ DeliveryDelay
                                THEN timers[o] \cup {"delivery"} ELSE timers[o]]
  /\ UNCHANGED <<files, shop, online, game, lease, stops>>

\* The native runtime ignores a failed write of the pending rows.
SavePending(h, rows) ==
  \/ pending' = rows
  \/ h \in Native /\ UNCHANGED pending

SyncEnd(h) ==
  /\ run[h].at = "fetch"
  /\ run[h].players = {}
  /\ SavePending(h, run[h].rows)
  /\ Advance(h, run[h].stages \ {"sync"})
  /\ UNCHANGED <<markers, deliveredLog, confirmedLog, attemptLog, world, game, stops>>

---------------------------------------------------------------------------
(* Deliver: one pass over the pending rows.                                 *)

SkipDeliver(h) ==
  /\ Due(h, "deliver")
  /\ ~AutoDeliver /\ run[h].claim = NoPlayer
  /\ Advance(h, run[h].stages \ {"deliver"})
  /\ UNCHANGED <<files, world, game, stops>>

\* The players h delivers to, of whom only the panel asks, and only if told to.
Present(h, listed) ==
  IF run[h].claim # NoPlayer THEN {run[h].claim}
  ELSE IF h \in Panel /\ OnlyOnline THEN listed ELSE {}

DeliverBegin(h, listed) ==
  /\ Due(h, "deliver")
  /\ AutoDeliver \/ run[h].claim # NoPlayer
  /\ listed \in Listings(h)
  /\ \E seen \in DeliveredEntries :
       /\ deliveredLog' = Reconciled(seen)
       /\ Become(h, [run[h] EXCEPT !.at = "rows", !.settled = Settled(seen),
                                   !.rows = pending, !.attempts = attemptLog,
                                   !.players = Present(h, listed)])
  /\ UNCHANGED <<markers, pending, confirmedLog, attemptLog, world, game, lease, stops>>

Visits(h, o) == run[h].at = "rows" /\ o \in run[h].rows

\* Mutant: the limit is off by one.
WaitsEarly(h, o) == run[h].issued + 1 >= Limit

\* The row stays for a later run whatever its attempts say.
Waits(h, o) ==
  \/ run[h].issued >= Limit
  \/ run[h].claim # NoPlayer /\ Owner[o] # run[h].claim
  \/ "delivery" \in timers[o] /\ (h \in Panel \/ run[h].claim = NoPlayer)

\* Mutant: the native runtime does not know the rows its claims log.
PanelLegacyDispatch(h, o) == h \in Panel /\ "dispatched" \in run[h].attempts[o]

\* A dispatch that an earlier version logged without a journal marker.
LegacyDispatch(h, o) == "dispatched" \in run[h].attempts[o]

\* The row stays because of its attempts, or because the player is offline.
BacksOff(h, o) ==
  \/ "exhausted" \in run[h].attempts[o]
  \/ "retry" \in timers[o]
  \/ h \in Panel /\ OnlyOnline /\ Owner[o] \notin run[h].players

Unsettled(h, o, journal) ==
  /\ journal \in Inspect(o)
  /\ o \notin run[h].settled
  /\ h \in Panel => journal # "delivered"

\* Mutant: the row is not put back.
Forget(h, o) == [run[h] EXCEPT !.at = "rows", !.rows = @ \ {o},
                               !.order = NoOrder, !.called = 0, !.tried = 0]

\* The row of o goes to "remaining".
Keep(h, o) == [run[h] EXCEPT !.at = "rows", !.rows = @ \ {o}, !.kept = @ \cup {o},
                             !.order = NoOrder, !.called = 0, !.tried = 0]

\* The row goes: its order is settled, or (panel) the journal says delivered,
\* in which case the delivered log is repaired.
DropRow(h, o) ==
  /\ Visits(h, o)
  /\ \E journal \in Inspect(o) :
       \/ /\ h \in Panel /\ journal = "delivered"
          /\ deliveredLog' = Reconciled({o})
       \/ /\ o \in run[h].settled
          /\ h \in Panel => journal # "delivered"
          /\ UNCHANGED deliveredLog
  /\ Become(h, [run[h] EXCEPT !.rows = @ \ {o}])
  /\ UNCHANGED <<markers, pending, confirmedLog, attemptLog, world, game, lease, stops>>

\* The row stays: its journal blocks it, or it is not its turn.
KeepRow(h, o) ==
  /\ Visits(h, o)
  /\ \E journal \in JournalState :
       /\ Unsettled(h, o, journal)
       /\ \/ journal # "none"
          \/ Waits(h, o)
          \/ ~LegacyDispatch(h, o) /\ BacksOff(h, o)
  /\ Become(h, Keep(h, o))
  /\ UNCHANGED <<files, world, game, lease, stops>>

\* A logged dispatch without a marker blocks the order for good.
BlockLegacy(h, o) ==
  /\ Visits(h, o)
  /\ Unsettled(h, o, "none") /\ ~Waits(h, o) /\ LegacyDispatch(h, o)
  /\ \E ok \in BOOLEAN : TryWrite(o, "uncertain", ok)
  /\ Become(h, Keep(h, o))
  /\ UNCHANGED <<pending, deliveredLog, confirmedLog, attemptLog, world, game, lease, stops>>

Reserve(h, o, ok) ==
  /\ Visits(h, o)
  /\ Unsettled(h, o, "none") /\ ~Waits(h, o)
  /\ ~LegacyDispatch(h, o) /\ ~BacksOff(h, o)
  /\ TryWrite(o, "reserved", ok)
  /\ Become(h, IF ok THEN [run[h] EXCEPT !.at = "reserved", !.order = o] ELSE Keep(h, o))
  /\ UNCHANGED <<pending, deliveredLog, confirmedLog, attemptLog, world, game, lease, stops>>

\* Mutant: a dispatching marker that could not be written does not stop the grant.
DispatchAnyway(h) ==
  /\ run[h].at = "reserved"
  /\ \E ok \in BOOLEAN : TryWrite(run[h].order, "dispatching", ok)
  /\ Become(h, [run[h] EXCEPT !.at = "marked"])
  /\ UNCHANGED <<pending, deliveredLog, confirmedLog, attemptLog, world, game, lease, stops>>

MarkDispatching(h) ==
  /\ run[h].at = "reserved"
  /\ \E ok \in BOOLEAN :
       /\ TryWrite(run[h].order, "dispatching", ok)
       /\ Become(h, IF ok THEN [run[h] EXCEPT !.at = "marked"] ELSE Keep(h, run[h].order))
  /\ UNCHANGED <<pending, deliveredLog, confirmedLog, attemptLog, world, game, lease, stops>>

\* The attempt row; AttemptIndex reads the last 1000, so older ones may roll out.
LogAttempt(h) ==
  /\ run[h].at = "marked"
  /\ \E rolled \in SUBSET (IF LogRolls THEN Order ELSE {}) :
       attemptLog' = [o \in Order |-> IF o = run[h].order THEN attemptLog[o] \cup {"dispatched"}
                                      ELSE IF o \in rolled THEN {} ELSE attemptLog[o]]
  /\ Become(h, [run[h] EXCEPT !.at = "sending"])
  /\ UNCHANGED <<markers, pending, deliveredLog, confirmedLog, world, game, lease, stops>>

\* What one call of h asks for: all skills are one command of the native runtime,
\* but one command each for the panel.
Units(h, o) == IF h \in Native THEN Calls[o] ELSE 1

\* One call of the delivery, over one transport.
SendCall(h) ==
  LET o == run[h].order IN
  /\ run[h].at = "sending"
  /\ inflight' = [inflight EXCEPT ![o] = @ + Units(h, o)]
  /\ answer' = [answer EXCEPT ![o] = "none"]
  /\ Become(h, [run[h] EXCEPT !.at = "waiting"])
  /\ UNCHANGED <<files, world, applied, lease, stops>>

\* The call did not succeed: the native runtime tries the next transport it has
\* (command channel, hosting console or bridge), whatever became of this one.
GiveUp(h) ==
  IF h \in Native /\ run[h].tried + 1 < Routes[run[h].order]
  THEN [run[h] EXCEPT !.at = "sending", !.tried = @ + 1]
  ELSE [run[h] EXCEPT !.at = "nacked"]

\* The bridge is offline or busy: the call fails before it is sent.
RefuseCall(h) ==
  /\ run[h].at = "sending"
  /\ Become(h, GiveUp(h))
  /\ UNCHANGED <<files, world, game, lease, stops>>

LastCall(h) == run[h].called + Units(h, run[h].order) = Calls[run[h].order]

\* The native runtime looks the new balance up in the database of the game.
Verified(h) ==
  LET o == run[h].order IN h \in Native /\ o \in Deferred => applied[o] = Calls[o]

CallOk(h) ==
  LET o == run[h].order IN
  /\ run[h].at = "waiting"
  /\ answer[o] = "ok" /\ Verified(h)
  /\ answer' = [answer EXCEPT ![o] = "none"]
  /\ Become(h, [run[h] EXCEPT !.called = @ + Units(h, o), !.tried = 0,
                              !.at = IF LastCall(h) THEN "acked" ELSE "sending"])
  /\ UNCHANGED <<files, world, inflight, applied, lease, stops>>

CallFailed(h) ==
  /\ run[h].at = "waiting"
  /\ answer[run[h].order] = "failed"
  /\ Become(h, GiveUp(h))
  /\ UNCHANGED <<files, world, game, lease, stops>>

\* Fifteen seconds later the database still does not show the new balance.
CallUnverified(h) ==
  /\ run[h].at = "waiting"
  /\ h \in Native /\ run[h].order \in Deferred
  /\ answer[run[h].order] = "ok"
  /\ Become(h, [run[h] EXCEPT !.at = "nacked"])
  /\ UNCHANGED <<files, world, game, lease, stops>>

\* The timeout deletes the command file; the game may have read it already, and
\* run it later.
Withdrawn(o) == {inflight, [inflight EXCEPT ![o] = 0]}

CallTimeout(h) ==
  /\ run[h].at = "waiting"
  /\ inflight' \in Withdrawn(run[h].order)
  /\ Become(h, GiveUp(h))
  /\ UNCHANGED <<files, world, applied, answer, lease, stops>>

\* The order of the row is settled for the rest of the pass.
Issued(h) == [run[h] EXCEPT !.at = "logging", !.issued = @ + 1,
                            !.settled = @ \cup {run[h].order},
                            !.rows = @ \ {run[h].order}]

WriteDelivered(h) ==
  /\ run[h].at = "acked"
  /\ \E ok \in BOOLEAN :
       /\ TryWrite(run[h].order, "delivered", ok)
       /\ Become(h, IF ok THEN Issued(h) ELSE Keep(h, run[h].order))
  /\ UNCHANGED <<pending, deliveredLog, confirmedLog, attemptLog, world, game, lease, stops>>

\* The native runtime ignores a failed append.
LogDelivered(h) ==
  /\ run[h].at = "logging"
  /\ \/ deliveredLog' = deliveredLog \cup {run[h].order}
     \/ h \in Native /\ UNCHANGED deliveredLog
  /\ Become(h, [run[h] EXCEPT !.at = "rows", !.order = NoOrder, !.called = 0, !.tried = 0])
  /\ UNCHANGED <<markers, pending, confirmedLog, attemptLog, world, game, lease, stops>>

\* The outcome is not known to be a success.  A cancellation inside the panel's
\* call writes the marker too, and then ends the operation.
WriteUncertain(h) ==
  /\ run[h].at = "nacked"
  /\ \E ok \in BOOLEAN : TryWrite(run[h].order, "uncertain", ok)
  /\ \/ Become(h, Keep(h, run[h].order)) /\ UNCHANGED lease
     \/ h \in Panel /\ Release(h)
  /\ UNCHANGED <<pending, deliveredLog, confirmedLog, attemptLog, world, game, stops>>

\* A panel claim that issued nothing does not go on to confirm.
DeliverEnd(h) ==
  /\ run[h].at = "rows"
  /\ run[h].rows = {}
  /\ SavePending(h, run[h].kept)
  /\ Advance(h, IF h \in Panel /\ run[h].claim # NoPlayer /\ run[h].issued = 0
                THEN {} ELSE run[h].stages \ {"deliver"})
  /\ UNCHANGED <<markers, deliveredLog, confirmedLog, attemptLog, world, game, stops>>

---------------------------------------------------------------------------
(* Confirm: tell the shop which orders were given.                          *)

\* Mutant: every dispatch on record counts as delivered.
ToConfirmAttempted(seen) ==
  (Reconciled(seen) \cup {o \in Order : "dispatching" \in markers[o]}) \ confirmedLog

ToConfirm(seen) == Reconciled(seen) \ confirmedLog

ConfirmBegin(h, seen) ==
  /\ Due(h, "confirm")
  /\ deliveredLog' = Reconciled(seen)
  /\ Become(h, [run[h] EXCEPT !.at = "confirm", !.rows = ToConfirm(seen)])
  /\ UNCHANGED <<markers, pending, confirmedLog, attemptLog, world, game, lease, stops>>

\* The API call for one order: accepted, with the response received or lost, or
\* not accepted at all.
Confirm(h, o, accepted, received) ==
  /\ run[h].at = "confirm"
  /\ o \in run[h].rows
  /\ received => accepted
  /\ shop' = IF accepted THEN [shop EXCEPT ![o] = "given"] ELSE shop
  /\ Become(h, IF received THEN [run[h] EXCEPT !.at = "confirmed", !.order = o]
               ELSE [run[h] EXCEPT !.rows = @ \ {o}])
  /\ UNCHANGED <<files, online, timers, game, lease, stops>>

LogConfirmed(h) ==
  /\ run[h].at = "confirmed"
  /\ \/ confirmedLog' = confirmedLog \cup {run[h].order}
     \/ h \in Native /\ UNCHANGED confirmedLog
  /\ Become(h, [run[h] EXCEPT !.at = "confirm", !.rows = @ \ {run[h].order},
                              !.order = NoOrder])
  /\ UNCHANGED <<markers, pending, deliveredLog, attemptLog, world, game, lease, stops>>

ConfirmEnd(h) ==
  /\ run[h].at = "confirm"
  /\ run[h].rows = {}
  /\ Release(h)
  /\ UNCHANGED <<files, world, game, stops>>

---------------------------------------------------------------------------
(* The game server and the players.                                         *)

\* The orders whose grant h is told of when the game has merely queued it.
Queues(h, o) == o \in Deferred \/ (h \in Native /\ Calls[o] > 1)

\* The game accepts a command and says ok; the grant waits in a queue of its own.
GameQueues(o) ==
  /\ inflight[o] > 0
  /\ \E h \in Host : Queues(h, o) /\ run[h].at = "waiting" /\ run[h].order = o
  /\ answer[o] # "ok"
  /\ answer' = [answer EXCEPT ![o] = "ok"]
  /\ UNCHANGED <<files, world, inflight, applied, lease, run, stops>>

\* The result for o, unless the game has said ok before.
Says(o, result) == answer' = [answer EXCEPT ![o] = IF @ = "ok" THEN @ ELSE result]

\* The game makes a grant; it reports success, or a failure although the grant
\* took effect.
GameRuns(o) ==
  /\ inflight[o] > 0
  /\ inflight' = [inflight EXCEPT ![o] = @ - 1]
  /\ applied' = [applied EXCEPT ![o] = @ + 1]
  /\ \E result \in {"ok", "failed"} : Says(o, result)
  /\ UNCHANGED <<files, world, lease, run, stops>>

\* The game refuses a command, or drops a grant it has queued (the player is not
\* ready for it any more, the bridge restarts).
GameRejects(o) ==
  /\ inflight[o] > 0
  /\ inflight' = [inflight EXCEPT ![o] = @ - 1]
  /\ Says(o, "failed")
  /\ UNCHANGED <<files, world, applied, lease, run, stops>>

Buy(o) ==
  /\ shop[o] = "unsold"
  /\ shop' = [shop EXCEPT ![o] = "open"]
  /\ UNCHANGED <<files, online, timers, game, lease, run, stops>>

ComeOrGo(p) ==
  /\ online' \in {online \cup {p}, online \ {p}}
  /\ online' # online
  /\ UNCHANGED <<files, shop, timers, game, lease, run, stops>>

TimerEnds(o) ==
  /\ timers[o] # {}
  /\ \E t \in timers[o] : timers' = [timers EXCEPT ![o] = @ \ {t}]
  /\ UNCHANGED <<files, shop, online, game, lease, run, stops>>

---------------------------------------------------------------------------

Row(h) ==
  \E o \in Order :
    \/ DropRow(h, o) \/ KeepRow(h, o) \/ BlockLegacy(h, o)
    \/ \E ok \in BOOLEAN : Reserve(h, o, ok)

Grant(h) ==
  \/ MarkDispatching(h) \/ LogAttempt(h) \/ SendCall(h) \/ RefuseCall(h)
  \/ CallOk(h) \/ CallFailed(h) \/ CallUnverified(h) \/ CallTimeout(h)
  \/ WriteDelivered(h) \/ LogDelivered(h) \/ WriteUncertain(h)

\* Whatever an operation under way does next.
Step(h) ==
  \/ \E listed \in SUBSET Player : SyncBegin(h, listed) \/ DeliverBegin(h, listed)
  \/ SyncEnd(h) \/ \E p \in Player, ok \in BOOLEAN : Fetch(h, p, ok)
  \/ SkipDeliver(h) \/ Row(h) \/ Grant(h) \/ DeliverEnd(h)
  \/ \E seen \in DeliveredEntries : ConfirmBegin(h, seen)
  \/ \E o \in Order, accepted, received \in BOOLEAN : Confirm(h, o, accepted, received)
  \/ LogConfirmed(h) \/ ConfirmEnd(h)

Environment ==
  \/ \E o \in Order : GameQueues(o) \/ GameRuns(o) \/ GameRejects(o) \/ Buy(o) \/ TimerEnds(o)
  \/ \E p \in Player : ComeOrGo(p)

Next ==
  \/ Environment
  \/ \E h \in Host :
       \/ Stop(h) \/ Step(h)
       \/ \E ops \in Operations, p \in Player \cup {NoPlayer} : Start(h, ops, p)

Spec == Init /\ [][Next]_vars

\* The native runtime reads in SCUM.log that p, who is online, is there.
FindsOnline(h, p) ==
  \E listed \in SUBSET Player : p \in listed \cap online /\ SyncBegin(h, listed)

\* An operation under way goes on; both runtimes poll (PollIntervalSeconds > 0 and
\* RequirePlayerClaim off); the API, the disk and the journal do not fail forever, and
\* SCUM.log shows a player again and again.  That the panel's list_players succeeds
\* is not assumed: with the shipped script it never does.
Fairness ==
  /\ \A h \in Host : WF_vars(Step(h))
  /\ \A h \in Panel :
       /\ SF_vars(Start(h, Stage, NoPlayer))
       /\ SF_vars(ConfirmBegin(h, DeliveredOrders))
       /\ \A o \in Order : SF_vars(Confirm(h, o, TRUE, TRUE))
  /\ \A h \in Native :
       /\ SF_vars(Start(h, {"sync"}, NoPlayer)) /\ SF_vars(Start(h, {"deliver"}, NoPlayer))
       /\ \A p \in Player : SF_vars(FindsOnline(h, p)) /\ SF_vars(Fetch(h, p, TRUE))
       /\ \A o \in Order : SF_vars(SyncEnd(h) /\ o \in pending') /\ SF_vars(Reserve(h, o, TRUE))
  /\ \A o \in Order : WF_vars(TimerEnds(o))

FairSpec == Spec /\ Fairness

---------------------------------------------------------------------------
(* Correctness.                                                             *)

\* The orders that count as delivered: the logs and the journal together.
Delivered == deliveredLog \cup confirmedLog \cup DeliveredOrders

\* A grant is never issued twice: the grants that were made, and those the game may
\* still make, are never more than the order is worth, whatever stops, times out or
\* answers late (the comment on the journal check in DeliverPendingCoreAsync: the
\* game grant is not idempotent).
AtMostOnce == \A o \in Order : applied[o] + inflight[o] <= Calls[o]

\* The orders that a runtime takes for granted when the game has only queued them.
Early ==
  { o \in Order : (Panel # {} /\ o \in Deferred) \/ (Native # {} /\ Calls[o] > 1) }

\* What the logs or the journal call delivered, and what the shop is told was
\* given, really is granted in full: every grant of the order took effect.  Nothing
\* better than a place in the game's queue is known of the orders in Early.
DeliveredIsGranted ==
  \A o \in Order \ Early : o \in Delivered \/ shop[o] = "given" => applied[o] = Calls[o]

\* The shop is told of an order only when all of it was granted ("safe delivery and
\* confirmation after success", the description of the module in PluginManifestJson).
GivenIsGranted == \A o \in Order : shop[o] = "given" => applied[o] = Calls[o]

\* An order whose dispatch has no known outcome keeps its pending row, so that a
\* person can settle it: no sync, claim, crash or failed write loses the row.
UnresolvedStaysPending ==
  \A o \in Order : "dispatching" \in markers[o] /\ o \notin Delivered => o \in pending

\* The write-ahead rule: before the game can run a command of an order, and as long
\* as a runtime works on its grant, the journal says that the order is dispatching.
\* A crash at any point between the marker and the outcome finds the marker.
WriteAhead ==
  /\ \A o \in Order : inflight[o] > 0 => "dispatching" \in markers[o]
  /\ \A h \in Host :
       run[h].at \in Granting \ {"reserved"} => "dispatching" \in markers[run[h].order]

\* A row leaves the pending file only when its order is delivered, although both
\* runtimes rewrite the whole file from what they read when they began.
PendingKeepsUndelivered == [][pending \ pending' \subseteq Delivered]_vars

\* The shop learns in the end of every order the journal records as delivered,
\* also when the runtime that delivered it died before it logged or confirmed it.
DeliveredIsConfirmed ==
  \A o \in Order : "delivered" \in markers[o] ~> shop[o] = "given"

\* An open order with a rule is attempted in the end, if its player stays online and
\* a native runtime polls, whatever a panel beside it does that finds nobody online.
OpenIsAttempted ==
  \A o \in Sellable :
    <>[](Owner[o] \in online) =>
      (shop[o] = "open" /\ attemptLog[o] = {} ~> markers[o] # {} \/ o \in Delivered)
=============================================================================
