-------------------------- MODULE GameStoresGrants --------------------------
(***************************************************************************)
(* The delivery of GameStores purchases implements OneGrantPerOrder.  The  *)
(* refinement mapping reads the phase of an order off the shared files and *)
(* the shop, so it does not depend on which runtime is at work, or on what *)
(* a runtime that stopped had in memory.                                   *)
(***************************************************************************)
EXTENDS GameStoresDelivery

\* An attempt is on record: a dispatching marker, or (from before the journal)
\* a row of the attempts log.
Attempted(o) == "dispatching" \in markers[o] \/ "dispatched" \in attemptLog[o]

PhaseOf(o) ==
  IF shop[o] = "given" THEN "told"
  ELSE IF o \in Delivered THEN "delivered"
  ELSE IF Attempted(o) THEN "attempted"
  ELSE "waiting"

Promise == INSTANCE OneGrantPerOrder
             WITH Parts <- Calls, Queued <- Early, granted <- applied,
                  phase <- [o \in Order |-> PhaseOf(o)]

\* Both runtimes together, crashes and late answers included, behave as if each
\* order were attempted once by somebody who never forgets: no phase goes back,
\* no part is granted outside the one attempt or (but for the orders in Early)
\* after the delivery, and the shop is told of delivered orders only.
ImplementsPromise == Promise!Spec
=============================================================================
