-------------------------- MODULE DeliveryJournal --------------------------
(***************************************************************************)
(* The GameStores delivery journal: a directory with at most four marker   *)
(* files per order, shared by the C# panel (GameStoresDeliveryJournal.cs)  *)
(* and the native runtime (http_server.cpp).  A marker is created by a     *)
(* rename that never replaces a file and is never deleted.  The journal    *)
(* keeps no other state, so a crash of either runtime leaves it as it is.  *)
(***************************************************************************)
EXTENDS FiniteSets

CONSTANT Order        \* the orders of the shop, named by their canonical key

VARIABLE markers      \* markers[o]: the marker files of o that exist

MarkerState == {"reserved", "dispatching", "delivered", "uncertain"}

\* What inspecting an order can report.
JournalState == MarkerState \cup {"none", "corrupt"}

JournalTypeOK == markers \in [Order -> SUBSET MarkerState]

JournalInit == markers = [o \in Order |-> {}]

---------------------------------------------------------------------------
(* Reading.  A marker that exists may be unreadable (an I/O error, a        *)
(* damaged payload), so every read chooses the markers it manages to parse. *)

\* The marker furthest along, when no marker is delivered or unreadable.
Furthest(found) ==
  CASE "uncertain" \in found   -> "uncertain"
    [] "dispatching" \in found -> "dispatching"
    [] "reserved" \in found    -> "reserved"
    [] OTHER                   -> "none"

\* What Inspect makes of the files that exist and those it could parse: a
\* delivered marker is final whatever else is damaged, and damage hides the rest.
Snapshot(present, parsed) ==
  IF "delivered" \in parsed THEN "delivered"
  ELSE IF parsed # present THEN "corrupt"
  ELSE Furthest(present)

\* The snapshots that inspecting order o can return now.
Inspect(o) == { Snapshot(markers[o], parsed) : parsed \in SUBSET markers[o] }

\* The orders with a delivered marker; DeliveredEntries returns those it can parse.
DeliveredOrders == { o \in Order : "delivered" \in markers[o] }

DeliveredEntries == SUBSET DeliveredOrders

---------------------------------------------------------------------------
(* Writing.  The rename fails when the marker exists, and may fail for any  *)
(* other I/O reason; the caller only sees whether it succeeded.             *)

TryWrite(o, state, ok) ==
  \/ /\ ok
     /\ state \notin markers[o]
     /\ markers' = [markers EXCEPT ![o] = @ \cup {state}]
  \/ /\ ~ok
     /\ UNCHANGED markers
=============================================================================
