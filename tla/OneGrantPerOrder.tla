-------------------------- MODULE OneGrantPerOrder --------------------------
(***************************************************************************)
(* What the delivery of purchases promises to the players and to the shop: *)
(* every order is attempted at most once, the attempt grants each part of  *)
(* the purchase at most once, an order counts as delivered only when all   *)
(* of it was granted, and the shop is told of delivered orders only.  An   *)
(* attempt whose outcome nobody learns stays an attempt for ever.  Of an   *)
(* order in Queued less is promised: it may count as delivered, and the    *)
(* shop be told, while its parts still wait to be granted.                 *)
(***************************************************************************)
EXTENDS Naturals

CONSTANTS
  Order,
  Parts,              \* Parts[o]: the grants that make up order o
  Queued              \* the orders that count as delivered once they are queued

VARIABLES
  phase,              \* phase[o]: how far order o has come
  granted             \* granted[o]: the parts of o the player has received

vars == <<phase, granted>>

Phase == {"waiting", "attempted", "delivered", "told"}

\* The orders found at the start may have been handled before.
Init ==
  /\ phase \in [Order -> Phase]
  /\ granted \in [Order -> Nat]
  /\ \A o \in Order :
       /\ granted[o] <= Parts[o]
       /\ phase[o] = "waiting" => granted[o] = 0
       /\ phase[o] \in {"delivered", "told"} /\ o \notin Queued => granted[o] = Parts[o]

Attempt(o) ==
  /\ phase[o] = "waiting"
  /\ phase' = [phase EXCEPT ![o] = "attempted"]
  /\ UNCHANGED granted

GrantPart(o) ==
  /\ phase[o] = "attempted" \/ (o \in Queued /\ phase[o] \in {"delivered", "told"})
  /\ granted[o] < Parts[o]
  /\ granted' = [granted EXCEPT ![o] = @ + 1]
  /\ UNCHANGED phase

Deliver(o) ==
  /\ phase[o] = "attempted"
  /\ o \in Queued \/ granted[o] = Parts[o]
  /\ phase' = [phase EXCEPT ![o] = "delivered"]
  /\ UNCHANGED granted

Tell(o) ==
  /\ phase[o] = "delivered"
  /\ phase' = [phase EXCEPT ![o] = "told"]
  /\ UNCHANGED granted

Next == \E o \in Order : Attempt(o) \/ GrantPart(o) \/ Deliver(o) \/ Tell(o)

Spec == Init /\ [][Next]_vars
=============================================================================
