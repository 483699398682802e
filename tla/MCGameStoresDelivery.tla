------------------------ MODULE MCGameStoresDelivery ------------------------
(***************************************************************************)
(* Two orders for the runs of GameStoresDelivery: a takes two bridge calls *)
(* (a part of a delivery can fail), b takes one.                           *)
(***************************************************************************)
EXTENDS GameStoresGrants, GameStoresInvariant, TLC

CONSTANTS a, b, anna, boris

MCOrder == {a, b}
MCPlayer == {anna, boris}
MCOwner == (a :> anna) @@ (b :> boris)
MCSharedOwner == [o \in Order |-> anna]
MCCalls == (a :> 2) @@ (b :> 1)
MCOneCall == [o \in Order |-> 1]
MCOneRoute == [o \in Order |-> 1]
MCTwoRoutes == [o \in Order |-> 2]
=============================================================================
