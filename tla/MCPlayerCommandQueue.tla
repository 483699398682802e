------------------------ MODULE MCPlayerCommandQueue ------------------------
(***************************************************************************)
(* Mutations and commands for the runs of PlayerCommandQueue: two of the   *)
(* three mutations are of one player, the commands of one each.            *)
(***************************************************************************)
EXTENDS PlayerCommandQueue, TLC

CONSTANTS m1, m2, m3, c1, c2, anna, boris

MCMutation == {m1, m2, m3}
MCOwner == (m1 :> anna) @@ (m2 :> anna) @@ (m3 :> boris)
MCSender == (c1 :> anna) @@ (c2 :> boris)
MCName == [c \in Command |-> "pay"]
=============================================================================
