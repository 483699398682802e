---------------------------- MODULE MCFileBridge ----------------------------
(***************************************************************************)
(* Three calls for the runs of FileBridge: p and q of the panel or of the  *)
(* native runtime, n of the native runtime.                                *)
(***************************************************************************)
EXTENDS BridgeCalls, TLC

CONSTANTS p, q, n

MCRequest == {p, q, n}
MCMixed == (p :> "queued") @@ (q :> "sync") @@ (n :> "early")
MCDirect == [r \in MCRequest |-> "direct"]
=============================================================================
