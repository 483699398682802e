----------------------------- MODULE PanelCommon -----------------------------
(***************************************************************************)
(* What several modules of the web panel share: the players, the value of  *)
(* what is missing, and whether the administrator waits for the requests   *)
(* that are under way before he acts again.                                *)
(***************************************************************************)
CONSTANTS
  Person,             \* the players, as the dialog and the kill feed name them
  None, Waits

ASSUME WaitsOK == Waits \in BOOLEAN
=============================================================================
