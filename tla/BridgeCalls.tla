---------------------------- MODULE BridgeCalls ----------------------------
(***************************************************************************)
(* The file bridge implements OneShotCalls: what the caller knows is read  *)
(* off the place of its call, and the effects are those in the game.       *)
(***************************************************************************)
EXTENDS FileBridge

\* What the caller knows of a call at a place.
OutcomeOf(place) ==
  CASE place \in {"new", "checked", "locked", "cleared"} -> "none"
    [] place \in Sent -> "sent"
    [] place = "refused" -> "refused"
    [] place \in {"failed", "died"} -> "unknown"
    [] OTHER -> "ok"

Calls == INSTANCE OneShotCalls
           WITH Unproven <- {r \in Request : Kind[r] \in {"direct", "early"}},
                outcome <- [r \in Request |-> OutcomeOf(at[r])], effects <- ran

\* For its callers the two single-slot files, the two processes that overwrite each
\* other in them and the restarts make a channel of one-shot calls: nothing runs
\* twice, and nothing succeeds that did not run.
ImplementsCalls == Calls!Spec
=============================================================================
