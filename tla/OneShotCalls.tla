---------------------------- MODULE OneShotCalls ----------------------------
(***************************************************************************)
(* What the bridge promises to its callers: a call is refused, or sent     *)
(* once; a call that was sent may take effect at most once, and may do so  *)
(* after its caller has given up; a caller hears of a success only when    *)
(* the call took effect.  Calls in Unproven are told before that.          *)
(***************************************************************************)
EXTENDS Naturals

CONSTANTS
  Request,
  Unproven            \* the calls whose success is told before they take effect

VARIABLES
  outcome,            \* outcome[c]: what the caller knows of c
  effects             \* effects[c]: times c took effect

vars == <<outcome, effects>>

Init ==
  /\ outcome = [c \in Request |-> "none"]
  /\ effects = [c \in Request |-> 0]

Tell(c, from, to) ==
  /\ outcome[c] = from
  /\ outcome' = [outcome EXCEPT ![c] = to]

Send(c)    == Tell(c, "none", "sent") /\ UNCHANGED effects
Refuse(c)  == Tell(c, "none", "refused") /\ UNCHANGED effects
Abandon(c) == Tell(c, "sent", "unknown") /\ UNCHANGED effects
Succeed(c) ==
  /\ c \in Unproven \/ effects[c] = 1
  /\ Tell(c, "sent", "ok")
  /\ UNCHANGED effects

TakeEffect(c) ==
  /\ outcome[c] \in {"sent", "unknown"} \/ (c \in Unproven /\ outcome[c] = "ok")
  /\ effects[c] = 0
  /\ effects' = [effects EXCEPT ![c] = 1]
  /\ UNCHANGED outcome

\* The calls of a process that stops end together.
Stop ==
  /\ \E S \in SUBSET Request :
       outcome' = [c \in Request |->
         IF c \notin S THEN outcome[c]
         ELSE CASE outcome[c] = "none" -> "refused"
                [] outcome[c] = "sent" -> "unknown"
                [] OTHER -> outcome[c]]
  /\ UNCHANGED effects

Next ==
  \/ Stop
  \/ \E c \in Request : Send(c) \/ Refuse(c) \/ Abandon(c) \/ Succeed(c) \/ TakeEffect(c)

Spec == Init /\ [][Next]_vars
=============================================================================
