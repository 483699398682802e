----------------------------- MODULE WelcomePack -----------------------------
(***************************************************************************)
(* The welcome pack controls of the web panel's player dialog: who has     *)
(* received the pack is read from the server, in requests that overlap and *)
(* may fail, and a pack that this panel has just given is remembered       *)
(* beside what the server answers, which may still be the old state.       *)
(*                                                                         *)
(* A player has a SteamID and a name, both written as the player himself;  *)
(* a record of the server may lack one of them.                            *)
(***************************************************************************)
EXTENDS Naturals, FiniteSets, PanelCommon

CONSTANTS
  Player,
  RefreshMax          \* bound: reads of the timers under way

ASSUME WelcomeConstantsOK == None \notin Player /\ RefreshMax \in Nat

VARIABLES
  given,              \* the records of the server
  timers,             \* state.welcomeTimers
  optimistic,         \* state.welcomeOptimisticTimers
  loading,            \* welcomeTimersLoading, or not loaded yet
  refreshes,          \* the reads of the timers under way
  claim, reset,       \* the target of a claim or a reset that is under way
  received            \* whom this panel gave the pack and has not reset (history)

welcome == <<given, timers, optimistic, loading, refreshes, claim, reset, received>>

Id == Player \cup {None}
Record == {r \in [steam : Id, name : Id] :
             /\ r.steam # None \/ r.name # None
             /\ r.steam # None /\ r.name # None => r.steam = r.name}
Who(r) == IF r.steam # None THEN r.steam ELSE r.name

WelcomeTypeOK ==
  /\ given \subseteq Record /\ timers \subseteq Record /\ optimistic \subseteq Record
  /\ loading \in BOOLEAN
  /\ \A i \in 1..RefreshMax :
       refreshes[i].stage \in {"none", "sent", "served"} /\ refreshes[i].rows \subseteq Record
  /\ claim \subseteq Record /\ reset \subseteq Record /\ received \subseteq Player

WelcomeInit ==
  /\ given \in SUBSET Record /\ \A r, s \in given : Who(r) = Who(s) => r = s
  /\ timers = {} /\ optimistic = {} /\ loading = TRUE
  /\ refreshes = [i \in 1..RefreshMax |-> [stage |-> "none", rows |-> {}]]
  /\ claim = {} /\ reset = {} /\ received = {}

\* welcomeRowMatchesTarget
RowMatches(r, t) ==
  \/ t.steam # None /\ r.steam = t.steam
  \/ t.name # None /\ r.name = t.name

\* Mutant: what the server answers is believed.
Believed(rows, mine) == rows

\* mergeWelcomeTimersWithOptimistic
Merged(rows, mine) == rows \cup {o \in mine : ~\E r \in rows : RowMatches(r, o)}

\* welcomePackStatusFor, and the buttons of updatePlayerWelcomeControls.
Received(t) == \E r \in timers : RowMatches(r, t)
MayClaim(t) == ~loading /\ ~Received(t)
MayReset(t) == ~loading /\ Received(t)

\* refreshWelcomeTimers
StartRefresh(i) ==
  /\ refreshes[i].stage = "none"
  /\ refreshes' = [refreshes EXCEPT ![i].stage = "sent"]
  /\ loading' = TRUE

Refresh(i) ==
  /\ StartRefresh(i)
  /\ UNCHANGED <<given, timers, optimistic, claim, reset, received>>

\* The server reads its timers, or the request fails and counts as an empty list.
ServeRefresh(i) ==
  /\ refreshes[i].stage = "sent"
  /\ \E rows \in {given, {}} :
       refreshes' = [refreshes EXCEPT ![i] = [stage |-> "served", rows |-> rows]]
  /\ UNCHANGED <<given, timers, optimistic, loading, claim, reset, received>>

RefreshAnswered(i) ==
  /\ refreshes[i].stage = "served"
  /\ timers' = Merged(refreshes[i].rows, optimistic)
  /\ loading' = FALSE
  /\ refreshes' = [refreshes EXCEPT ![i] = [stage |-> "none", rows |-> {}]]
  /\ UNCHANGED <<given, optimistic, claim, reset, received>>

\* The claim button of the dialog of a player; the server may refuse.
Claim(t) ==
  /\ claim = {} /\ MayClaim(t)
  /\ claim' = {t}
  /\ UNCHANGED <<given, timers, optimistic, loading, refreshes, reset, received>>

\* markWelcomePackReceivedLocal, then a refresh.  The server's record may name the
\* player otherwise, and its list may show it later.
ClaimAnswered(t, i) ==
  /\ t \in claim /\ claim' = {}
  /\ \E r \in Record \cup {t} :
       /\ Who(r) = Who(t)
       /\ given' \in {given, {g \in given : Who(g) # Who(t)} \cup {r}}
  /\ optimistic' = {o \in optimistic : ~RowMatches(o, t)} \cup {t}
  /\ timers' = Merged(timers, optimistic')
  /\ received' = received \cup {Who(t)}
  /\ StartRefresh(i)
  /\ UNCHANGED reset

ClaimRefused(t) ==
  /\ t \in claim /\ claim' = {}
  /\ UNCHANGED <<given, timers, optimistic, loading, refreshes, reset, received>>

Reset(t) ==
  /\ reset = {} /\ MayReset(t)
  /\ reset' = {t}
  /\ UNCHANGED <<given, timers, optimistic, loading, refreshes, claim, received>>

\* clearWelcomePackReceivedLocal, then a refresh.
ResetAnswered(t, i) ==
  /\ t \in reset /\ reset' = {}
  /\ given' = {g \in given : Who(g) # Who(t)}
  /\ optimistic' = {o \in optimistic : ~RowMatches(o, t)}
  /\ timers' = {r \in timers : ~RowMatches(r, t)}
  /\ received' = received \ {Who(t)}
  /\ StartRefresh(i)
  /\ UNCHANGED claim

WelcomeNext ==
  \/ \E i \in 1..RefreshMax : Refresh(i) \/ ServeRefresh(i) \/ RefreshAnswered(i)
  \/ \E t \in Record : Claim(t) \/ ClaimRefused(t) \/ Reset(t)
  \/ \E t \in Record, i \in 1..RefreshMax : ClaimAnswered(t, i) \/ ResetAnswered(t, i)

WelcomeSpec == WelcomeInit /\ [][WelcomeNext]_welcome

\* Once this panel has given a player the pack and not taken the mark back, the
\* dialog opened for him by SteamID and name shows it as received and does not
\* offer it again, whatever old or failed answer arrives.
GivenIsNotOffered ==
  \A p \in received : ~MayClaim([steam |-> p, name |-> p])
=============================================================================
