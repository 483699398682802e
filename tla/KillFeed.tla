------------------------------- MODULE KillFeed -------------------------------
(***************************************************************************)
(* The kill feed of the web panel.  The game reports one kill in several   *)
(* rows: a bare line of SCUM.log, which the panel never shows by itself,   *)
(* and detailed ones of a kill_ log, as text and as JSON.  The panel       *)
(* groups the rows by second and victim, joins what looks like the same    *)
(* kill, and derives the statistics of a player from what is left.         *)
(*                                                                         *)
(* Names and SteamIDs are abstracted to the player; a row may lack its     *)
(* killer.  An event carries the set of kills it stands for (history).     *)
(***************************************************************************)
EXTENDS Integers, Sequences, SequencesExt, FiniteSets, FiniteSetsExt, PanelCommon

CONSTANTS
  Moments,            \* bound: the seconds at which kills may happen
  Skews,              \* the seconds by which the logs may differ
  Offsets,            \* the seconds by which the clock of SCUM.log is ahead
  KillMax,            \* bound: kills
  RowMax              \* bound: rows in the answer

Minute == 60
MoscowOffset == 180 * Minute
Window == 30
OffsetWindow == 5 * Minute

ASSUME FeedConstantsOK == Moments \cup Skews \cup Offsets \subseteq Int /\ KillMax \in Nat /\ RowMax \in Nat

VARIABLES
  happened,           \* the kills, in order of time (history)
  offset,             \* how far the clock of SCUM.log is ahead of the kill_ logs
  inLogs,             \* what the logs say of each kill: its rows
  killRows            \* what /api/kills answers

feedVars == <<happened, offset, inLogs, killRows>>

Kind == {"line", "detail"}
KillRow == {"line", "text", "json"}
KindOf(row) == IF row = "line" THEN "line" ELSE "detail"
Kill == [victim : Person, killer : Person, time : Moments]
Event == [victim : Person, killer : Person \cup {None}, time : Int, kind : Kind,
          of : SUBSET (1..KillMax)]

FeedTypeOK ==
  /\ happened \in Seq(Kill) /\ Len(happened) <= KillMax
  /\ offset \in Offsets
  /\ inLogs \in [DOMAIN happened -> SUBSET KillRow]
  /\ killRows \in Seq(Event)

FeedInit ==
  /\ happened = <<>> /\ inLogs = <<>>
  /\ offset \in Offsets
  /\ killRows = <<>>

\* killEventQuality: a bare line has neither weapon, distance nor locations.
Quality(e) == IF e.kind = "line" THEN 0 ELSE 42
Weak(e) == Quality(e) < 20
\* isTransientServerKillEvent
Transient(e) == e.kind = "line"

\* Mutant: the details of the better row are not taken.
MergeKillerOnly(l, r) ==
  [l EXCEPT !.killer = IF @ = None THEN r.killer ELSE @, !.of = @ \cup r.of]

\* mergeKillEvents: the first keeps its time, the better one gives the details.
MergeKillEvents(l, r) ==
  [l EXCEPT !.killer = IF @ = None THEN r.killer ELSE @,
            !.kind = IF Quality(r) > Quality(l) THEN r.kind ELSE @,
            !.of = @ \cup r.of]

\* killTimestampLooksDuplicate: near, or three hours apart.
Distance(a, b) == IF a < b THEN b - a ELSE a - b
TimestampLooksDuplicate(a, b) ==
  \/ Distance(a, b) <= Window
  \/ Distance(Distance(a, b), MoscowOffset) <= OffsetWindow
ParticipantsLookSame(l, r) ==
  /\ l.victim = r.victim
  /\ \/ l.killer = r.killer \/ None \in {l.killer, r.killer}
     \/ l.killer = l.victim \/ r.killer = r.victim
\* Every row is of one of the logs, so nothing else is asked of a duplicate.
LikelyDuplicate(l, r) == TimestampLooksDuplicate(l.time, r.time) /\ ParticipantsLookSame(l, r)

SameGroup(l, r) == l.time = r.time /\ l.victim = r.victim

\* Joins an event with the first one of a list that is like it, or appends it.
Join(list, e, Like(_, _)) ==
  LET like == {i \in DOMAIN list : Like(list[i], e)}
  IN  IF like = {} THEN Append(list, e)
      ELSE [list EXCEPT ![Min(like)] = MergeKillEvents(@, e)]
\* Puts an event into a sorted list, behind those that it is not to come before.
Insert(list, e, Before(_, _)) ==
  InsertAt(list, Cardinality({i \in DOMAIN list : ~Before(e, list[i])}) + 1, e)

\* The loops of the panel over a list of events, each with what it has gathered.
Gathered(list, Step(_, _)) ==
  LET upTo[i \in 0..Len(list)] == IF i = 0 THEN <<>> ELSE Step(upTo[i - 1], list[i])
  IN  upTo[Len(list)]

Grouped(list) == Gathered(list, LAMBDA s, e : Join(s, e, SameGroup))
Joined(list) == Gathered(list, LAMBDA s, e : Join(s, e, LikelyDuplicate))
Newer(e, o) == e.time > o.time
SortDesc(list) == Gathered(list, LAMBDA s, e : Insert(s, e, Newer))
IsUseful(e, list) ==
  /\ ~Transient(e)
  /\ Weak(e) => \A o \in Range(list) : o = e \/ Weak(o) \/ ~LikelyDuplicate(e, o)
Useful(list) == Gathered(list, LAMBDA s, e : IF IsUseful(e, list) THEN Append(s, e) ELSE s)

NormalizeKillEvents(list) == SortDesc(Useful(Joined(SortDesc(Grouped(list)))))

\* refreshKills may come at any moment, so state.kills is the normal form of any
\* value of rows; collectKillEvents normalises it once more.
RefreshedKills == NormalizeKillEvents(killRows)
ShownKills == NormalizeKillEvents(RefreshedKills)

\* The time stamps of the rows of a kill.
Stamps(time) == {time} \cup {time + offset + skew : skew \in Skews}

Happen(k) ==
  /\ Len(happened) < KillMax
  /\ \A i \in DOMAIN happened : happened[i].time <= k.time
  /\ happened' = Append(happened, k)
  /\ inLogs' = Append(inLogs, {})
  /\ UNCHANGED <<offset, killRows>>

\* A row reaches the answer: of SCUM.log, maybe without the killer, or one of the two of a
\* kill_ log, which have the same stamp.
LogKill(i, row) ==
  /\ row \notin inLogs[i] /\ Len(killRows) < RowMax
  /\ inLogs' = [inLogs EXCEPT ![i] = @ \cup {row}]
  /\ \E skew \in Skews, killer \in {happened[i].killer, None} :
       /\ row # "line" => killer # None
       /\ killRows' = Append(killRows,
            [victim |-> happened[i].victim, killer |-> killer, kind |-> KindOf(row), of |-> {i},
             time |-> happened[i].time + (IF row = "line" THEN offset + skew ELSE 0)])
  /\ UNCHANGED <<happened, offset>>

FeedNext ==
  \/ \E k \in Kill : Happen(k)
  \/ \E i \in DOMAIN happened, row \in KillRow : LogKill(i, row)

FeedSpec == FeedInit /\ [][FeedNext]_feedVars

\* Mutant: a death does not end the streak.
CountKeepingStreak(p, s, e) ==
  CASE e.killer = p /\ e.victim # p ->
         [s EXCEPT !.kills = @ + 1, !.current = @ + 1,
                   !.best = IF s.current + 1 > @ THEN s.current + 1 ELSE @]
    [] e.victim = p -> [s EXCEPT !.deaths = @ + 1]
    [] OTHER -> s

\* buildPlayerCombatStats: what an event counts for, and the loop over the events from the
\* oldest to the newest.
Count(p, s, e) ==
  CASE e.killer = p /\ e.victim # p ->
         [s EXCEPT !.kills = @ + 1, !.current = @ + 1,
                   !.best = IF s.current + 1 > @ THEN s.current + 1 ELSE @]
    [] e.victim = p -> [s EXCEPT !.deaths = @ + 1, !.current = 0]
    [] OTHER -> s
Older(e, o) == e.time < o.time
SortAsc(list) == Gathered(list, LAMBDA s, e : Insert(s, e, Older))
CombatStats(p) ==
  LET events == SortAsc(ShownKills)
      stats[i \in 0..Len(events)] ==
        IF i = 0 THEN [kills |-> 0, deaths |-> 0, current |-> 0, best |-> 0]
        ELSE Count(p, stats[i - 1], events[i])
  IN  stats[Len(events)]

-----------------------------------------------------------------------------
\* The stamps tell the kills of one victim apart: the panel takes two kills of which some
\* rows look like duplicates for one.
Apart(a, b) == \A t \in Stamps(a), u \in Stamps(b) : ~TimestampLooksDuplicate(t, u)
ToldApart ==
  \A i, j \in DOMAIN happened :
    i # j /\ happened[i].victim = happened[j].victim => Apart(happened[i].time, happened[j].time)

\* However the rows of the logs are ordered, doubled or late, no kill with a detailed row in
\* the answer is dropped: an event of the feed stands for it.  When the stamps tell the kills
\* apart, an event stands for one kill, and no kill is shown twice.
OneEventPerKill ==
  LET shown == ShownKills
  IN  /\ \A i \in DOMAIN killRows :
           ~Weak(killRows[i]) => \E j \in DOMAIN shown : killRows[i].of \subseteq shown[j].of
      /\ ToldApart =>
           /\ \A i \in DOMAIN shown : Cardinality(shown[i].of) = 1
           /\ \A i, j \in DOMAIN shown : i # j => shown[i].of # shown[j].of

KillsOf(p, from, to) ==
  Cardinality({i \in from..to : happened[i].killer = p /\ happened[i].victim # p})
DeathsOf(p, from, to) == Cardinality({i \in from..to : happened[i].victim = p})
\* The kills of the stretches without a death that end at one of these kills.
Streaks(p, ends) ==
  {KillsOf(p, ab[1], ab[2]) :
     ab \in {ab \in (1..Len(happened)) \X ends : DeathsOf(p, ab[1], ab[2]) = 0}} \cup {0}
Detailed == \A i \in DOMAIN happened : \E j \in DOMAIN killRows : ~Weak(killRows[j]) /\ i \in killRows[j].of
\* Every row of a kill has an earlier time stamp than every row of a later one.
InOrder ==
  \A i, j \in DOMAIN happened : i < j =>
    \A t \in Stamps(happened[i].time), u \in Stamps(happened[j].time) : t < u
\* With every kill in detail, and kills that the stamps tell apart and do not put into another
\* order, the statistics are those of the kills that happened: the streak counts the kills
\* since the last death, and the best one is the longest stretch of kills without a death.
StatsAreTrue ==
  ToldApart /\ InOrder /\ Detailed =>
    \A p \in Person :
      LET last == Len(happened)
      IN  CombatStats(p) = [kills |-> KillsOf(p, 1, last), deaths |-> DeathsOf(p, 1, last),
                            current |-> Max(Streaks(p, {last})), best |-> Max(Streaks(p, 1..last))]
=============================================================================
