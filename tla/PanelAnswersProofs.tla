-------------------------- MODULE PanelAnswersProofs --------------------------
(***************************************************************************)
(* What the panel makes of the rows it is answered: the kill feed shows    *)
(* one event of each kill, and the rows that are saved from a cut answer   *)
(* are whole.                                                              *)
(*                                                                         *)
(* Both are loops over a sequence.  What a loop has gathered is a function *)
(* that PanelLemmas shows to exist, and what holds of it is proved by      *)
(* induction over the places it has passed.                                *)
(***************************************************************************)
EXTENDS CutAnswer, KillFeed, PanelLemmas, FiniteSetTheorems

-----------------------------------------------------------------------------
(* Numbers. *)

\* A number of a set that no other one exceeds is its maximum.
IsMax(set, m) == m \in set /\ \A y \in set : y <= m

LEMMA MaxIs ==
  ASSUME NEW set, set \subseteq Nat, NEW m, IsMax(set, m)
  PROVE  Max(set) = m
<1>1. m \in set /\ \A y \in set : m >= y
  BY DEF IsMax
<1>2. \A x \in set : (\A y \in set : x >= y) => x = m
  BY <1>1
<1> QED
  BY <1>1, <1>2 DEF Max

\* How many numbers there are up to one.
LEMMA UpToSize ==
  ASSUME NEW n \in Nat
  PROVE  IsFiniteSet(1..n) /\ Cardinality(1..n) = n
<1>1. Cardinality(1..n) = IF 1 > n THEN 0 ELSE n - 1 + 1
  BY FS_Interval
<1> QED
  BY <1>1, FS_Interval

\* What is counted in an interval that has one more number.
LEMMA CountStep ==
  ASSUME NEW set, NEW a \in Nat, NEW b \in Nat, NEW in, NEW next,
         in = {i \in a..b : i \in set}, next = {i \in a..(b + 1) : i \in set}
  PROVE  /\ Cardinality(in) \in Nat
         /\ a > b => Cardinality(in) = 0
         /\ Cardinality(next) = IF a <= b + 1 /\ b + 1 \in set THEN Cardinality(in) + 1 ELSE Cardinality(in)
<1>1. IsFiniteSet(in)
  <2>1. IsFiniteSet(a..b) /\ in \subseteq a..b
    BY FS_Interval
  <2> QED
    BY <2>1, FS_Subset
<1>2. Cardinality(in) \in Nat
  BY <1>1, FS_CardinalityType
<1>3. ASSUME a > b PROVE Cardinality(in) = 0
  <2>1. in = {}
    BY <1>3
  <2> QED
    BY <2>1, FS_EmptySet
<1>4. CASE a <= b + 1 /\ b + 1 \in set
  <2>1. next = in \cup {b + 1} /\ b + 1 \notin in
    BY <1>4
  <2>2. Cardinality(next) = Cardinality(in) + 1
    BY <1>1, <2>1, FS_AddElement
  <2> QED
    BY <1>2, <1>3, <1>4, <2>2
<1>5. CASE ~(a <= b + 1 /\ b + 1 \in set)
  <2>1. next = in
    BY <1>5
  <2> QED
    BY <1>2, <1>3, <1>5, <2>1
<1> QED
  BY <1>4, <1>5

\* A set of numbers that has, with each, the smaller ones is an interval.
LEMMA InitialSegment ==
  ASSUME NEW n \in Nat, NEW set \in SUBSET (1..n),
         \A i, j \in 1..n : i < j /\ j \in set => i \in set
  PROVE  Cardinality(set) \in 0..n /\ set = 1..Cardinality(set)
<1> DEFINE P == {k \in Nat : k <= n => \E m \in 0..k : {i \in 1..k : i \in set} = 1..m}
<1>1. 0 \in P
  OBVIOUS
<1>2. ASSUME NEW k \in Nat, k \in P PROVE k + 1 \in P
  <2> SUFFICES ASSUME k + 1 <= n PROVE \E m \in 0..(k + 1) : {i \in 1..(k + 1) : i \in set} = 1..m
    OBVIOUS
  <2>1. PICK m \in 0..k : {i \in 1..k : i \in set} = 1..m
    BY <1>2
  <2>2. CASE k + 1 \in set
    <3>1. \A i \in 1..(k + 1) : i = k + 1 \/ i < k + 1
      OBVIOUS
    <3>2. \A i \in 1..(k + 1) : i \in set
      BY <2>2, <3>1
    <3> QED
      BY <3>2
  <2>3. CASE k + 1 \notin set
    <3>1. {i \in 1..(k + 1) : i \in set} = 1..m
      BY <2>1, <2>3
    <3> QED
      BY <3>1
  <2> QED
    BY <2>2, <2>3
<1> HIDE DEF P
<1>3. n \in P
  BY <1>1, <1>2, NatInd
<1>4. PICK m \in 0..n : {i \in 1..n : i \in set} = 1..m
  BY <1>3 DEF P
<1>5. set = 1..m
  BY <1>4
<1> QED
  BY <1>5, UpToSize

\* A sequence of rising numbers that misses none up to n counts up to n.
Rises(f, L, n) ==
  /\ n \in Nat /\ L \in Nat /\ f \in [1..L -> 1..n]
  /\ \A i, j \in 1..L : i < j => f[i] < f[j]
  /\ \A k \in 1..n : \E i \in 1..L : f[i] = k

LEMMA RisingOnto ==
  ASSUME NEW n, NEW L, NEW f, Rises(f, L, n)
  PROVE  L = n /\ \A i \in 1..L : f[i] = i
<1>0. /\ n \in Nat /\ L \in Nat /\ f \in [1..L -> 1..n]
      /\ \A i, j \in 1..L : i < j => f[i] < f[j]
      /\ \A k \in 1..n : \E i \in 1..L : f[i] = k
  BY DEF Rises
<1> DEFINE P == {k \in Nat : \A i \in 1..L : i <= k => f[i] = i}
<1>1. 0 \in P
  BY <1>0
<1>2. ASSUME NEW k \in Nat, k \in P PROVE k + 1 \in P
  <2> SUFFICES ASSUME k + 1 <= L PROVE f[k + 1] = k + 1
    BY <1>0, <1>2
  <2>1. k + 1 \in 1..L /\ f[k + 1] \in 1..n
    BY <1>0
  <2>2. f[k + 1] >= k + 1
    <3>1. CASE k = 0
      BY <2>1, <3>1
    <3>2. CASE k # 0
      <4>1. k \in 1..L /\ f[k] = k /\ f[k] < f[k + 1]
        BY <1>0, <1>2, <2>1, <3>2
      <4> QED
        BY <2>1, <4>1
    <3> QED
      BY <3>1, <3>2
  <2>3. PICK j \in 1..L : f[j] = k + 1
    <3>1. k + 1 \in 1..n
      BY <1>0, <2>1, <2>2
    <3> QED
      BY <1>0, <3>1
  <2>4. ~(j <= k)
    BY <1>0, <1>2, <2>3
  <2>5. ~(k + 1 < j)
    BY <1>0, <2>1, <2>2, <2>3
  <2>6. j = k + 1
    BY <1>0, <2>4, <2>5
  <2> QED
    BY <2>3, <2>6
<1> HIDE DEF P
<1>3. L \in P
  BY <1>0, <1>1, <1>2, NatInd
<1>4. \A i \in 1..L : f[i] = i
  BY <1>0, <1>3 DEF P
<1>5. L <= n
  <2>1. L # 0 => L \in 1..L /\ f[L] = L /\ f[L] \in 1..n
    BY <1>0, <1>4
  <2> QED
    BY <1>0, <2>1
<1>6. n <= L
  <2>1. n # 0 => \E i \in 1..L : f[i] = n
    BY <1>0
  <2> QED
    BY <1>0, <1>4, <2>1
<1> QED
  BY <1>0, <1>4, <1>5, <1>6

-----------------------------------------------------------------------------
(* The loops over a list of events, and the steps they take. *)

\* Merging two events gives an event with what both stand for.
LEMMA MergeIs ==
  ASSUME NEW l \in Event, NEW r \in Event
  PROVE  /\ MergeKillEvents(l, r) \in Event
         /\ MergeKillEvents(l, r).victim = l.victim /\ MergeKillEvents(l, r).time = l.time
         /\ MergeKillEvents(l, r).of = l.of \cup r.of
         /\ MergeKillEvents(l, r).kind = IF "detail" \in {l.kind, r.kind} THEN "detail" ELSE "line"
         /\ MergeKillEvents(l, r).killer = IF l.killer = None THEN r.killer ELSE l.killer
<1>1. PICK killer \in Person \cup {None} : killer = IF l.killer = None THEN r.killer ELSE l.killer
  BY DEF Event
<1>2. PICK kind \in Kind : kind = IF Quality(r) > Quality(l) THEN r.kind ELSE l.kind
  BY DEF Event
<1>3. PICK of \in SUBSET (1..KillMax) : of = l.of \cup r.of
  BY DEF Event
<1>4. MergeKillEvents(l, r) = [l EXCEPT !.killer = killer, !.kind = kind, !.of = of]
  BY <1>1, <1>2, <1>3 DEF MergeKillEvents
<1>5. kind = IF "detail" \in {l.kind, r.kind} THEN "detail" ELSE "line"
  <2>1. l.kind \in {"line", "detail"} /\ r.kind \in {"line", "detail"}
    BY DEF Event, Kind
  <2> QED
    BY <1>2, <2>1 DEF Quality
<1>6. [l EXCEPT !.killer = killer, !.kind = kind, !.of = of] \in Event
  BY DEF Event
<1> QED
  BY <1>1, <1>3, <1>4, <1>5, <1>6 DEF Event

\* What joining gives is a list of events, whatever is like the event.
LEMMA JoinTyped ==
  ASSUME NEW s \in Seq(Event), NEW e \in Event, NEW like, like \subseteq DOMAIN s,
         NEW t, t = IF like = {} THEN Append(s, e)
                    ELSE [s EXCEPT ![Min(like)] = MergeKillEvents(@, e)]
  PROVE  t \in Seq(Event)
<1>1. CASE like = {}
  BY <1>1
<1>2. CASE like # {}
  <2>1. PICK m \in DOMAIN s : m = Min(like)
    BY <1>2, MinIs
  <2>2. PICK e2 \in Event : e2 = MergeKillEvents(s[m], e)
    BY <2>1, MergeIs
  <2>3. t = [s EXCEPT ![m] = e2]
    BY <1>2, <2>1, <2>2
  <2>4. m \in 1..Len(s)
    OBVIOUS
  <2>5. [s EXCEPT ![m] = e2] \in Seq(Event)
    BY <2>4, ExceptSeq
  <2> QED
    BY <2>3, <2>5
<1> QED
  BY <1>1, <1>2

\* Insert puts the event at some place.
LEMMA InsertPlace ==
  ASSUME NEW s \in Seq(Event), NEW e \in Event
  PROVE  \E at \in 1..(Len(s) + 1) : Insert(s, e, Newer) = InsertAt(s, at, e)
<1> DEFINE B == {i \in DOMAIN s : ~Newer(e, s[i])}
<1>1. Len(s) \in Nat /\ DOMAIN s = 1..Len(s)
  OBVIOUS
<1>2. IsFiniteSet(1..Len(s)) /\ Cardinality(1..Len(s)) = Len(s)
  <2>1. Cardinality(1..Len(s)) = IF 1 > Len(s) THEN 0 ELSE Len(s) - 1 + 1
    BY <1>1, FS_Interval
  <2> QED
    BY <1>1, <2>1, FS_Interval
<1>3. B \in SUBSET (1..Len(s))
  BY <1>1
<1>4. Insert(s, e, Newer) = InsertAt(s, Cardinality(B) + 1, e)
  BY DEF Insert
<1> HIDE DEF B
<1>5. IsFiniteSet(B) /\ Cardinality(B) <= Len(s)
  BY <1>2, <1>3, FS_Subset
<1>6. Cardinality(B) \in Nat
  BY <1>5, FS_CardinalityType
<1>7. Cardinality(B) + 1 \in 1..(Len(s) + 1)
  BY <1>1, <1>5, <1>6
<1> QED
  BY <1>4, <1>7

\* So does the sort from the oldest to the newest.
LEMMA OlderPlace ==
  ASSUME NEW s \in Seq(Event), NEW e \in Event
  PROVE  \E at \in 1..(Len(s) + 1) : Insert(s, e, Older) = InsertAt(s, at, e)
<1> DEFINE B == {i \in DOMAIN s : ~Older(e, s[i])}
<1>1. Len(s) \in Nat /\ DOMAIN s = 1..Len(s)
  OBVIOUS
<1>2. IsFiniteSet(1..Len(s)) /\ Cardinality(1..Len(s)) = Len(s)
  <2>1. Cardinality(1..Len(s)) = IF 1 > Len(s) THEN 0 ELSE Len(s) - 1 + 1
    BY <1>1, FS_Interval
  <2> QED
    BY <1>1, <2>1, FS_Interval
<1>3. B \in SUBSET (1..Len(s))
  BY <1>1
<1>4. Insert(s, e, Older) = InsertAt(s, Cardinality(B) + 1, e)
  BY DEF Insert
<1> HIDE DEF B
<1>5. IsFiniteSet(B) /\ Cardinality(B) <= Len(s)
  BY <1>2, <1>3, FS_Subset
<1>6. Cardinality(B) \in Nat
  BY <1>5, FS_CardinalityType
<1>7. Cardinality(B) + 1 \in 1..(Len(s) + 1)
  BY <1>1, <1>5, <1>6
<1> QED
  BY <1>4, <1>7

\* The loop that groups the rows, as a function of the places it has passed.
LEMMA GroupedLoop ==
  ASSUME NEW list \in Seq(Event)
  PROVE  \E f \in [0..Len(list) -> Seq(Event)] :
           /\ Grouped(list) = f[Len(list)] /\ f[0] = <<>>
           /\ \A i \in 1..Len(list) : f[i] = Join(f[i - 1], list[i], SameGroup)
<1> DEFINE V == Seq(Event)
           n == Len(list)
           g == [y \in (1..n) \X V |-> Join(y[2], list[y[1]], SameGroup)]
<1>1. n \in Nat /\ <<>> \in V /\ \A i \in 1..n : list[i] \in Event
  OBVIOUS
<1>2. ASSUME NEW s \in V, NEW e \in Event PROVE Join(s, e, SameGroup) \in V
  <2> DEFINE like == {i \in DOMAIN s : SameGroup(s[i], e)}
             t == Join(s, e, SameGroup)
  <2>1. like \subseteq DOMAIN s /\ t = IF like = {} THEN Append(s, e)
                                       ELSE [s EXCEPT ![Min(like)] = MergeKillEvents(@, e)]
    BY DEF Join
  <2> HIDE DEF like, t
  <2>2. t \in Seq(Event)
    BY <2>1, JoinTyped
  <2> QED
    BY <2>2 DEF t
<1> HIDE DEF V
<1>3. g \in [(1..n) \X V -> V]
  BY <1>1, <1>2
<1>4. PICK f \in [0..n -> V] : f[0] = <<>> /\ \A i \in 1..n : f[i] = g[<<i, f[i - 1]>>]
  <2> HIDE DEF n, g
  <2>1. LoopBody(V, n, <<>>, g)
    BY <1>1, <1>3 DEF LoopBody
  <2> QED
    BY <2>1, Loop
<1>5. ASSUME NEW i \in 1..n PROVE f[i] = Join(f[i - 1], list[i], SameGroup)
  <2>1. i - 1 \in 0..n
    BY <1>1
  <2>2. <<i, f[i - 1]>> \in (1..n) \X V
    BY <2>1
  <2> QED
    BY <1>4, <2>2
<1> DEFINE upTo[i \in 0..Len(list)] == IF i = 0 THEN <<>> ELSE Join(upTo[i - 1], list[i], SameGroup)
<1>6. f = [i \in 0..Len(list) |-> IF i = 0 THEN <<>> ELSE Join(f[i - 1], list[i], SameGroup)]
  <2>1. \A i \in 0..n : f[i] = IF i = 0 THEN <<>> ELSE Join(f[i - 1], list[i], SameGroup)
    <3> TAKE i \in 0..n
    <3>1. i = 0 \/ i \in 1..n
      BY <1>1
    <3> QED
      BY <1>4, <1>5, <3>1
  <2> QED
    BY <2>1
<1>7. upTo = [i \in 0..Len(list) |-> IF i = 0 THEN <<>> ELSE Join(upTo[i - 1], list[i], SameGroup)]
  BY <1>6
<1>8. Grouped(list) = upTo[Len(list)]
  BY DEF Grouped, Gathered
<1> HIDE DEF upTo
<1>9. upTo[0] = <<>> /\ \A i \in 1..n : upTo[i] = Join(upTo[i - 1], list[i], SameGroup)
  <2>1. 0 \in 0..Len(list) /\ \A i \in 1..n : i \in 0..Len(list) /\ i # 0
    BY <1>1
  <2> QED
    BY <1>7, <2>1
<1>10. upTo \in [0..Len(list) -> V]
  <2> DEFINE P == {i \in Nat : i <= n => upTo[i] \in V}
  <2>1. 0 \in P
    BY <1>1, <1>9
  <2>2. ASSUME NEW i \in Nat, i \in P PROVE i + 1 \in P
    <3> SUFFICES ASSUME i + 1 <= n PROVE upTo[i + 1] \in V
      OBVIOUS
    <3>1. i + 1 \in 1..n /\ (i + 1) - 1 = i /\ i <= n
      BY <1>1
    <3>2. upTo[i] \in V /\ upTo[i + 1] = Join(upTo[i], list[i + 1], SameGroup)
      BY <1>9, <2>2, <3>1
    <3> QED
      BY <1>1, <1>2, <3>1, <3>2
  <2> HIDE DEF P
  <2>3. Nat \subseteq P
    BY <2>1, <2>2, NatInd
  <2>4. \A i \in 0..n : upTo[i] \in V
    BY <1>1, <2>3 DEF P
  <2> QED
    BY <1>7, <2>4
<1> QED
  BY <1>8, <1>9, <1>10 DEF V

\* So is the loop that joins the duplicates,
LEMMA JoinedLoop ==
  ASSUME NEW list \in Seq(Event)
  PROVE  \E f \in [0..Len(list) -> Seq(Event)] :
           /\ Joined(list) = f[Len(list)] /\ f[0] = <<>>
           /\ \A i \in 1..Len(list) : f[i] = Join(f[i - 1], list[i], LikelyDuplicate)
<1> DEFINE V == Seq(Event)
           n == Len(list)
           g == [y \in (1..n) \X V |-> Join(y[2], list[y[1]], LikelyDuplicate)]
<1>1. n \in Nat /\ <<>> \in V /\ \A i \in 1..n : list[i] \in Event
  OBVIOUS
<1>2. ASSUME NEW s \in V, NEW e \in Event PROVE Join(s, e, LikelyDuplicate) \in V
  <2> DEFINE like == {i \in DOMAIN s : LikelyDuplicate(s[i], e)}
             t == Join(s, e, LikelyDuplicate)
  <2>1. like \subseteq DOMAIN s /\ t = IF like = {} THEN Append(s, e)
                                       ELSE [s EXCEPT ![Min(like)] = MergeKillEvents(@, e)]
    BY DEF Join
  <2> HIDE DEF like, t
  <2>2. t \in Seq(Event)
    BY <2>1, JoinTyped
  <2> QED
    BY <2>2 DEF t
<1> HIDE DEF V
<1>3. g \in [(1..n) \X V -> V]
  BY <1>1, <1>2
<1>4. PICK f \in [0..n -> V] : f[0] = <<>> /\ \A i \in 1..n : f[i] = g[<<i, f[i - 1]>>]
  <2> HIDE DEF n, g
  <2>1. LoopBody(V, n, <<>>, g)
    BY <1>1, <1>3 DEF LoopBody
  <2> QED
    BY <2>1, Loop
<1>5. ASSUME NEW i \in 1..n PROVE f[i] = Join(f[i - 1], list[i], LikelyDuplicate)
  <2>1. i - 1 \in 0..n
    BY <1>1
  <2>2. <<i, f[i - 1]>> \in (1..n) \X V
    BY <2>1
  <2> QED
    BY <1>4, <2>2
<1> DEFINE upTo[i \in 0..Len(list)] == IF i = 0 THEN <<>> ELSE Join(upTo[i - 1], list[i], LikelyDuplicate)
<1>6. f = [i \in 0..Len(list) |-> IF i = 0 THEN <<>> ELSE Join(f[i - 1], list[i], LikelyDuplicate)]
  <2>1. \A i \in 0..n : f[i] = IF i = 0 THEN <<>> ELSE Join(f[i - 1], list[i], LikelyDuplicate)
    <3> TAKE i \in 0..n
    <3>1. i = 0 \/ i \in 1..n
      BY <1>1
    <3> QED
      BY <1>4, <1>5, <3>1
  <2> QED
    BY <2>1
<1>7. upTo = [i \in 0..Len(list) |-> IF i = 0 THEN <<>> ELSE Join(upTo[i - 1], list[i], LikelyDuplicate)]
  BY <1>6
<1>8. Joined(list) = upTo[Len(list)]
  BY DEF Joined, Gathered
<1> HIDE DEF upTo
<1>9. upTo[0] = <<>> /\ \A i \in 1..n : upTo[i] = Join(upTo[i - 1], list[i], LikelyDuplicate)
  <2>1. 0 \in 0..Len(list) /\ \A i \in 1..n : i \in 0..Len(list) /\ i # 0
    BY <1>1
  <2> QED
    BY <1>7, <2>1
<1>10. upTo \in [0..Len(list) -> V]
  <2> DEFINE P == {i \in Nat : i <= n => upTo[i] \in V}
  <2>1. 0 \in P
    BY <1>1, <1>9
  <2>2. ASSUME NEW i \in Nat, i \in P PROVE i + 1 \in P
    <3> SUFFICES ASSUME i + 1 <= n PROVE upTo[i + 1] \in V
      OBVIOUS
    <3>1. i + 1 \in 1..n /\ (i + 1) - 1 = i /\ i <= n
      BY <1>1
    <3>2. upTo[i] \in V /\ upTo[i + 1] = Join(upTo[i], list[i + 1], LikelyDuplicate)
      BY <1>9, <2>2, <3>1
    <3> QED
      BY <1>1, <1>2, <3>1, <3>2
  <2> HIDE DEF P
  <2>3. Nat \subseteq P
    BY <2>1, <2>2, NatInd
  <2>4. \A i \in 0..n : upTo[i] \in V
    BY <1>1, <2>3 DEF P
  <2> QED
    BY <1>7, <2>4
<1> QED
  BY <1>8, <1>9, <1>10 DEF V

\* the sort,
LEMMA SortDescLoop ==
  ASSUME NEW list \in Seq(Event)
  PROVE  \E f \in [0..Len(list) -> Seq(Event)] :
           /\ SortDesc(list) = f[Len(list)] /\ f[0] = <<>>
           /\ \A i \in 1..Len(list) : f[i] = Insert(f[i - 1], list[i], Newer)
<1> DEFINE V == Seq(Event)
           n == Len(list)
           g == [y \in (1..n) \X V |-> Insert(y[2], list[y[1]], Newer)]
<1>1. n \in Nat /\ <<>> \in V /\ \A i \in 1..n : list[i] \in Event
  OBVIOUS
<1>2. ASSUME NEW s \in V, NEW e \in Event PROVE Insert(s, e, Newer) \in V
  BY InsertPlace, InsertAtIs
<1> HIDE DEF V
<1>3. g \in [(1..n) \X V -> V]
  BY <1>1, <1>2
<1>4. PICK f \in [0..n -> V] : f[0] = <<>> /\ \A i \in 1..n : f[i] = g[<<i, f[i - 1]>>]
  <2> HIDE DEF n, g
  <2>1. LoopBody(V, n, <<>>, g)
    BY <1>1, <1>3 DEF LoopBody
  <2> QED
    BY <2>1, Loop
<1>5. ASSUME NEW i \in 1..n PROVE f[i] = Insert(f[i - 1], list[i], Newer)
  <2>1. i - 1 \in 0..n
    BY <1>1
  <2>2. <<i, f[i - 1]>> \in (1..n) \X V
    BY <2>1
  <2> QED
    BY <1>4, <2>2
<1> DEFINE upTo[i \in 0..Len(list)] == IF i = 0 THEN <<>> ELSE Insert(upTo[i - 1], list[i], Newer)
<1>6. f = [i \in 0..Len(list) |-> IF i = 0 THEN <<>> ELSE Insert(f[i - 1], list[i], Newer)]
  <2>1. \A i \in 0..n : f[i] = IF i = 0 THEN <<>> ELSE Insert(f[i - 1], list[i], Newer)
    <3> TAKE i \in 0..n
    <3>1. i = 0 \/ i \in 1..n
      BY <1>1
    <3> QED
      BY <1>4, <1>5, <3>1
  <2> QED
    BY <2>1
<1>7. upTo = [i \in 0..Len(list) |-> IF i = 0 THEN <<>> ELSE Insert(upTo[i - 1], list[i], Newer)]
  BY <1>6
<1>8. SortDesc(list) = upTo[Len(list)]
  BY DEF SortDesc, Gathered
<1> HIDE DEF upTo
<1>9. upTo[0] = <<>> /\ \A i \in 1..n : upTo[i] = Insert(upTo[i - 1], list[i], Newer)
  <2>1. 0 \in 0..Len(list) /\ \A i \in 1..n : i \in 0..Len(list) /\ i # 0
    BY <1>1
  <2> QED
    BY <1>7, <2>1
<1>10. upTo \in [0..Len(list) -> V]
  <2> DEFINE P == {i \in Nat : i <= n => upTo[i] \in V}
  <2>1. 0 \in P
    BY <1>1, <1>9
  <2>2. ASSUME NEW i \in Nat, i \in P PROVE i + 1 \in P
    <3> SUFFICES ASSUME i + 1 <= n PROVE upTo[i + 1] \in V
      OBVIOUS
    <3>1. i + 1 \in 1..n /\ (i + 1) - 1 = i /\ i <= n
      BY <1>1
    <3>2. upTo[i] \in V /\ upTo[i + 1] = Insert(upTo[i], list[i + 1], Newer)
      BY <1>9, <2>2, <3>1
    <3> QED
      BY <1>1, <1>2, <3>1, <3>2
  <2> HIDE DEF P
  <2>3. Nat \subseteq P
    BY <2>1, <2>2, NatInd
  <2>4. \A i \in 0..n : upTo[i] \in V
    BY <1>1, <2>3 DEF P
  <2> QED
    BY <1>7, <2>4
<1> QED
  BY <1>8, <1>9, <1>10 DEF V

\* the sort of the statistics,
LEMMA SortAscLoop ==
  ASSUME NEW list \in Seq(Event)
  PROVE  \E f \in [0..Len(list) -> Seq(Event)] :
           /\ SortAsc(list) = f[Len(list)] /\ f[0] = <<>>
           /\ \A i \in 1..Len(list) : f[i] = Insert(f[i - 1], list[i], Older)
<1> DEFINE V == Seq(Event)
           n == Len(list)
           g == [y \in (1..n) \X V |-> Insert(y[2], list[y[1]], Older)]
<1>1. n \in Nat /\ <<>> \in V /\ \A i \in 1..n : list[i] \in Event
  OBVIOUS
<1>2. ASSUME NEW s \in V, NEW e \in Event PROVE Insert(s, e, Older) \in V
  BY OlderPlace, InsertAtIs
<1> HIDE DEF V
<1>3. g \in [(1..n) \X V -> V]
  BY <1>1, <1>2
<1>4. PICK f \in [0..n -> V] : f[0] = <<>> /\ \A i \in 1..n : f[i] = g[<<i, f[i - 1]>>]
  <2> HIDE DEF n, g
  <2>1. LoopBody(V, n, <<>>, g)
    BY <1>1, <1>3 DEF LoopBody
  <2> QED
    BY <2>1, Loop
<1>5. ASSUME NEW i \in 1..n PROVE f[i] = Insert(f[i - 1], list[i], Older)
  <2>1. i - 1 \in 0..n
    BY <1>1
  <2>2. <<i, f[i - 1]>> \in (1..n) \X V
    BY <2>1
  <2> QED
    BY <1>4, <2>2
<1> DEFINE upTo[i \in 0..Len(list)] == IF i = 0 THEN <<>> ELSE Insert(upTo[i - 1], list[i], Older)
<1>6. f = [i \in 0..Len(list) |-> IF i = 0 THEN <<>> ELSE Insert(f[i - 1], list[i], Older)]
  <2>1. \A i \in 0..n : f[i] = IF i = 0 THEN <<>> ELSE Insert(f[i - 1], list[i], Older)
    <3> TAKE i \in 0..n
    <3>1. i = 0 \/ i \in 1..n
      BY <1>1
    <3> QED
      BY <1>4, <1>5, <3>1
  <2> QED
    BY <2>1
<1>7. upTo = [i \in 0..Len(list) |-> IF i = 0 THEN <<>> ELSE Insert(upTo[i - 1], list[i], Older)]
  BY <1>6
<1>8. SortAsc(list) = upTo[Len(list)]
  BY DEF SortAsc, Gathered
<1> HIDE DEF upTo
<1>9. upTo[0] = <<>> /\ \A i \in 1..n : upTo[i] = Insert(upTo[i - 1], list[i], Older)
  <2>1. 0 \in 0..Len(list) /\ \A i \in 1..n : i \in 0..Len(list) /\ i # 0
    BY <1>1
  <2> QED
    BY <1>7, <2>1
<1>10. upTo \in [0..Len(list) -> V]
  <2> DEFINE P == {i \in Nat : i <= n => upTo[i] \in V}
  <2>1. 0 \in P
    BY <1>1, <1>9
  <2>2. ASSUME NEW i \in Nat, i \in P PROVE i + 1 \in P
    <3> SUFFICES ASSUME i + 1 <= n PROVE upTo[i + 1] \in V
      OBVIOUS
    <3>1. i + 1 \in 1..n /\ (i + 1) - 1 = i /\ i <= n
      BY <1>1
    <3>2. upTo[i] \in V /\ upTo[i + 1] = Insert(upTo[i], list[i + 1], Older)
      BY <1>9, <2>2, <3>1
    <3> QED
      BY <1>1, <1>2, <3>1, <3>2
  <2> HIDE DEF P
  <2>3. Nat \subseteq P
    BY <2>1, <2>2, NatInd
  <2>4. \A i \in 0..n : upTo[i] \in V
    BY <1>1, <2>3 DEF P
  <2> QED
    BY <1>7, <2>4
<1> QED
  BY <1>8, <1>9, <1>10 DEF V

\* and the filter.
LEMMA UsefulLoop ==
  ASSUME NEW list \in Seq(Event)
  PROVE  \E f \in [0..Len(list) -> Seq(Event)] :
           /\ Useful(list) = f[Len(list)] /\ f[0] = <<>>
           /\ \A i \in 1..Len(list) : f[i] = (IF IsUseful(list[i], list) THEN Append(f[i - 1], list[i]) ELSE f[i - 1])
<1> DEFINE V == Seq(Event)
           n == Len(list)
           g == [y \in (1..n) \X V |-> (IF IsUseful(list[y[1]], list) THEN Append(y[2], list[y[1]]) ELSE y[2])]
<1>1. n \in Nat /\ <<>> \in V /\ \A i \in 1..n : list[i] \in Event
  OBVIOUS
<1>2. ASSUME NEW s \in V, NEW e \in Event PROVE (IF IsUseful(e, list) THEN Append(s, e) ELSE s) \in V
  OBVIOUS
<1> HIDE DEF V
<1>3. g \in [(1..n) \X V -> V]
  BY <1>1, <1>2
<1>4. PICK f \in [0..n -> V] : f[0] = <<>> /\ \A i \in 1..n : f[i] = g[<<i, f[i - 1]>>]
  <2> HIDE DEF n, g
  <2>1. LoopBody(V, n, <<>>, g)
    BY <1>1, <1>3 DEF LoopBody
  <2> QED
    BY <2>1, Loop
<1>5. ASSUME NEW i \in 1..n PROVE f[i] = (IF IsUseful(list[i], list) THEN Append(f[i - 1], list[i]) ELSE f[i - 1])
  <2>1. i - 1 \in 0..n
    BY <1>1
  <2>2. <<i, f[i - 1]>> \in (1..n) \X V
    BY <2>1
  <2> QED
    BY <1>4, <2>2
<1> DEFINE upTo[i \in 0..Len(list)] == IF i = 0 THEN <<>> ELSE (IF IsUseful(list[i], list) THEN Append(upTo[i - 1], list[i]) ELSE upTo[i - 1])
<1>6. f = [i \in 0..Len(list) |-> IF i = 0 THEN <<>> ELSE (IF IsUseful(list[i], list) THEN Append(f[i - 1], list[i]) ELSE f[i - 1])]
  <2>1. \A i \in 0..n : f[i] = IF i = 0 THEN <<>> ELSE (IF IsUseful(list[i], list) THEN Append(f[i - 1], list[i]) ELSE f[i - 1])
    <3> TAKE i \in 0..n
    <3>1. i = 0 \/ i \in 1..n
      BY <1>1
    <3> QED
      BY <1>4, <1>5, <3>1
  <2> QED
    BY <2>1
<1>7. upTo = [i \in 0..Len(list) |-> IF i = 0 THEN <<>> ELSE (IF IsUseful(list[i], list) THEN Append(upTo[i - 1], list[i]) ELSE upTo[i - 1])]
  BY <1>6
<1>8. Useful(list) = upTo[Len(list)]
  BY DEF Useful, Gathered
<1> HIDE DEF upTo
<1>9. upTo[0] = <<>> /\ \A i \in 1..n : upTo[i] = (IF IsUseful(list[i], list) THEN Append(upTo[i - 1], list[i]) ELSE upTo[i - 1])
  <2>1. 0 \in 0..Len(list) /\ \A i \in 1..n : i \in 0..Len(list) /\ i # 0
    BY <1>1
  <2> QED
    BY <1>7, <2>1
<1>10. upTo \in [0..Len(list) -> V]
  <2> DEFINE P == {i \in Nat : i <= n => upTo[i] \in V}
  <2>1. 0 \in P
    BY <1>1, <1>9
  <2>2. ASSUME NEW i \in Nat, i \in P PROVE i + 1 \in P
    <3> SUFFICES ASSUME i + 1 <= n PROVE upTo[i + 1] \in V
      OBVIOUS
    <3>1. i + 1 \in 1..n /\ (i + 1) - 1 = i /\ i <= n
      BY <1>1
    <3>2. upTo[i] \in V /\ upTo[i + 1] = (IF IsUseful(list[i + 1], list) THEN Append(upTo[i], list[i + 1]) ELSE upTo[i])
      BY <1>9, <2>2, <3>1
    <3> QED
      BY <1>1, <1>2, <3>1, <3>2
  <2> HIDE DEF P
  <2>3. Nat \subseteq P
    BY <2>1, <2>2, NatInd
  <2>4. \A i \in 0..n : upTo[i] \in V
    BY <1>1, <2>3 DEF P
  <2> QED
    BY <1>7, <2>4
<1> QED
  BY <1>8, <1>9, <1>10 DEF V

-----------------------------------------------------------------------------
(* What the feed holds. *)

\* An event that stands for one kill, with its victim and the time of one of its rows; a
\* detailed one has the killer too.
Proper(e) ==
  \E k \in DOMAIN happened :
    /\ e.of = {k} /\ e.victim = happened[k].victim
    /\ e.time \in Stamps(happened[k].time)
    /\ e.killer \in {happened[k].killer, None}
    /\ e.kind = "detail" => e.killer = happened[k].killer

\* The details of a list are those of some kills, of each once.
Good(list, kills, kinds) ==
  /\ list \in Seq(Event)
  /\ \A i \in DOMAIN list : Proper(list[i]) /\ list[i].kind \in kinds
  /\ \A i \in DOMAIN list : list[i].kind = "detail" => list[i].of \subseteq kills
  /\ \A k \in kills : \E i \in DOMAIN list : list[i].kind = "detail" /\ list[i].of = {k}
  /\ \A i, j \in DOMAIN list :
       list[i].kind = "detail" /\ list[j].kind = "detail" /\ list[i].of = list[j].of => i = j

\* What an event adds to the kills of which a list has the details.
DetailOf(e) == IF e.kind = "detail" THEN e.of ELSE {}

\* The stamps tell the kills of one victim apart.
KillsApart == offset \in Int /\ happened \in Seq(Kill) /\ ToldApart

\* What the panel takes for the same event is of the same kill.
LEMMA LikeIsSame ==
  ASSUME KillsApart, NEW l, NEW r, Proper(l), Proper(r), LikelyDuplicate(l, r)
  PROVE  l.of = r.of
<1>1. PICK a \in DOMAIN happened :
        l.of = {a} /\ l.victim = happened[a].victim /\ l.time \in Stamps(happened[a].time)
  BY DEF Proper
<1>2. PICK b \in DOMAIN happened :
        r.of = {b} /\ r.victim = happened[b].victim /\ r.time \in Stamps(happened[b].time)
  BY DEF Proper
<1>3. l.victim = r.victim /\ TimestampLooksDuplicate(l.time, r.time)
  BY DEF LikelyDuplicate, ParticipantsLookSame
<1>4. ASSUME a # b PROVE FALSE
  <2>1. Apart(happened[a].time, happened[b].time)
    BY <1>1, <1>2, <1>3, <1>4 DEF KillsApart, ToldApart
  <2> QED
    BY <1>1, <1>2, <1>3, <2>1 DEF Apart
<1> QED
  BY <1>1, <1>2, <1>4

\* So is what has the same second and victim.
LEMMA SameGroupIsSame ==
  ASSUME KillsApart, NEW l \in Event, NEW r \in Event, Proper(l), Proper(r), SameGroup(l, r)
  PROVE  l.of = r.of
<1>1. PICK a \in DOMAIN happened :
        l.of = {a} /\ l.victim = happened[a].victim /\ l.time \in Stamps(happened[a].time)
  BY DEF Proper
<1>2. PICK b \in DOMAIN happened :
        r.of = {b} /\ r.victim = happened[b].victim /\ r.time \in Stamps(happened[b].time)
  BY DEF Proper
<1>3. l.victim = r.victim /\ l.time = r.time /\ l.time \in Int
  BY DEF SameGroup, Event
<1>4. TimestampLooksDuplicate(l.time, r.time)
  <2>1. PICK t \in Int : t = l.time
    BY <1>3
  <2>2. Distance(t, t) <= Window
    BY DEF Distance, Window
  <2> QED
    BY <1>3, <2>1, <2>2 DEF TimestampLooksDuplicate
<1>5. ASSUME a # b PROVE FALSE
  <2>1. Apart(happened[a].time, happened[b].time)
    BY <1>1, <1>2, <1>3, <1>5 DEF KillsApart, ToldApart
  <2> QED
    BY <1>1, <1>2, <1>4, <2>1 DEF Apart
<1> QED
  BY <1>1, <1>2, <1>5

\* A list with one more event, at some place.
Adds(new, list, e, at) ==
  /\ new \in Seq(Event) /\ Len(new) = Len(list) + 1
  /\ at \in 1..Len(new) /\ new[at] = e
  /\ \A j \in 1..Len(list) : new[IF j < at THEN j ELSE j + 1] = list[j]

\* Append adds the event at the end.
LEMMA AppendAdds ==
  ASSUME NEW s \in Seq(Event), NEW e \in Event
  PROVE  Adds(Append(s, e), s, e, Len(s) + 1)
<1>1. /\ Append(s, e) \in Seq(Event) /\ Len(Append(s, e)) = Len(s) + 1
      /\ \A i \in 1..Len(s) : Append(s, e)[i] = s[i]
      /\ Append(s, e)[Len(s) + 1] = e
  BY AppendIs
<1>2. Len(s) + 1 \in 1..(Len(s) + 1) /\ \A i \in 1..Len(s) : i < Len(s) + 1
  OBVIOUS
<1> QED
  BY <1>1, <1>2 DEF Adds

\* An event whose detail the list does not have may be added to it.
LEMMA AddsGood ==
  ASSUME NEW kinds, NEW kills, NEW list, NEW e \in Event, NEW new, NEW at,
         Good(list, kills, kinds) /\ Proper(e) /\ e.kind \in kinds
           /\ DetailOf(e) \cap kills = {} /\ Adds(new, list, e, at)
  PROVE  Good(new, kills \cup DetailOf(e), kinds)
<1> DEFINE n == Len(list)
<1>1. /\ list \in Seq(Event) /\ n \in Nat /\ DOMAIN list = 1..n
      /\ new \in Seq(Event) /\ Len(new) = n + 1 /\ DOMAIN new = 1..(n + 1) /\ at \in 1..(n + 1)
      /\ new[at] = e /\ \A j \in 1..n : new[IF j < at THEN j ELSE j + 1] = list[j]
  BY DEF Good, Adds
<1>2. /\ \A i \in 1..n : Proper(list[i]) /\ list[i].kind \in kinds
      /\ \A i \in 1..n : list[i].kind = "detail" => list[i].of \subseteq kills
      /\ \A k \in kills : \E i \in 1..n : list[i].kind = "detail" /\ list[i].of = {k}
      /\ \A i, j \in 1..n :
           list[i].kind = "detail" /\ list[j].kind = "detail" /\ list[i].of = list[j].of => i = j
  BY <1>1 DEF Good
<1>3. PICK k0 : e.of = {k0}
  BY DEF Proper
<1> HIDE DEF n
<1> DEFINE to(j) == IF j < at THEN j ELSE j + 1
           from(i) == IF i < at THEN i ELSE i - 1
<1>4. \A i \in 1..(n + 1) : i # at => from(i) \in 1..n /\ new[i] = list[from(i)]
  <2> TAKE i \in 1..(n + 1)
  <2> HAVE i # at
  <2>1. from(i) \in 1..n /\ to(from(i)) = i
    BY <1>1
  <2> QED
    BY <1>1, <2>1
<1>5. \A j \in 1..n : to(j) \in 1..(n + 1) /\ to(j) # at /\ new[to(j)] = list[j]
  <2> TAKE j \in 1..n
  <2>1. to(j) \in 1..(n + 1) /\ to(j) # at
    BY <1>1
  <2> QED
    BY <1>1, <2>1
<1>6. \A i, j \in 1..(n + 1) : i # at /\ j # at /\ from(i) = from(j) => i = j
  BY <1>1
<1> HIDE DEF to, from
<1>7. \A i \in 1..(n + 1) : Proper(new[i]) /\ new[i].kind \in kinds
  BY <1>1, <1>2, <1>4
<1>8. \A i \in 1..(n + 1) : new[i].kind = "detail" => new[i].of \subseteq kills \cup DetailOf(e)
  BY <1>1, <1>2, <1>4 DEF DetailOf
<1>9. ASSUME NEW k \in kills \cup DetailOf(e)
      PROVE  \E i \in 1..(n + 1) : new[i].kind = "detail" /\ new[i].of = {k}
  <2>1. CASE k \in kills
    <3>1. PICK j \in 1..n : list[j].kind = "detail" /\ list[j].of = {k}
      BY <1>2, <2>1
    <3> QED
      BY <1>5, <3>1
  <2>2. CASE k \in DetailOf(e)
    BY <1>1, <1>3, <2>2 DEF DetailOf
  <2> QED
    BY <2>1, <2>2
<1>10. ASSUME NEW i \in 1..(n + 1), NEW j \in 1..(n + 1),
              new[i].kind = "detail", new[j].kind = "detail", new[i].of = new[j].of
       PROVE  i = j
  <2>1. ASSUME NEW m \in 1..(n + 1), m # at, new[m].kind = "detail", e.kind = "detail"
        PROVE  new[m].of # e.of
    <3>1. new[m].of \subseteq kills
      BY <1>2, <1>4, <2>1
    <3>2. k0 \notin kills
      BY <1>3, <2>1 DEF DetailOf
    <3> QED
      BY <1>3, <3>1, <3>2
  <2>2. CASE i = at \/ j = at
    BY <1>1, <1>10, <2>1, <2>2
  <2>3. CASE i # at /\ j # at
    <3>1. from(i) = from(j)
      BY <1>2, <1>4, <1>10, <2>3
    <3> QED
      BY <1>6, <2>3, <3>1
  <2> QED
    BY <2>2, <2>3
<1> QED
  BY <1>1, <1>7, <1>8, <1>9, <1>10 DEF Good

\* A list whose mth event is merged with another one of the same kill, which the list does
\* not have in detail unless at that place.
LEMMA MergedGood ==
  ASSUME NEW kinds, NEW kills, NEW list, NEW e \in Event, NEW m \in DOMAIN list, NEW new,
         Good(list, kills, kinds) /\ Proper(e) /\ e.kind \in kinds
           /\ (DetailOf(e) \cap kills = {} \/ list[m].kind = "detail") /\ list[m].of = e.of
           /\ new = [list EXCEPT ![m] = MergeKillEvents(list[m], e)]
  PROVE  Good(new, kills \cup DetailOf(e), kinds)
<1> DEFINE n == Len(list)
<1>1. list \in Seq(Event) /\ n \in Nat /\ DOMAIN list = 1..n /\ m \in 1..n /\ list[m] \in Event
  BY DEF Good
<1>2. /\ \A i \in 1..n : Proper(list[i]) /\ list[i].kind \in kinds
      /\ \A i \in 1..n : list[i].kind = "detail" => list[i].of \subseteq kills
      /\ \A k \in kills : \E i \in 1..n : list[i].kind = "detail" /\ list[i].of = {k}
      /\ \A i, j \in 1..n :
           list[i].kind = "detail" /\ list[j].kind = "detail" /\ list[i].of = list[j].of => i = j
  BY <1>1 DEF Good
<1>3. PICK k0 : e.of = {k0}
  BY DEF Proper
<1>4. PICK x \in Event : x = MergeKillEvents(list[m], e)
  BY <1>1, MergeIs
<1>5. /\ x.victim = list[m].victim /\ x.time = list[m].time /\ x.of = e.of /\ x.of = list[m].of
      /\ x.kind = IF "detail" \in {list[m].kind, e.kind} THEN "detail" ELSE "line"
  <2>1. x.of = list[m].of \cup e.of
    BY <1>1, <1>4, MergeIs
  <2> QED
    BY <1>1, <1>4, <2>1, MergeIs
<1>6. new = [list EXCEPT ![m] = x]
  BY <1>4
<1>7. new \in Seq(Event) /\ Len(new) = n /\ \A i \in 1..n : new[i] = IF i = m THEN x ELSE list[i]
  BY <1>1, <1>6, ExceptSeq
<1>8. DOMAIN new = 1..n
  BY <1>7
<1> HIDE DEF n
<1>9. Proper(x) /\ x.kind \in kinds
  <2>1. Proper(x)
    <3>1. PICK k \in DOMAIN happened :
            /\ list[m].of = {k} /\ list[m].victim = happened[k].victim
            /\ list[m].time \in Stamps(happened[k].time)
            /\ list[m].killer \in {happened[k].killer, None}
            /\ list[m].kind = "detail" => list[m].killer = happened[k].killer
      BY <1>1, <1>2 DEF Proper
    <3>2. PICK k2 \in DOMAIN happened :
            /\ e.of = {k2} /\ e.killer \in {happened[k2].killer, None}
            /\ e.kind = "detail" => e.killer = happened[k2].killer
      BY DEF Proper
    <3>3. k2 = k
      BY <1>5, <3>1, <3>2
    <3>4. x.killer = IF list[m].killer = None THEN e.killer ELSE list[m].killer
      BY <1>1, <1>4, MergeIs
    <3>5. x.killer \in {happened[k].killer, None} /\ (x.kind = "detail" => x.killer = happened[k].killer)
      BY <1>5, <3>1, <3>2, <3>3, <3>4
    <3> QED
      BY <1>5, <3>1, <3>5 DEF Proper
  <2>2. list[m].kind \in Kind /\ e.kind \in Kind /\ list[m].kind \in kinds
    BY <1>1, <1>2 DEF Event
  <2> QED
    BY <1>5, <2>1, <2>2 DEF Kind
<1>10. \A i \in 1..n : Proper(new[i]) /\ new[i].kind \in kinds
  BY <1>2, <1>7, <1>9
<1>11. x.kind = "detail" => x.of \subseteq kills \cup DetailOf(e)
  <2>1. list[m].kind = "detail" => x.of \subseteq kills
    BY <1>1, <1>2, <1>5
  <2>2. e.kind = "detail" => x.of \subseteq DetailOf(e)
    BY <1>5 DEF DetailOf
  <2>3. x.kind = "detail" => list[m].kind = "detail" \/ e.kind = "detail"
    BY <1>5
  <2> QED
    BY <2>1, <2>2, <2>3
<1>12. \A i \in 1..n : new[i].kind = "detail" => new[i].of \subseteq kills \cup DetailOf(e)
  BY <1>2, <1>7, <1>11
<1>13. ASSUME NEW k \in kills \cup DetailOf(e)
       PROVE  \E i \in 1..n : new[i].kind = "detail" /\ new[i].of = {k}
  <2>1. CASE k \in kills
    <3>1. PICK j \in 1..n : list[j].kind = "detail" /\ list[j].of = {k}
      BY <1>2, <2>1
    <3>2. CASE j = m
      BY <1>5, <1>7, <3>1, <3>2
    <3>3. CASE j # m
      BY <1>7, <3>1, <3>3
    <3> QED
      BY <3>2, <3>3
  <2>2. CASE k \in DetailOf(e)
    <3>1. e.kind = "detail" /\ k = k0
      BY <1>3, <2>2 DEF DetailOf
    <3>2. x.kind = "detail" /\ x.of = {k}
      BY <1>3, <1>5, <3>1
    <3> QED
      BY <1>1, <1>7, <3>2
  <2> QED
    BY <2>1, <2>2
<1>14. ASSUME NEW j \in 1..n, j # m, list[j].kind = "detail", x.kind = "detail" PROVE list[j].of # x.of
  <2>1. CASE list[m].kind = "detail"
    BY <1>1, <1>2, <1>5, <1>14, <2>1
  <2>2. CASE e.kind = "detail" /\ list[m].kind # "detail"
    <3>1. list[j].of \subseteq kills /\ k0 \notin kills
      BY <1>2, <1>3, <1>14, <2>2 DEF DetailOf
    <3> QED
      BY <1>3, <1>5, <3>1
  <2> QED
    BY <1>5, <1>14, <2>1, <2>2
<1>15. ASSUME NEW i \in 1..n, NEW j \in 1..n,
              new[i].kind = "detail", new[j].kind = "detail", new[i].of = new[j].of
       PROVE  i = j
  <2>1. CASE i # m /\ j # m
    BY <1>2, <1>7, <1>15, <2>1
  <2>2. CASE i = m /\ j # m
    BY <1>7, <1>14, <1>15, <2>2
  <2>3. CASE i # m /\ j = m
    BY <1>7, <1>14, <1>15, <2>3
  <2> QED
    BY <2>1, <2>2, <2>3
<1> HIDE DEF DetailOf
<1>16. new \in Seq(Event)
  BY <1>7
<1>17. \A i \in DOMAIN new : Proper(new[i]) /\ new[i].kind \in kinds
  BY <1>8, <1>10
<1>18. \A i \in DOMAIN new : new[i].kind = "detail" => new[i].of \subseteq kills \cup DetailOf(e)
  BY <1>8, <1>12
<1>19. \A k \in kills \cup DetailOf(e) : \E i \in DOMAIN new : new[i].kind = "detail" /\ new[i].of = {k}
  BY <1>8, <1>13
<1>20. \A i, j \in DOMAIN new :
         new[i].kind = "detail" /\ new[j].kind = "detail" /\ new[i].of = new[j].of => i = j
  BY <1>8, <1>15
<1> QED
  BY <1>16, <1>17, <1>18, <1>19, <1>20, Zenon DEF Good

\* Joining, when what is like the event is of the same kill.
LEMMA JoinGood ==
  ASSUME NEW kinds, NEW kills, NEW list, NEW e \in Event, NEW like, NEW new,
         Good(list, kills, kinds) /\ Proper(e) /\ e.kind \in kinds,
         DetailOf(e) \cap kills = {},
         like \subseteq DOMAIN list /\ \A i \in like : list[i].of = e.of,
         new = IF like = {} THEN Append(list, e)
               ELSE [list EXCEPT ![Min(like)] = MergeKillEvents(@, e)]
  PROVE  Good(new, kills \cup DetailOf(e), kinds)
<1>1. list \in Seq(Event) /\ Len(list) \in Nat /\ DOMAIN list = 1..Len(list)
  BY DEF Good
<1>2. CASE like = {}
  <2>1. new = Append(list, e)
    BY <1>2
  <2>2. Adds(Append(list, e), list, e, Len(list) + 1)
    BY <1>1, AppendAdds
  <2> QED
    BY <2>1, <2>2, AddsGood
<1>3. CASE like # {}
  <2>1. like \subseteq Nat
    BY <1>1
  <2>2. PICK m \in DOMAIN list : m = Min(like) /\ list[m].of = e.of
    BY <1>3, <2>1, MinIs
  <2>3. new = [list EXCEPT ![m] = MergeKillEvents(list[m], e)]
    BY <1>3, <2>2
  <2> QED
    BY <2>2, <2>3, MergedGood
<1> QED
  BY <1>2, <1>3

\* Insert adds the event.
LEMMA InsertAdds ==
  ASSUME NEW s \in Seq(Event), NEW e \in Event
  PROVE  \E at : Adds(Insert(s, e, Newer), s, e, at)
<1>1. PICK at \in 1..(Len(s) + 1) : Insert(s, e, Newer) = InsertAt(s, at, e)
  BY InsertPlace
<1>2. /\ InsertAt(s, at, e) \in Seq(Event) /\ Len(InsertAt(s, at, e)) = Len(s) + 1
      /\ InsertAt(s, at, e)[at] = e
      /\ \A j \in 1..Len(s) : InsertAt(s, at, e)[IF j < at THEN j ELSE j + 1] = s[j]
  BY InsertAtIs
<1>3. Adds(InsertAt(s, at, e), s, e, at)
  BY <1>2 DEF Adds
<1> QED
  BY <1>1, <1>3

\* A loop each step of which adds the kill that its event brings.
Gathers(f, list, kinds) ==
  /\ f[0] = <<>>
  /\ \A i \in 1..Len(list) : \A some :
       Good(f[i - 1], some, kinds) /\ DetailOf(list[i]) \cap some = {} =>
         Good(f[i], some \cup DetailOf(list[i]), kinds)

\* The list that such a loop gathers from a list has the same details.
LEMMA GathersGood ==
  ASSUME NEW kinds, NEW before, NEW kills, NEW list, NEW f,
         Good(list, kills, before) /\ Gathers(f, list, kinds)
  PROVE  Good(f[Len(list)], kills, kinds)
<1> DEFINE n == Len(list)
           upTo(i) == {k \in kills : \E j \in 1..i : list[j].kind = "detail" /\ list[j].of = {k}}
           P == {i \in Nat : i <= n => Good(f[i], upTo(i), kinds)}
<1>1. list \in Seq(Event) /\ n \in Nat /\ DOMAIN list = 1..n
  BY DEF Good
<1>2. /\ list \in Seq(Event) /\ n \in Nat /\ DOMAIN list = 1..n
      /\ \A i \in 1..n : Proper(list[i])
      /\ \A i \in 1..n : list[i].kind = "detail" => list[i].of \subseteq kills
      /\ \A k \in kills : \E i \in 1..n : list[i].kind = "detail" /\ list[i].of = {k}
      /\ \A i, j \in 1..n :
           list[i].kind = "detail" /\ list[j].kind = "detail" /\ list[i].of = list[j].of => i = j
  BY <1>1 DEF Good
<1>3. f[0] = <<>> /\ \A i \in 1..n : \A some :
        Good(f[i - 1], some, kinds) /\ DetailOf(list[i]) \cap some = {} =>
          Good(f[i], some \cup DetailOf(list[i]), kinds)
  BY DEF Gathers
<1> HIDE DEF n
<1>4. 0 \in P
  <2>1. upTo(0) = {}
    OBVIOUS
  <2>2. Good(<<>>, {}, kinds)
    <3>1. <<>> \in Seq(Event) /\ DOMAIN <<>> = {}
      OBVIOUS
    <3> QED
      BY <3>1 DEF Good
  <2> HIDE DEF upTo
  <2> QED
    BY <1>3, <2>1, <2>2
<1>5. ASSUME NEW i \in Nat, i \in P PROVE i + 1 \in P
  <2> SUFFICES ASSUME i + 1 <= n PROVE Good(f[i + 1], upTo(i + 1), kinds)
    OBVIOUS
  <2>1. i + 1 \in 1..n /\ (i + 1) - 1 = i /\ i <= n /\ 1..(i + 1) = 1..i \cup {i + 1}
    BY <1>2
  <2>2. Good(f[i], upTo(i), kinds)
    BY <1>5, <2>1
  <2>3. PICK e : e = list[i + 1]
    OBVIOUS
  <2>4. PICK k0 : e.of = {k0}
    BY <1>2, <2>1, <2>3 DEF Proper
  <2>5. DetailOf(e) \cap upTo(i) = {}
    <3>1. ASSUME NEW k \in upTo(i), k \in DetailOf(e) PROVE FALSE
      <4>1. PICK j \in 1..i : list[j].kind = "detail" /\ list[j].of = {k}
        BY <3>1
      <4>2. e.kind = "detail" /\ e.of = {k}
        BY <2>4, <3>1 DEF DetailOf
      <4>3. j \in 1..n /\ j # i + 1
        BY <1>2, <2>1
      <4> QED
        BY <1>2, <2>1, <2>3, <4>1, <4>2, <4>3
    <3> QED
      BY <3>1
  <2>6. upTo(i + 1) = upTo(i) \cup DetailOf(e)
    <3>1. \A k \in kills : (e.kind = "detail" /\ e.of = {k}) <=> k \in DetailOf(e)
      BY <2>4 DEF DetailOf
    <3>2. DetailOf(e) \subseteq kills
      BY <1>2, <2>1, <2>3 DEF DetailOf
    <3>3. upTo(i + 1) = upTo(i) \cup {k \in kills : e.kind = "detail" /\ e.of = {k}}
      BY <2>1, <2>3
    <3> QED
      BY <3>1, <3>2, <3>3
  <2> HIDE DEF upTo
  <2>7. Good(f[i + 1], upTo(i) \cup DetailOf(list[i + 1]), kinds)
    BY <1>3, <2>1, <2>2, <2>3, <2>5
  <2> QED
    BY <2>3, <2>6, <2>7
<1> HIDE DEF P
<1>6. n \in P
  BY <1>2, <1>4, <1>5, NatInd
<1>7. Good(f[n], upTo(n), kinds)
  BY <1>2, <1>6 DEF P
<1>8. upTo(n) = kills
  BY <1>2
<1> HIDE DEF upTo
<1> QED
  BY <1>7, <1>8 DEF n

\* A detailed event has the time of the kill.
Exact(e) == e.kind = "detail" => \A k \in e.of : e.time = happened[k].time

\* The rows of an answer: the details are those of some kills, of each once or more.
RowsGood(list, kills) ==
  /\ list \in Seq(Event)
  /\ \A i \in DOMAIN list : Proper(list[i]) /\ Exact(list[i])
  /\ \A i \in DOMAIN list : list[i].kind = "detail" => list[i].of \subseteq kills
  /\ \A k \in kills : \E i \in DOMAIN list : list[i].kind = "detail" /\ list[i].of = {k}

\* A list of groups: no two events of it are of one group.
Groups(list, kills) ==
  /\ Good(list, kills, Kind)
  /\ \A i \in DOMAIN list : Exact(list[i])
  /\ \A i, j \in DOMAIN list : SameGroup(list[i], list[j]) => i = j

\* An event that is of no group of the list is a group of its own.
LEMMA NewGroup ==
  ASSUME KillsApart, NEW some, NEW s, Groups(s, some), NEW e \in Event, Proper(e) /\ Exact(e),
         \A j \in DOMAIN s : ~SameGroup(s[j], e)
  PROVE  Groups(Append(s, e), some \cup DetailOf(e))
<1>1. s \in Seq(Event) /\ Len(s) \in Nat /\ DOMAIN s = 1..Len(s) /\ e.kind \in Kind
  BY DEF Groups, Good, Event
<1>2. DetailOf(e) \cap some = {}
  <2> SUFFICES ASSUME NEW k \in some, k \in DetailOf(e) PROVE FALSE
    OBVIOUS
  <2>1. e.kind = "detail" /\ k \in e.of
    BY DEF DetailOf
  <2>2. PICK j \in DOMAIN s : s[j].kind = "detail" /\ s[j].of = {k}
    BY DEF Groups, Good
  <2>3. s[j].time = happened[k].time /\ e.time = happened[k].time
    BY <2>1, <2>2 DEF Groups, Exact
  <2>4. s[j].victim = happened[k].victim /\ e.victim = happened[k].victim
    <3>1. Proper(s[j])
      BY DEF Groups, Good
    <3> QED
      BY <2>1, <2>2, <3>1 DEF Proper
  <2> QED
    BY <2>3, <2>4 DEF SameGroup
<1>3. Good(Append(s, e), some \cup DetailOf(e), Kind)
  <2>1. Adds(Append(s, e), s, e, Len(s) + 1)
    BY <1>1, AppendAdds
  <2> QED
    BY <1>1, <1>2, <2>1, AddsGood DEF Groups
<1>4. /\ Len(Append(s, e)) = Len(s) + 1 /\ Append(s, e)[Len(s) + 1] = e
      /\ \A j \in 1..Len(s) : Append(s, e)[j] = s[j]
      /\ DOMAIN Append(s, e) = 1..(Len(s) + 1) /\ 1..(Len(s) + 1) = 1..Len(s) \cup {Len(s) + 1}
  <2>1. Append(s, e) \in Seq(Event)
    BY <1>1, AppendIs
  <2> QED
    BY <1>1, <2>1, AppendIs
<1>5. \A j \in DOMAIN Append(s, e) : Exact(Append(s, e)[j])
  BY <1>1, <1>4 DEF Groups
<1>6. \A i \in 1..Len(s) : ~SameGroup(e, s[i])
  BY <1>1 DEF SameGroup
<1>7. \A i, j \in DOMAIN Append(s, e) : SameGroup(Append(s, e)[i], Append(s, e)[j]) => i = j
  BY <1>1, <1>4, <1>6 DEF Groups
<1> QED
  BY <1>3, <1>5, <1>7 DEF Groups

\* An event joins its group.
LEMMA OldGroup ==
  ASSUME KillsApart, NEW some, NEW s, Groups(s, some), NEW e \in Event, Proper(e) /\ Exact(e),
         NEW m \in DOMAIN s, SameGroup(s[m], e)
  PROVE  Groups([s EXCEPT ![m] = MergeKillEvents(s[m], e)], some \cup DetailOf(e))
<1>1. /\ s \in Seq(Event) /\ Len(s) \in Nat /\ DOMAIN s = 1..Len(s) /\ e.kind \in Kind
      /\ s[m] \in Event /\ Proper(s[m]) /\ s[m].kind \in Kind
  <2>1. s \in Seq(Event) /\ Proper(s[m])
    BY DEF Groups, Good
  <2>2. s[m] \in Event
    BY <2>1
  <2> QED
    BY <2>1, <2>2 DEF Event
<1>2. s[m].of = e.of /\ s[m].time = e.time /\ s[m].victim = e.victim
  BY <1>1, SameGroupIsSame DEF SameGroup
<1>3. DetailOf(e) \cap some = {} \/ s[m].kind = "detail"
  <2> SUFFICES ASSUME NEW k \in some, k \in DetailOf(e) PROVE s[m].kind = "detail"
    OBVIOUS
  <2>1. e.kind = "detail" /\ k \in e.of
    BY DEF DetailOf
  <2>2. PICK j \in DOMAIN s : s[j].kind = "detail" /\ s[j].of = {k}
    BY DEF Groups, Good
  <2>3. s[j].time = happened[k].time /\ e.time = happened[k].time
    BY <2>1, <2>2 DEF Groups, Exact
  <2>4. s[j].victim = happened[k].victim /\ e.victim = happened[k].victim
    <3>1. Proper(s[j])
      BY DEF Groups, Good
    <3> QED
      BY <2>1, <2>2, <3>1 DEF Proper
  <2>5. SameGroup(s[j], s[m])
    BY <1>2, <2>3, <2>4 DEF SameGroup
  <2> QED
    BY <2>2, <2>5 DEF Groups
<1> DEFINE new == [s EXCEPT ![m] = MergeKillEvents(s[m], e)]
<1>4. Good(new, some \cup DetailOf(e), Kind)
  BY <1>1, <1>2, <1>3, MergedGood DEF Groups
<1>5. PICK x \in Event : x = MergeKillEvents(s[m], e)
  BY <1>1, MergeIs
<1>6. /\ x.victim = s[m].victim /\ x.time = s[m].time /\ x.of = e.of
      /\ x.kind = IF "detail" \in {s[m].kind, e.kind} THEN "detail" ELSE "line"
  <2>1. x.of = s[m].of \cup e.of
    BY <1>1, <1>5, MergeIs
  <2> QED
    BY <1>1, <1>2, <1>5, <2>1, MergeIs
<1>7. /\ DOMAIN new = DOMAIN s
      /\ \A j \in DOMAIN s : new[j] = IF j = m THEN x ELSE s[j]
  BY <1>5
<1> HIDE DEF new
<1>8. Exact(x)
  <2>1. Exact(s[m])
    BY DEF Groups
  <2> QED
    BY <1>2, <1>6, <2>1 DEF Exact
<1>9. \A j \in DOMAIN new : Exact(new[j])
  BY <1>7, <1>8 DEF Groups
<1>10. \A j \in DOMAIN s : new[j].time = s[j].time /\ new[j].victim = s[j].victim
  BY <1>6, <1>7
<1>11. \A i, j \in DOMAIN new : SameGroup(new[i], new[j]) => i = j
  BY <1>7, <1>10 DEF Groups, SameGroup
<1> QED
  BY <1>4, <1>9, <1>11 DEF Groups, new

\* The rows of an answer are grouped to one detail of each kill: those of a kill_ log have
\* the second of the kill.
LEMMA RowsGrouped ==
  ASSUME KillsApart, NEW kills, NEW list, RowsGood(list, kills)
  PROVE  Good(Grouped(list), kills, Kind)
<1> DEFINE n == Len(list)
           upTo(i) == UNION {DetailOf(list[j]) : j \in 1..i}
<1>1. /\ list \in Seq(Event) /\ n \in Nat /\ DOMAIN list = 1..n
      /\ \A i \in 1..n : list[i] \in Event /\ Proper(list[i]) /\ Exact(list[i])
  BY DEF RowsGood
<1>2. PICK f \in [0..n -> Seq(Event)] :
        /\ Grouped(list) = f[n] /\ f[0] = <<>>
        /\ \A i \in 1..n : f[i] = Join(f[i - 1], list[i], SameGroup)
  BY <1>1, GroupedLoop
<1>3. upTo(n) = kills
  <2>1. \A j \in 1..n : DetailOf(list[j]) \subseteq kills
    BY <1>1 DEF RowsGood, DetailOf
  <2>2. ASSUME NEW k \in kills PROVE \E j \in 1..n : k \in DetailOf(list[j])
    BY <1>1 DEF RowsGood, DetailOf
  <2> QED
    BY <2>1, <2>2
<1> HIDE DEF n
<1> DEFINE P == {i \in Nat : i <= n => Groups(f[i], upTo(i))}
<1>4. 0 \in P
  <2>1. upTo(0) = {}
    OBVIOUS
  <2>2. Groups(<<>>, {})
    <3>1. <<>> \in Seq(Event) /\ DOMAIN <<>> = {}
      OBVIOUS
    <3> QED
      BY <3>1 DEF Groups, Good
  <2> HIDE DEF upTo
  <2> QED
    BY <1>2, <2>1, <2>2
<1>5. ASSUME NEW i \in Nat, i \in P PROVE i + 1 \in P
  <2> SUFFICES ASSUME i + 1 <= n PROVE Groups(f[i + 1], upTo(i + 1))
    OBVIOUS
  <2>1. i + 1 \in 1..n /\ (i + 1) - 1 = i /\ i <= n /\ 1..(i + 1) = 1..i \cup {i + 1}
    BY <1>1
  <2>2. Groups(f[i], upTo(i))
    BY <1>5, <2>1
  <2>3. PICK e \in Event : e = list[i + 1] /\ Proper(e) /\ Exact(e)
    BY <1>1, <2>1
  <2>4. upTo(i + 1) = upTo(i) \cup DetailOf(e)
    BY <2>1, <2>3
  <2> HIDE DEF upTo
  <2>5. PICK s \in Seq(Event) : s = f[i]
    BY <2>2 DEF Groups, Good
  <2> DEFINE like == {j \in DOMAIN s : SameGroup(s[j], e)}
             t == Join(s, e, SameGroup)
  <2>6. t = IF like = {} THEN Append(s, e) ELSE [s EXCEPT ![Min(like)] = MergeKillEvents(@, e)]
    BY DEF Join
  <2>7. f[i + 1] = t
    BY <1>2, <2>1, <2>3, <2>5
  <2>8. \A j \in DOMAIN s : SameGroup(s[j], e) <=> j \in like
    OBVIOUS
  <2>9. like \subseteq DOMAIN s
    OBVIOUS
  <2> HIDE DEF like, t
  <2>10. CASE like = {}
    BY <2>2, <2>3, <2>4, <2>5, <2>6, <2>7, <2>8, <2>10, NewGroup
  <2>11. CASE like # {}
    <3>1. DOMAIN s = 1..Len(s) /\ like \subseteq Nat
      BY <2>9
    <3>2. PICK m \in DOMAIN s : m = Min(like) /\ m \in like
      BY <2>9, <2>11, <3>1, MinIs
    <3>3. t = [s EXCEPT ![m] = MergeKillEvents(s[m], e)]
      BY <2>6, <2>11, <3>2
    <3> QED
      BY <2>2, <2>3, <2>4, <2>5, <2>7, <2>8, <3>2, <3>3, OldGroup
  <2> QED
    BY <2>10, <2>11
<1> HIDE DEF P
<1>6. n \in P
  BY <1>1, <1>4, <1>5, NatInd
<1>7. Groups(f[n], upTo(n))
  BY <1>1, <1>6 DEF P
<1> HIDE DEF upTo
<1> QED
  BY <1>2, <1>3, <1>7 DEF Groups, n

\* Rows of one second and one victim are of one kill.
LEMMA GroupedGood ==
  ASSUME KillsApart, NEW kills, NEW list, Good(list, kills, Kind)
  PROVE  Good(Grouped(list), kills, Kind)
<1>1. list \in Seq(Event) /\ \A i \in 1..Len(list) : list[i] \in Event
  BY DEF Good
<1>2. PICK f \in [0..Len(list) -> Seq(Event)] :
        /\ Grouped(list) = f[Len(list)] /\ f[0] = <<>>
        /\ \A i \in 1..Len(list) : f[i] = Join(f[i - 1], list[i], SameGroup)
  BY <1>1, GroupedLoop
<1>3. ASSUME NEW i \in 1..Len(list), NEW some, Good(f[i - 1], some, Kind),
             DetailOf(list[i]) \cap some = {}
      PROVE  Good(f[i], some \cup DetailOf(list[i]), Kind)
  <2>1. PICK e \in Event : e = list[i] /\ Proper(e) /\ e.kind \in Kind
    BY <1>1 DEF Good
  <2>2. PICK s \in Seq(Event) : s = f[i - 1] /\ Good(s, some, Kind)
    BY <1>3 DEF Good
  <2> DEFINE like == {j \in DOMAIN s : SameGroup(s[j], e)}
             t == Join(s, e, SameGroup)
  <2>3. t = IF like = {} THEN Append(s, e) ELSE [s EXCEPT ![Min(like)] = MergeKillEvents(@, e)]
    BY DEF Join
  <2>4. \A j \in like : s[j].of = e.of
    <3> TAKE j \in like
    <3>1. s[j] \in Event /\ Proper(s[j]) /\ SameGroup(s[j], e)
      BY <2>2 DEF Good
    <3> QED
      BY <2>1, <3>1, SameGroupIsSame
  <2>5. like \subseteq DOMAIN s
    OBVIOUS
  <2>6. f[i] = t
    BY <1>2, <2>1, <2>2
  <2> HIDE DEF like, t
  <2>7. Good(t, some \cup DetailOf(e), Kind)
    BY <1>3, <2>1, <2>2, <2>3, <2>4, <2>5, JoinGood
  <2> QED
    BY <2>1, <2>6, <2>7
<1> QED
  BY <1>2, <1>3, GathersGood DEF Gathers

\* So is what looks like a duplicate.
LEMMA JoinedGood ==
  ASSUME KillsApart, NEW kills, NEW list, Good(list, kills, Kind)
  PROVE  Good(Joined(list), kills, Kind)
<1>1. list \in Seq(Event) /\ \A i \in 1..Len(list) : list[i] \in Event
  BY DEF Good
<1>2. PICK f \in [0..Len(list) -> Seq(Event)] :
        /\ Joined(list) = f[Len(list)] /\ f[0] = <<>>
        /\ \A i \in 1..Len(list) : f[i] = Join(f[i - 1], list[i], LikelyDuplicate)
  BY <1>1, JoinedLoop
<1>3. ASSUME NEW i \in 1..Len(list), NEW some, Good(f[i - 1], some, Kind),
             DetailOf(list[i]) \cap some = {}
      PROVE  Good(f[i], some \cup DetailOf(list[i]), Kind)
  <2>1. PICK e \in Event : e = list[i] /\ Proper(e) /\ e.kind \in Kind
    BY <1>1 DEF Good
  <2>2. PICK s \in Seq(Event) : s = f[i - 1] /\ Good(s, some, Kind)
    BY <1>3 DEF Good
  <2> DEFINE like == {j \in DOMAIN s : LikelyDuplicate(s[j], e)}
             t == Join(s, e, LikelyDuplicate)
  <2>3. t = IF like = {} THEN Append(s, e) ELSE [s EXCEPT ![Min(like)] = MergeKillEvents(@, e)]
    BY DEF Join
  <2>4. \A j \in like : s[j].of = e.of
    <3> TAKE j \in like
    <3>1. s[j] \in Event /\ Proper(s[j]) /\ LikelyDuplicate(s[j], e)
      BY <2>2 DEF Good
    <3> QED
      BY <2>1, <3>1, LikeIsSame
  <2>5. like \subseteq DOMAIN s
    OBVIOUS
  <2>6. f[i] = t
    BY <1>2, <2>1, <2>2
  <2> HIDE DEF like, t
  <2>7. Good(t, some \cup DetailOf(e), Kind)
    BY <1>3, <2>1, <2>2, <2>3, <2>4, <2>5, JoinGood
  <2> QED
    BY <2>1, <2>6, <2>7
<1> QED
  BY <1>2, <1>3, GathersGood DEF Gathers

\* Sorting keeps the events, of whichever kinds they are.
LEMMA SortDescGood ==
  ASSUME KillsApart, NEW kinds, NEW kills, NEW list, Good(list, kills, kinds)
  PROVE  Good(SortDesc(list), kills, kinds)
<1>1. list \in Seq(Event) /\ \A i \in 1..Len(list) : list[i] \in Event
  BY DEF Good
<1>2. PICK f \in [0..Len(list) -> Seq(Event)] :
        /\ SortDesc(list) = f[Len(list)] /\ f[0] = <<>>
        /\ \A i \in 1..Len(list) : f[i] = Insert(f[i - 1], list[i], Newer)
  BY <1>1, SortDescLoop
<1>3. ASSUME NEW i \in 1..Len(list), NEW some, Good(f[i - 1], some, kinds),
             DetailOf(list[i]) \cap some = {}
      PROVE  Good(f[i], some \cup DetailOf(list[i]), kinds)
  <2>1. PICK e \in Event : e = list[i] /\ Proper(e) /\ e.kind \in kinds
    BY <1>1 DEF Good
  <2>2. PICK s \in Seq(Event) : s = f[i - 1] /\ Good(s, some, kinds)
    BY <1>3 DEF Good
  <2>3. PICK at : Adds(Insert(s, e, Newer), s, e, at)
    BY InsertAdds
  <2>4. Good(Insert(s, e, Newer), some \cup DetailOf(e), kinds)
    BY <1>3, <2>1, <2>2, <2>3, AddsGood
  <2> QED
    BY <1>2, <2>1, <2>2, <2>4
<1> QED
  BY <1>2, <1>3, GathersGood DEF Gathers

\* Only the bare lines are useless.
LEMMA UsefulGood ==
  ASSUME KillsApart, NEW kills, NEW list, Good(list, kills, Kind)
  PROVE  Good(Useful(list), kills, {"detail"})
<1>1. list \in Seq(Event) /\ \A i \in 1..Len(list) : list[i] \in Event
  BY DEF Good
<1>2. PICK f \in [0..Len(list) -> Seq(Event)] :
        /\ Useful(list) = f[Len(list)] /\ f[0] = <<>>
        /\ \A i \in 1..Len(list) : f[i] = IF IsUseful(list[i], list) THEN Append(f[i - 1], list[i]) ELSE f[i - 1]
  BY <1>1, UsefulLoop
<1>3. ASSUME NEW i \in 1..Len(list), NEW some, Good(f[i - 1], some, {"detail"}),
             DetailOf(list[i]) \cap some = {}
      PROVE  Good(f[i], some \cup DetailOf(list[i]), {"detail"})
  <2>1. PICK e \in Event : e = list[i] /\ Proper(e) /\ e.kind \in Kind
    BY <1>1 DEF Good
  <2>2. PICK s \in Seq(Event) : s = f[i - 1] /\ Good(s, some, {"detail"})
    BY <1>3 DEF Good
  <2>3. IsUseful(e, list) <=> e.kind = "detail"
    BY <2>1 DEF IsUseful, Transient, Weak, Quality, Kind
  <2>4. CASE e.kind = "detail"
    <3>1. f[i] = Append(s, e)
      BY <1>2, <2>1, <2>2, <2>3, <2>4
    <3>2. Adds(Append(s, e), s, e, Len(s) + 1)
      BY AppendAdds
    <3>3. e.kind \in {"detail"}
      BY <2>4
    <3>4. Good(Append(s, e), some \cup DetailOf(e), {"detail"})
      BY <1>3, <2>1, <2>2, <3>2, <3>3, AddsGood
    <3> QED
      BY <2>1, <3>1, <3>4
  <2>5. CASE e.kind # "detail"
    <3>1. f[i] = s /\ some \cup DetailOf(e) = some
      BY <1>2, <2>1, <2>2, <2>3, <2>5 DEF DetailOf
    <3> QED
      BY <2>1, <2>2, <3>1
  <2> QED
    BY <2>4, <2>5
<1>4. f[0] = <<>>
  BY <1>2
<1>5. Gathers(f, list, {"detail"})
  BY <1>3, <1>4 DEF Gathers
<1>6. Good(f[Len(list)], kills, {"detail"})
  BY <1>5, GathersGood
<1>7. Useful(list) = f[Len(list)]
  BY <1>2
<1> QED
  BY <1>6, <1>7

\* The normal form has the details and nothing else.
LEMMA NormalizeGood ==
  ASSUME KillsApart, NEW kills, NEW list, Good(list, kills, Kind)
  PROVE  Good(NormalizeKillEvents(list), kills, {"detail"})
<1>1. Good(Grouped(list), kills, Kind)
  BY GroupedGood
<1>2. Good(SortDesc(Grouped(list)), kills, Kind)
  BY <1>1, SortDescGood
<1>3. Good(Joined(SortDesc(Grouped(list))), kills, Kind)
  BY <1>2, JoinedGood
<1>4. Good(Useful(Joined(SortDesc(Grouped(list)))), kills, {"detail"})
  BY <1>3, UsefulGood
<1>5. Good(SortDesc(Useful(Joined(SortDesc(Grouped(list))))), kills, {"detail"})
  BY <1>4, SortDescGood
<1> QED
  BY <1>5 DEF NormalizeKillEvents

\* A list of fewer kinds is one of more kinds.
LEMMA GoodKinds ==
  ASSUME NEW kills, NEW list, Good(list, kills, {"detail"})
  PROVE  Good(list, kills, Kind)
<1>1. {"detail"} \subseteq Kind
  BY DEF Kind
<1> QED
  BY <1>1 DEF Good

\* So has the normal form of rows.
LEMMA NormalizeRows ==
  ASSUME KillsApart, NEW kills, NEW list, RowsGood(list, kills)
  PROVE  Good(NormalizeKillEvents(list), kills, {"detail"})
<1>1. Good(SortDesc(Grouped(list)), kills, Kind)
  BY RowsGrouped, SortDescGood
<1>2. Good(Useful(Joined(SortDesc(Grouped(list)))), kills, {"detail"})
  BY <1>1, JoinedGood, UsefulGood
<1> QED
  BY <1>2, SortDescGood DEF NormalizeKillEvents

-----------------------------------------------------------------------------
(* No kill with a detail is dropped, whether the panel tells it from others or not. *)

\* Each of the kills is one of those that some detailed event stands for.
Covers(list, kills) ==
  /\ list \in Seq(Event)
  /\ \A k \in kills : \E i \in DOMAIN list : k \in DetailOf(list[i])

\* A list keeps what it covers when an event is added.
LEMMA AddsCovers ==
  ASSUME NEW kills, NEW list, NEW e \in Event, NEW new, NEW at,
         Covers(list, kills) /\ Adds(new, list, e, at)
  PROVE  Covers(new, kills \cup DetailOf(e))
<1>1. /\ list \in Seq(Event) /\ Len(list) \in Nat /\ DOMAIN list = 1..Len(list)
      /\ new \in Seq(Event) /\ DOMAIN new = 1..(Len(list) + 1)
      /\ at \in DOMAIN new /\ new[at] = e
  BY DEF Covers, Adds
<1>2. ASSUME NEW j \in DOMAIN list PROVE \E i \in DOMAIN new : new[i] = list[j]
  <2>1. (IF j < at THEN j ELSE j + 1) \in DOMAIN new /\ new[IF j < at THEN j ELSE j + 1] = list[j]
    BY <1>1, <1>2 DEF Adds
  <2> QED
    BY <2>1
<1> QED
  BY <1>1, <1>2 DEF Covers

\* So it does when an event is joined with any of its events.
LEMMA JoinCovers ==
  ASSUME NEW kills, NEW list, NEW e \in Event, NEW like, NEW new,
         Covers(list, kills), like \subseteq DOMAIN list,
         new = IF like = {} THEN Append(list, e)
               ELSE [list EXCEPT ![Min(like)] = MergeKillEvents(@, e)]
  PROVE  Covers(new, kills \cup DetailOf(e))
<1>1. list \in Seq(Event) /\ Len(list) \in Nat /\ DOMAIN list = 1..Len(list)
  BY DEF Covers
<1>2. CASE like = {}
  <2>1. Adds(Append(list, e), list, e, Len(list) + 1)
    BY <1>1, AppendAdds
  <2> QED
    BY <1>2, <2>1, AddsCovers
<1>3. CASE like # {}
  <2>1. like \subseteq Nat
    BY <1>1
  <2>2. PICK m \in DOMAIN list : m = Min(like)
    BY <1>3, <2>1, MinIs
  <2>3. PICK x \in Event : x = MergeKillEvents(list[m], e)
    BY <1>1, MergeIs
  <2>4. new = [list EXCEPT ![m] = x]
    BY <1>3, <2>2, <2>3
  <2>5. /\ new \in Seq(Event) /\ DOMAIN new = DOMAIN list /\ new[m] = x
        /\ \A i \in DOMAIN list : i # m => new[i] = list[i]
    <3>1. [list EXCEPT ![m] = x] \in Seq(Event)
      BY <1>1, ExceptSeq
    <3> QED
      BY <2>4, <3>1
  <2>6. DetailOf(list[m]) \subseteq DetailOf(x) /\ DetailOf(e) \subseteq DetailOf(x)
    <3>1. list[m] \in Event
      BY <1>1
    <3>2. x.of = list[m].of \cup e.of
          /\ x.kind = IF "detail" \in {list[m].kind, e.kind} THEN "detail" ELSE "line"
      BY <2>3, <3>1, MergeIs
    <3> QED
      BY <3>2 DEF DetailOf
  <2> QED
    BY <2>5, <2>6 DEF Covers
<1> QED
  BY <1>2, <1>3

\* A loop each step of which keeps what is covered and covers what its event brings covers
\* what its list does.
LEMMA GathersCovers ==
  ASSUME NEW kills, NEW list, NEW f, Covers(list, kills), f[0] = <<>>,
         \A i \in 1..Len(list) : \A some :
           Covers(f[i - 1], some) => Covers(f[i], some \cup DetailOf(list[i]))
  PROVE  Covers(f[Len(list)], kills)
<1> DEFINE n == Len(list)
           upTo(i) == UNION {DetailOf(list[j]) : j \in 1..i}
           P == {i \in Nat : i <= n => Covers(f[i], upTo(i))}
<1>1. n \in Nat /\ DOMAIN list = 1..n
  BY DEF Covers
<1>2. \A i \in 1..n : \A some : Covers(f[i - 1], some) => Covers(f[i], some \cup DetailOf(list[i]))
  OBVIOUS
<1>3. kills \subseteq upTo(n)
  BY <1>1 DEF Covers
<1> HIDE DEF n
<1>4. 0 \in P
  <2>1. upTo(0) = {} /\ <<>> \in Seq(Event)
    OBVIOUS
  <2> QED
    BY <2>1 DEF Covers
<1>5. ASSUME NEW i \in Nat, i \in P PROVE i + 1 \in P
  <2> SUFFICES ASSUME i + 1 <= n PROVE Covers(f[i + 1], upTo(i + 1))
    OBVIOUS
  <2>1. i + 1 \in 1..n /\ (i + 1) - 1 = i /\ i <= n /\ 1..(i + 1) = 1..i \cup {i + 1}
    BY <1>1
  <2>2. Covers(f[i], upTo(i))
    BY <1>5, <2>1
  <2>3. upTo(i + 1) = upTo(i) \cup DetailOf(list[i + 1])
    BY <2>1
  <2> HIDE DEF upTo
  <2> QED
    BY <1>2, <2>1, <2>2, <2>3
<1> HIDE DEF P
<1>6. Covers(f[n], upTo(n))
  <2>1. n \in P
    BY <1>1, <1>4, <1>5, NatInd
  <2> QED
    BY <1>1, <2>1 DEF P
<1> HIDE DEF upTo
<1> QED
  BY <1>3, <1>6 DEF Covers, n

\* The groups cover what their list does.
LEMMA GroupedCovers ==
  ASSUME NEW kills, NEW list, Covers(list, kills)
  PROVE  Covers(Grouped(list), kills)
<1>1. list \in Seq(Event) /\ \A i \in 1..Len(list) : list[i] \in Event
  BY DEF Covers
<1>2. PICK f \in [0..Len(list) -> Seq(Event)] :
        /\ Grouped(list) = f[Len(list)] /\ f[0] = <<>>
        /\ \A i \in 1..Len(list) : f[i] = Join(f[i - 1], list[i], SameGroup)
  BY <1>1, GroupedLoop
<1>3. ASSUME NEW i \in 1..Len(list), NEW some, Covers(f[i - 1], some)
      PROVE  Covers(f[i], some \cup DetailOf(list[i]))
  <2>1. PICK e \in Event, s \in Seq(Event) : e = list[i] /\ s = f[i - 1]
    BY <1>1, <1>3 DEF Covers
  <2> DEFINE like == {j \in DOMAIN s : SameGroup(s[j], e)}
             t == Join(s, e, SameGroup)
  <2>2. /\ like \subseteq DOMAIN s
        /\ t = IF like = {} THEN Append(s, e) ELSE [s EXCEPT ![Min(like)] = MergeKillEvents(@, e)]
    BY DEF Join
  <2>3. f[i] = t
    BY <1>2, <2>1
  <2> HIDE DEF like, t
  <2> QED
    BY <1>3, <2>1, <2>2, <2>3, JoinCovers
<1> QED
  BY <1>2, <1>3, GathersCovers

\* So does the join of what looks like duplicates.
LEMMA JoinedCovers ==
  ASSUME NEW kills, NEW list, Covers(list, kills)
  PROVE  Covers(Joined(list), kills)
<1>1. list \in Seq(Event) /\ \A i \in 1..Len(list) : list[i] \in Event
  BY DEF Covers
<1>2. PICK f \in [0..Len(list) -> Seq(Event)] :
        /\ Joined(list) = f[Len(list)] /\ f[0] = <<>>
        /\ \A i \in 1..Len(list) : f[i] = Join(f[i - 1], list[i], LikelyDuplicate)
  BY <1>1, JoinedLoop
<1>3. ASSUME NEW i \in 1..Len(list), NEW some, Covers(f[i - 1], some)
      PROVE  Covers(f[i], some \cup DetailOf(list[i]))
  <2>1. PICK e \in Event, s \in Seq(Event) : e = list[i] /\ s = f[i - 1]
    BY <1>1, <1>3 DEF Covers
  <2> DEFINE like == {j \in DOMAIN s : LikelyDuplicate(s[j], e)}
             t == Join(s, e, LikelyDuplicate)
  <2>2. /\ like \subseteq DOMAIN s
        /\ t = IF like = {} THEN Append(s, e) ELSE [s EXCEPT ![Min(like)] = MergeKillEvents(@, e)]
    BY DEF Join
  <2>3. f[i] = t
    BY <1>2, <2>1
  <2> HIDE DEF like, t
  <2> QED
    BY <1>3, <2>1, <2>2, <2>3, JoinCovers
<1> QED
  BY <1>2, <1>3, GathersCovers

\* So does the sorted list.
LEMMA SortDescCovers ==
  ASSUME NEW kills, NEW list, Covers(list, kills)
  PROVE  Covers(SortDesc(list), kills)
<1>1. list \in Seq(Event) /\ \A i \in 1..Len(list) : list[i] \in Event
  BY DEF Covers
<1>2. PICK f \in [0..Len(list) -> Seq(Event)] :
        /\ SortDesc(list) = f[Len(list)] /\ f[0] = <<>>
        /\ \A i \in 1..Len(list) : f[i] = Insert(f[i - 1], list[i], Newer)
  BY <1>1, SortDescLoop
<1>3. ASSUME NEW i \in 1..Len(list), NEW some, Covers(f[i - 1], some)
      PROVE  Covers(f[i], some \cup DetailOf(list[i]))
  <2>1. PICK e \in Event, s \in Seq(Event) : e = list[i] /\ s = f[i - 1]
    BY <1>1, <1>3 DEF Covers
  <2>2. PICK at : Adds(Insert(s, e, Newer), s, e, at)
    BY InsertAdds
  <2>3. Covers(Insert(s, e, Newer), some \cup DetailOf(e))
    BY <1>3, <2>1, <2>2, AddsCovers
  <2> QED
    BY <1>2, <2>1, <2>3
<1> QED
  BY <1>2, <1>3, GathersCovers

\* No detailed event is useless.
LEMMA UsefulCovers ==
  ASSUME NEW kills, NEW list, Covers(list, kills)
  PROVE  Covers(Useful(list), kills)
<1>1. list \in Seq(Event) /\ \A i \in 1..Len(list) : list[i] \in Event
  BY DEF Covers
<1>2. PICK f \in [0..Len(list) -> Seq(Event)] :
        /\ Useful(list) = f[Len(list)] /\ f[0] = <<>>
        /\ \A i \in 1..Len(list) : f[i] = IF IsUseful(list[i], list) THEN Append(f[i - 1], list[i]) ELSE f[i - 1]
  BY <1>1, UsefulLoop
<1>3. ASSUME NEW i \in 1..Len(list), NEW some, Covers(f[i - 1], some)
      PROVE  Covers(f[i], some \cup DetailOf(list[i]))
  <2>1. PICK e \in Event, s \in Seq(Event) : e = list[i] /\ s = f[i - 1]
    BY <1>1, <1>3 DEF Covers
  <2>2. e.kind = "detail" => IsUseful(e, list)
    BY DEF IsUseful, Transient, Weak, Quality
  <2>3. CASE IsUseful(e, list)
    <3>1. Adds(Append(s, e), s, e, Len(s) + 1)
      BY AppendAdds
    <3>2. Covers(Append(s, e), some \cup DetailOf(e))
      BY <1>3, <2>1, <3>1, AddsCovers
    <3> QED
      BY <1>2, <2>1, <2>3, <3>2
  <2>4. CASE ~IsUseful(e, list)
    <3>1. some \cup DetailOf(e) = some /\ f[i] = s
      BY <1>2, <2>1, <2>2, <2>4 DEF DetailOf
    <3> QED
      BY <1>3, <2>1, <3>1
  <2> QED
    BY <2>3, <2>4
<1> QED
  BY <1>2, <1>3, GathersCovers

\* So the normal form covers what its list does.
LEMMA NormalizeCovers ==
  ASSUME NEW kills, NEW list, Covers(list, kills)
  PROVE  Covers(NormalizeKillEvents(list), kills)
<1>1. Covers(Joined(SortDesc(Grouped(list))), kills)
  BY GroupedCovers, SortDescCovers, JoinedCovers
<1> QED
  BY <1>1, UsefulCovers, SortDescCovers DEF NormalizeKillEvents

-----------------------------------------------------------------------------
(* What the kills and the logs keep true. *)

DetailedKills == {k \in DOMAIN happened : inLogs[k] \cap {"text", "json"} # {}}

FeedInv ==
  /\ happened \in Seq(Kill) /\ Len(happened) <= KillMax
  /\ offset \in Offsets
  /\ inLogs \in Seq(SUBSET KillRow) /\ Len(inLogs) = Len(happened)
  /\ RowsGood(killRows, DetailedKills)

\* The time stamps of a kill.
LEMMA StampsAreInts ==
  ASSUME offset \in Int, NEW t \in Int
  PROVE  Stamps(t) \subseteq Int /\ t \in Stamps(t)
         /\ \A skew \in Skews : t + (offset + skew) \in Stamps(t)
<1>1. \A skew \in Skews : skew \in Int /\ t + offset + skew = t + (offset + skew)
  BY FeedConstantsOK
<1> QED
  BY <1>1 DEF Stamps

\* At first nothing has happened.
LEMMA FeedStart == FeedInit => FeedInv
<1> SUFFICES ASSUME FeedInit PROVE FeedInv
  OBVIOUS
<1>1. happened = <<>> /\ inLogs = <<>> /\ killRows = <<>> /\ offset \in Offsets /\ offset \in Int
  BY FeedConstantsOK DEF FeedInit
<1>2. RowsGood(killRows, DetailedKills)
  <2>1. DetailedKills = {} /\ killRows \in Seq(Event) /\ DOMAIN killRows = {}
    BY <1>1 DEF DetailedKills
  <2> QED
    BY <2>1 DEF RowsGood
<1>3. happened \in Seq(Kill) /\ Len(happened) <= KillMax /\ inLogs \in Seq(SUBSET KillRow)
      /\ Len(inLogs) = Len(happened)
  BY <1>1, FeedConstantsOK
<1> QED
  BY <1>1, <1>2, <1>3 DEF FeedInv

\* A kill brings no row yet.
LEMMA HappenKeeps ==
  ASSUME FeedInv, NEW k \in Kill, Happen(k)
  PROVE  FeedInv'
<1> DEFINE n == Len(happened)
<1>1. /\ happened \in Seq(Kill) /\ n \in Nat /\ DOMAIN happened = 1..n
      /\ inLogs \in Seq(SUBSET KillRow) /\ Len(inLogs) = n
      /\ offset \in Offsets /\ offset \in Int
  BY FeedConstantsOK DEF FeedInv
<1>2. /\ n < KillMax /\ happened' = Append(happened, k) /\ inLogs' = Append(inLogs, {})
      /\ offset' = offset /\ killRows' = killRows
  BY <1>1 DEF Happen
<1>3. /\ happened' \in Seq(Kill) /\ Len(happened') = n + 1 /\ happened'[n + 1] = k
      /\ \A i \in 1..n : happened'[i] = happened[i]
  BY <1>1, <1>2, AppendIs
<1>4. /\ inLogs' \in Seq(SUBSET KillRow) /\ Len(inLogs') = n + 1 /\ inLogs'[n + 1] = {}
      /\ \A i \in 1..n : inLogs'[i] = inLogs[i]
  <2>1. {} \in SUBSET KillRow
    OBVIOUS
  <2> QED
    BY <1>1, <1>2, <2>1, AppendIs
<1> HIDE DEF n
<1>5. DOMAIN happened' = 1..(n + 1) /\ 1..(n + 1) = 1..n \cup {n + 1} /\ n + 1 \notin 1..n
  BY <1>1, <1>3
<1>6. \A e : Proper(e) /\ Exact(e) => Proper(e)' /\ Exact(e)'
  <2> TAKE e
  <2> HAVE Proper(e) /\ Exact(e)
  <2>1. PICK a \in DOMAIN happened : /\ e.of = {a} /\ e.victim = happened[a].victim
                                     /\ e.time \in Stamps(happened[a].time)
                                     /\ e.killer \in {happened[a].killer, None}
                                     /\ e.kind = "detail" => e.killer = happened[a].killer
    BY DEF Proper
  <2>2. a \in DOMAIN happened' /\ happened'[a] = happened[a]
    BY <1>1, <1>3, <1>5, <2>1
  <2>3. e.time \in Stamps(happened[a].time)'
    BY <1>2, <2>1, <2>2 DEF Stamps
  <2>4. Exact(e)'
    BY <2>1, <2>2 DEF Exact
  <2> QED
    BY <2>1, <2>2, <2>3, <2>4 DEF Proper
<1>7. DetailedKills' = DetailedKills
  BY <1>1, <1>4, <1>5 DEF DetailedKills
<1>8. RowsGood(killRows, DetailedKills)'
  BY <1>2, <1>6, <1>7 DEF FeedInv, RowsGood
<1>9. Len(happened') <= KillMax
  BY <1>1, <1>2, <1>3, FeedConstantsOK
<1> QED
  BY <1>1, <1>2, <1>3, <1>4, <1>8, <1>9 DEF FeedInv

\* A row of a log is one more event of its kill, with the detail that was missing.
LEMMA LogKillKeeps ==
  ASSUME FeedInv, NEW i \in DOMAIN happened, NEW row \in KillRow, LogKill(i, row)
  PROVE  FeedInv'
<1> DEFINE n == Len(happened)
<1>1. /\ happened \in Seq(Kill) /\ n \in Nat /\ DOMAIN happened = 1..n /\ n <= KillMax
      /\ inLogs \in Seq(SUBSET KillRow) /\ Len(inLogs) = n /\ i \in 1..n
      /\ offset \in Offsets /\ offset \in Int /\ happened[i] \in Kill
  BY FeedConstantsOK DEF FeedInv
<1>2. PICK skew \in Skews, killer \in {happened[i].killer, None} :
        (row # "line" => killer # None) /\
        killRows' = Append(killRows,
          [victim |-> happened[i].victim, killer |-> killer, kind |-> KindOf(row), of |-> {i},
           time |-> happened[i].time + (IF row = "line" THEN offset + skew ELSE 0)])
  BY DEF LogKill
<1>3. /\ inLogs' = [inLogs EXCEPT ![i] = inLogs[i] \cup {row}]
      /\ happened' = happened /\ offset' = offset
  BY DEF LogKill
<1>4. PICK e : e =
          [victim |-> happened[i].victim, killer |-> killer, kind |-> KindOf(row), of |-> {i},
           time |-> happened[i].time + (IF row = "line" THEN offset + skew ELSE 0)]
  OBVIOUS
<1>5. happened[i].time \in Int
  <2>1. \A t \in Moments : t \in Int
    BY FeedConstantsOK
  <2> QED
    BY <1>1, <2>1 DEF Kill
<1>6. e.time \in Stamps(happened[i].time) /\ e.time \in Int
  <2>1. \A skew2 \in Skews : skew2 \in Int
    BY FeedConstantsOK
  <2>2. e.time = IF row = "line" THEN happened[i].time + (offset + skew) ELSE happened[i].time
    BY <1>1, <1>4, <1>5
  <2> QED
    BY <1>1, <1>5, <2>1, <2>2, StampsAreInts
<1>7. e \in Event
  <2>1. i \in 1..KillMax
    BY <1>1, FeedConstantsOK
  <2>2. happened[i].victim \in Person /\ killer \in Person \cup {None}
    BY <1>1 DEF Kill
  <2>3. KindOf(row) \in Kind
    BY DEF KindOf, Kind
  <2> QED
    BY <1>4, <1>6, <2>1, <2>2, <2>3 DEF Event
<1>8. Proper(e) /\ Exact(e) /\ e.of = {i} /\ (e.kind = "detail" <=> row \in {"text", "json"})
  <2>1. /\ e.kind = KindOf(row) /\ e.of = {i} /\ e.victim = happened[i].victim /\ e.killer = killer
        /\ row # "line" => killer = happened[i].killer /\ e.time = happened[i].time
    BY <1>2, <1>4, <1>5
  <2>2. e.kind = "detail" <=> row # "line"
    BY <2>1 DEF KindOf
  <2>3. row # "line" <=> row \in {"text", "json"}
    BY DEF KillRow
  <2>4. Proper(e)
    BY <1>6, <2>1, <2>2 DEF Proper
  <2>5. Exact(e)
    BY <2>1, <2>2 DEF Exact
  <2> QED
    BY <2>1, <2>2, <2>3, <2>4, <2>5
<1>9. /\ inLogs' \in Seq(SUBSET KillRow) /\ Len(inLogs') = n
      /\ \A k \in 1..n : inLogs'[k] = IF k = i THEN inLogs[i] \cup {row} ELSE inLogs[k]
  <2>1. inLogs[i] \cup {row} \in SUBSET KillRow
    BY <1>1
  <2> QED
    BY <1>1, <1>3, <2>1, ExceptSeq
<1>10. DetailedKills' = DetailedKills \cup DetailOf(e)
  <2>1. DetailedKills' = {k \in 1..n : inLogs'[k] \cap {"text", "json"} # {}}
    BY <1>1, <1>3 DEF DetailedKills
  <2>2. DetailedKills = {k \in 1..n : inLogs[k] \cap {"text", "json"} # {}}
    BY <1>1 DEF DetailedKills
  <2>3. DetailOf(e) = IF row \in {"text", "json"} THEN {i} ELSE {}
    BY <1>8 DEF DetailOf
  <2>4. \A k \in 1..n : inLogs'[k] \cap {"text", "json"} # {} <=>
          inLogs[k] \cap {"text", "json"} # {} \/ (k = i /\ row \in {"text", "json"})
    BY <1>1, <1>9
  <2> QED
    BY <1>1, <2>1, <2>2, <2>3, <2>4
<1>11. \A x : Proper(x)' /\ Exact(x)' <=> Proper(x) /\ Exact(x)
  BY <1>3 DEF Proper, Exact, Stamps
<1>12. RowsGood(killRows, DetailedKills)'
  <2>1. killRows \in Seq(Event) /\ Len(killRows) \in Nat /\ DOMAIN killRows = 1..Len(killRows)
    BY DEF FeedInv, RowsGood
  <2>2. killRows' = Append(killRows, e)
    BY <1>2, <1>4
  <2>3. /\ killRows' \in Seq(Event) /\ Len(killRows') = Len(killRows) + 1
        /\ killRows'[Len(killRows) + 1] = e
        /\ \A j \in 1..Len(killRows) : killRows'[j] = killRows[j]
    BY <1>7, <2>1, <2>2, AppendIs
  <2>4. DOMAIN killRows' = 1..Len(killRows) \cup {Len(killRows) + 1}
    BY <2>1, <2>3
  <2>5. \A j \in DOMAIN killRows' : Proper(killRows'[j]) /\ Exact(killRows'[j])
    BY <1>8, <2>1, <2>3, <2>4 DEF FeedInv, RowsGood
  <2>6. \A j \in DOMAIN killRows' : killRows'[j].kind = "detail" => killRows'[j].of \subseteq DetailedKills'
    BY <1>10, <2>1, <2>3, <2>4 DEF FeedInv, RowsGood, DetailOf
  <2>7. ASSUME NEW k \in DetailedKills'
        PROVE  \E j \in DOMAIN killRows' : killRows'[j].kind = "detail" /\ killRows'[j].of = {k}
    <3>1. CASE k \in DetailedKills
      <4>1. PICK j \in DOMAIN killRows : killRows[j].kind = "detail" /\ killRows[j].of = {k}
        BY <3>1 DEF FeedInv, RowsGood
      <4> QED
        BY <2>1, <2>3, <2>4, <4>1
    <3>2. CASE k \in DetailOf(e)
      <4>1. e.kind = "detail" /\ e.of = {k}
        BY <1>8, <3>2 DEF DetailOf
      <4> QED
        BY <2>3, <2>4, <4>1
    <3> QED
      BY <1>10, <2>7, <3>1, <3>2
  <2>8. \A j \in DOMAIN killRows' : (Proper(killRows[j]) /\ Exact(killRows[j]))'
    BY <1>3, <2>5 DEF Proper, Exact, Stamps
  <2> QED
    BY <2>3, <2>6, <2>7, <2>8 DEF RowsGood
<1> QED
  BY <1>1, <1>3, <1>9, <1>12 DEF FeedInv

\* So the invariant is inductive.
LEMMA FeedStep == FeedInv /\ [FeedNext]_feedVars => FeedInv'
<1> SUFFICES ASSUME FeedInv, [FeedNext]_feedVars PROVE FeedInv'
  OBVIOUS
<1>1. ASSUME NEW k \in Kill, Happen(k) PROVE FeedInv'
  BY <1>1, HappenKeeps
<1>2. ASSUME NEW i \in DOMAIN happened, NEW row \in KillRow, LogKill(i, row) PROVE FeedInv'
  BY <1>2, LogKillKeeps
<1>3. CASE UNCHANGED feedVars
  <2>1. happened' = happened /\ offset' = offset /\ inLogs' = inLogs /\ killRows' = killRows
    BY <1>3 DEF feedVars
  <2>2. \A x : Proper(x)' /\ Exact(x)' <=> Proper(x) /\ Exact(x)
    BY <2>1 DEF Proper, Exact, Stamps
  <2>3. RowsGood(killRows, DetailedKills)'
    BY <2>1, <2>2 DEF FeedInv, RowsGood, DetailedKills
  <2> QED
    BY <2>1, <2>3 DEF FeedInv
<1> QED
  BY <1>1, <1>2, <1>3 DEF FeedNext

\* What is shown of the answer when the stamps tell the kills apart is one event for each
\* kill in detail.
LEMMA ShownOnce ==
  ASSUME FeedInv, ToldApart
  PROVE  KillsApart /\ Good(ShownKills, DetailedKills, {"detail"})
<1>1. KillsApart
  BY FeedConstantsOK DEF FeedInv, KillsApart
<1>2. Good(RefreshedKills, DetailedKills, {"detail"})
  BY <1>1, NormalizeRows DEF FeedInv, RefreshedKills
<1> QED
  BY <1>1, <1>2, GoodKinds, NormalizeGood DEF ShownKills

\* In any case an event stands for each of them.
LEMMA ShownAtAll == FeedInv => Covers(ShownKills, DetailedKills)
<1> SUFFICES ASSUME FeedInv PROVE Covers(ShownKills, DetailedKills)
  OBVIOUS
<1>1. Covers(killRows, DetailedKills)
  BY DEF FeedInv, RowsGood, Covers, DetailOf
<1>2. Covers(RefreshedKills, DetailedKills)
  BY <1>1, NormalizeCovers DEF RefreshedKills
<1> QED
  BY <1>2, NormalizeCovers DEF ShownKills

\* So the events of the feed are as the runs check.
LEMMA ShownIsSingle == FeedInv => OneEventPerKill
<1> SUFFICES ASSUME FeedInv PROVE OneEventPerKill
  OBVIOUS
<1> DEFINE shown == ShownKills
<1>1. Covers(shown, DetailedKills) /\ (ToldApart => Good(shown, DetailedKills, {"detail"}))
  BY ShownAtAll, ShownOnce
<1> HIDE DEF shown
<1>2. ASSUME NEW i \in DOMAIN killRows, ~Weak(killRows[i])
      PROVE  \E j \in DOMAIN shown : killRows[i].of \subseteq shown[j].of
  <2>1. Proper(killRows[i]) /\ killRows[i] \in Event
    BY DEF FeedInv, RowsGood
  <2>2. killRows[i].kind = "detail"
    BY <1>2, <2>1 DEF Weak, Quality, Event, Kind
  <2>3. PICK k : killRows[i].of = {k} /\ k \in DetailedKills
    BY <2>1, <2>2 DEF FeedInv, RowsGood, Proper
  <2>4. PICK j \in DOMAIN shown : k \in DetailOf(shown[j])
    BY <1>1, <2>3 DEF Covers
  <2> QED
    BY <2>3, <2>4 DEF DetailOf
<1>3. ASSUME ToldApart, NEW i \in DOMAIN shown PROVE Cardinality(shown[i].of) = 1
  <2>1. PICK k : shown[i].of = {k}
    BY <1>1, <1>3 DEF Good, Proper
  <2> QED
    BY <2>1, FS_Singleton
<1>4. ASSUME ToldApart, NEW i \in DOMAIN shown, NEW j \in DOMAIN shown, i # j
      PROVE  shown[i].of # shown[j].of
  BY <1>1, <1>4 DEF Good
<1> QED
  BY <1>2, <1>3, <1>4 DEF OneEventPerKill, shown

\* In every state each kill with a detailed row is shown, once when the stamps tell it from
\* the other kills of its victim.
THEOREM KillsAreShownOnce == FeedSpec => []OneEventPerKill
<1>1. FeedSpec => []FeedInv
  BY FeedStart, FeedStep, PTL DEF FeedSpec
<1> QED
  BY <1>1, ShownIsSingle, PTL

-----------------------------------------------------------------------------
(* The statistics of the kills that happened. *)

\* What a kill counts for in the intervals that end with it.
LEMMA IntervalStep ==
  ASSUME NEW p, NEW a \in Nat, NEW i \in Nat
  PROVE  /\ KillsOf(p, a, i) \in Nat /\ DeathsOf(p, a, i) \in Nat
         /\ a > i => KillsOf(p, a, i) = 0 /\ DeathsOf(p, a, i) = 0
         /\ KillsOf(p, a, i + 1) =
              IF a <= i + 1 /\ happened[i + 1].killer = p /\ happened[i + 1].victim # p
              THEN KillsOf(p, a, i) + 1 ELSE KillsOf(p, a, i)
         /\ DeathsOf(p, a, i + 1) =
              IF a <= i + 1 /\ happened[i + 1].victim = p THEN DeathsOf(p, a, i) + 1 ELSE DeathsOf(p, a, i)
<1>1. PICK kills : kills = {j \in Nat : happened[j].killer = p /\ happened[j].victim # p}
  OBVIOUS
<1>2. PICK deaths : deaths = {j \in Nat : happened[j].victim = p}
  OBVIOUS
<1>3. PICK in, next : in = {j \in a..i : j \in kills} /\ next = {j \in a..(i + 1) : j \in kills}
  OBVIOUS
<1>4. KillsOf(p, a, i) = Cardinality(in) /\ KillsOf(p, a, i + 1) = Cardinality(next)
  <2>1. in = {j \in a..i : happened[j].killer = p /\ happened[j].victim # p}
    BY <1>1, <1>3
  <2>2. next = {j \in a..(i + 1) : happened[j].killer = p /\ happened[j].victim # p}
    BY <1>1, <1>3
  <2> QED
    BY <2>1, <2>2 DEF KillsOf
<1>5. PICK din, dnext : din = {j \in a..i : j \in deaths} /\ dnext = {j \in a..(i + 1) : j \in deaths}
  OBVIOUS
<1>6. DeathsOf(p, a, i) = Cardinality(din) /\ DeathsOf(p, a, i + 1) = Cardinality(dnext)
  <2>1. din = {j \in a..i : happened[j].victim = p}
    BY <1>2, <1>5
  <2>2. dnext = {j \in a..(i + 1) : happened[j].victim = p}
    BY <1>2, <1>5
  <2> QED
    BY <2>1, <2>2 DEF DeathsOf
<1>7. /\ Cardinality(in) \in Nat
      /\ a > i => Cardinality(in) = 0
      /\ Cardinality(next) = IF a <= i + 1 /\ i + 1 \in kills THEN Cardinality(in) + 1 ELSE Cardinality(in)
  BY <1>3, CountStep
<1>8. /\ Cardinality(din) \in Nat
      /\ a > i => Cardinality(din) = 0
      /\ Cardinality(dnext) = IF a <= i + 1 /\ i + 1 \in deaths THEN Cardinality(din) + 1 ELSE Cardinality(din)
  BY <1>5, CountStep
<1>9. i + 1 \in kills <=> happened[i + 1].killer = p /\ happened[i + 1].victim # p
  BY <1>1
<1>10. i + 1 \in deaths <=> happened[i + 1].victim = p
  BY <1>2
<1> QED
  BY <1>4, <1>6, <1>7, <1>8, <1>9, <1>10

\* A streak is the number of kills of a stretch without a death, or zero.
LEMMA StreakIs ==
  ASSUME NEW p, NEW ends, NEW y
  PROVE  y \in Streaks(p, ends) <=>
           \/ y = 0
           \/ \E a \in 1..Len(happened), b \in ends : DeathsOf(p, a, b) = 0 /\ y = KillsOf(p, a, b)
<1> DEFINE D == {ab \in (1..Len(happened)) \X ends : DeathsOf(p, ab[1], ab[2]) = 0}
<1>1. y \in Streaks(p, ends) <=> y = 0 \/ \E ab \in D : y = KillsOf(p, ab[1], ab[2])
  BY DEF Streaks
<1>2. ASSUME NEW ab \in D
      PROVE  ab[1] \in 1..Len(happened) /\ ab[2] \in ends /\ DeathsOf(p, ab[1], ab[2]) = 0
  OBVIOUS
<1>3. ASSUME NEW a \in 1..Len(happened), NEW b \in ends, DeathsOf(p, a, b) = 0
      PROVE  <<a, b>> \in D /\ <<a, b>>[1] = a /\ <<a, b>>[2] = b
  BY <1>3
<1> HIDE DEF D
<1>4. (\E ab \in D : y = KillsOf(p, ab[1], ab[2])) =>
        \E a \in 1..Len(happened), b \in ends : DeathsOf(p, a, b) = 0 /\ y = KillsOf(p, a, b)
  BY <1>2
<1>5. (\E a \in 1..Len(happened), b \in ends : DeathsOf(p, a, b) = 0 /\ y = KillsOf(p, a, b)) =>
        \E ab \in D : y = KillsOf(p, ab[1], ab[2])
  <2> SUFFICES ASSUME NEW a \in 1..Len(happened), NEW b \in ends,
                      DeathsOf(p, a, b) = 0, y = KillsOf(p, a, b)
               PROVE  \E ab \in D : y = KillsOf(p, ab[1], ab[2])
    OBVIOUS
  <2> DEFINE ab == <<a, b>>
  <2>1. ab \in D /\ ab[1] = a /\ ab[2] = b
    BY <1>3
  <2> HIDE DEF ab
  <2> QED
    BY <2>1
<1> QED
  BY <1>1, <1>4, <1>5

LEMMA StreaksAreCounts ==
  ASSUME NEW p, NEW ends, \A a \in 1..Len(happened), b \in ends : KillsOf(p, a, b) \in Nat
  PROVE  Streaks(p, ends) \subseteq Nat
  BY StreakIs

\* The streak and the best one up to some kill.
Ongoing(p, i, m) == IsMax(Streaks(p, {i}), m)
Best(p, i, m) == IsMax(Streaks(p, 1..i), m)

\* The statistics of no kill, and of one more kill.
LEMMA NoStats ==
  ASSUME Len(happened) \in Nat, NEW p
  PROVE  /\ KillsOf(p, 1, 0) = 0 /\ DeathsOf(p, 1, 0) = 0
         /\ Ongoing(p, 0, 0) /\ Best(p, 0, 0)
<1>1. \A a \in 1..Len(happened) : a \in Nat /\ a > 0
  OBVIOUS
<1>2. \A a \in 1..Len(happened) : KillsOf(p, a, 0) = 0
  BY <1>1, IntervalStep
<1>3. \A y \in Streaks(p, {0}) : y = 0
  BY <1>2, StreakIs
<1>4. \A y \in Streaks(p, 1..0) : y = 0
  BY StreakIs
<1>5. 0 \in Streaks(p, {0}) /\ 0 \in Streaks(p, 1..0)
  BY StreakIs
<1>6. KillsOf(p, 1, 0) = 0 /\ DeathsOf(p, 1, 0) = 0
  BY IntervalStep
<1> QED
  BY <1>3, <1>4, <1>5, <1>6 DEF Ongoing, Best, IsMax

\* The streak after one more kill.
LEMMA CurrentStep ==
  ASSUME Len(happened) \in Nat, NEW p, NEW i \in Nat, i + 1 <= Len(happened),
         NEW m \in Nat, Ongoing(p, i, m)
  PROVE  LET k == happened[i + 1]
         IN  Ongoing(p, i + 1, IF k.victim = p THEN 0 ELSE IF k.killer = p THEN m + 1 ELSE m)
<1> DEFINE n == Len(happened)
           k == happened[i + 1]
           m2 == IF k.victim = p THEN 0 ELSE IF k.killer = p THEN m + 1 ELSE m
<1>1. n \in Nat /\ i + 1 \in 1..n /\ \A a \in 1..n : a \in Nat
  OBVIOUS
<1>2. \A a \in 1..n :
        /\ KillsOf(p, a, i) \in Nat /\ DeathsOf(p, a, i) \in Nat
        /\ a > i => KillsOf(p, a, i) = 0 /\ DeathsOf(p, a, i) = 0
        /\ KillsOf(p, a, i + 1) = IF a <= i + 1 /\ k.killer = p /\ k.victim # p
                                  THEN KillsOf(p, a, i) + 1 ELSE KillsOf(p, a, i)
        /\ DeathsOf(p, a, i + 1) = IF a <= i + 1 /\ k.victim = p
                                   THEN DeathsOf(p, a, i) + 1 ELSE DeathsOf(p, a, i)
  BY <1>1, IntervalStep
<1>3. /\ m = 0 \/ \E a \in 1..n : DeathsOf(p, a, i) = 0 /\ m = KillsOf(p, a, i)
      /\ \A a \in 1..n : DeathsOf(p, a, i) = 0 => KillsOf(p, a, i) <= m
  <2>1. m \in Streaks(p, {i}) /\ \A y \in Streaks(p, {i}) : y <= m
    BY DEF Ongoing, IsMax
  <2>2. \A a \in 1..n : DeathsOf(p, a, i) = 0 => KillsOf(p, a, i) \in Streaks(p, {i})
    BY StreakIs, Zenon
  <2>3. m = 0 \/ \E a \in 1..n, b \in {i} : DeathsOf(p, a, b) = 0 /\ m = KillsOf(p, a, b)
    BY <2>1, StreakIs
  <2> QED
    BY <2>1, <2>2, <2>3
<1> HIDE DEF n, k
<1>4. m2 = 0 \/ \E a \in 1..n : DeathsOf(p, a, i + 1) = 0 /\ m2 = KillsOf(p, a, i + 1)
  <2>1. CASE k.victim # p /\ k.killer = p
    <3>1. CASE \E a \in 1..n : a <= i /\ DeathsOf(p, a, i) = 0 /\ m = KillsOf(p, a, i)
      <4>1. PICK a \in 1..n : a <= i /\ DeathsOf(p, a, i) = 0 /\ m = KillsOf(p, a, i)
        BY <3>1
      <4>2. a <= i + 1
        BY <4>1
      <4>3. DeathsOf(p, a, i + 1) = 0 /\ KillsOf(p, a, i + 1) = m + 1
        BY <1>2, <2>1, <4>1, <4>2
      <4> QED
        BY <2>1, <4>3
    <3>2. CASE ~\E a \in 1..n : a <= i /\ DeathsOf(p, a, i) = 0 /\ m = KillsOf(p, a, i)
      <4>1. m = 0
        BY <1>2, <1>3, <3>2
      <4>2. DeathsOf(p, i + 1, i + 1) = 0 /\ KillsOf(p, i + 1, i + 1) = 1
        BY <1>1, <1>2, <2>1
      <4> QED
        BY <1>1, <2>1, <4>1, <4>2
    <3> QED
      BY <3>1, <3>2
  <2>2. CASE k.victim # p /\ k.killer # p
    BY <1>2, <1>3, <2>2
  <2> QED
    BY <2>1, <2>2
<1>5. ASSUME NEW a \in 1..n, DeathsOf(p, a, i + 1) = 0 PROVE KillsOf(p, a, i + 1) <= m2
  <2>1. CASE k.victim = p
    <3>1. a > i + 1 \/ DeathsOf(p, a, i) + 1 = 0
      BY <1>1, <1>2, <1>5, <2>1
    <3>2. a > i + 1 /\ a > i
      BY <1>1, <1>2, <3>1
    <3> QED
      BY <1>2, <2>1, <3>2
  <2>2. CASE k.victim # p
    <3>1. KillsOf(p, a, i) <= m /\ KillsOf(p, a, i) \in Nat
      BY <1>2, <1>3, <1>5, <2>2
    <3> QED
      BY <1>2, <2>2, <3>1
  <2> QED
    BY <2>1, <2>2
<1>6. m2 \in Nat
  OBVIOUS
<1> HIDE DEF m2
<1>7. m2 \in Streaks(p, {i + 1})
  BY <1>4, StreakIs DEF n
<1>8. \A y \in Streaks(p, {i + 1}) : y <= m2
  BY <1>5, <1>6, StreakIs DEF n
<1>9. Ongoing(p, i + 1, m2)
  BY <1>7, <1>8 DEF Ongoing, IsMax
<1> QED
  BY <1>9 DEF m2, k

\* The best streak after one more kill.
LEMMA BestStep ==
  ASSUME Len(happened) \in Nat, NEW p, NEW i \in Nat, NEW m \in Nat, NEW b \in Nat,
         Ongoing(p, i + 1, m), Best(p, i, b)
  PROVE  Best(p, i + 1, IF m > b THEN m ELSE b)
<1>1. 1..(i + 1) = 1..i \cup {i + 1}
  OBVIOUS
<1>2. \A y : y \in Streaks(p, 1..(i + 1)) <=> y \in Streaks(p, 1..i) \/ y \in Streaks(p, {i + 1})
  BY <1>1, StreakIs
<1>3. /\ m \in Streaks(p, {i + 1}) /\ \A y \in Streaks(p, {i + 1}) : y <= m
      /\ b \in Streaks(p, 1..i) /\ \A y \in Streaks(p, 1..i) : y <= b
  BY DEF Ongoing, Best, IsMax
<1>4. Streaks(p, {i + 1}) \subseteq Nat /\ Streaks(p, 1..i) \subseteq Nat
  <2>1. \A a \in 1..Len(happened) : a \in Nat
    OBVIOUS
  <2>2. \A a \in 1..Len(happened), c \in 0..(i + 1) : KillsOf(p, a, c) \in Nat
    BY <2>1, IntervalStep
  <2>3. \A a \in 1..Len(happened), c \in {i + 1} : KillsOf(p, a, c) \in Nat
    BY <2>2
  <2>4. \A a \in 1..Len(happened), c \in 1..i : KillsOf(p, a, c) \in Nat
    BY <2>2
  <2> QED
    BY <2>3, <2>4, StreaksAreCounts
<1> DEFINE best == IF m > b THEN m ELSE b
<1>5. best \in Streaks(p, 1..(i + 1))
  BY <1>2, <1>3
<1>6. ASSUME NEW y \in Streaks(p, 1..(i + 1)) PROVE y <= best
  <2>1. y \in Nat /\ (y <= m \/ y <= b)
    BY <1>2, <1>3, <1>4
  <2> QED
    BY <2>1
<1> QED
  BY <1>5, <1>6 DEF Best, IsMax

-----------------------------------------------------------------------------
(* The statistics that the panel shows. *)

Ascends(list) == \A i, j \in DOMAIN list : i < j => list[i].time <= list[j].time

\* Insert adds an event to a sorted list where the list stays sorted.
LEMMA InsertAscends ==
  ASSUME NEW s \in Seq(Event), NEW e \in Event, Ascends(s)
  PROVE  \E at : Adds(Insert(s, e, Older), s, e, at) /\ Ascends(Insert(s, e, Older))
<1> DEFINE n == Len(s)
           B == {i \in DOMAIN s : ~Older(e, s[i])}
           at == Cardinality(B) + 1
           t == InsertAt(s, at, e)
<1>1. n \in Nat /\ DOMAIN s = 1..n /\ e.time \in Int /\ \A i \in 1..n : s[i].time \in Int
  <2>1. \A x \in Event : x.time \in Int
    BY DEF Event
  <2>2. \A i \in 1..n : s[i] \in Event
    OBVIOUS
  <2> QED
    BY <2>1, <2>2
<1>2. \A i \in 1..n : i \in B <=> s[i].time <= e.time
  BY <1>1 DEF Older
<1>3. \A i, j \in 1..n : i < j => s[i].time <= s[j].time
  BY <1>1 DEF Ascends
<1>4. B \in SUBSET (1..n)
  BY <1>1
<1>5. Insert(s, e, Older) = t
  BY DEF Insert
<1> HIDE DEF B, n
<1>6. \A i, j \in 1..n : i < j /\ j \in B => i \in B
  <2> TAKE i, j \in 1..n
  <2> HAVE i < j /\ j \in B
  <2>1. s[i].time <= s[j].time /\ s[j].time <= e.time
    BY <1>2, <1>3
  <2>2. s[i].time \in Int /\ s[j].time \in Int /\ e.time \in Int
    BY <1>1
  <2>3. s[i].time <= e.time
    BY <2>1, <2>2
  <2> QED
    BY <1>2, <2>3
<1>7. Cardinality(B) \in 0..n /\ B = 1..Cardinality(B)
  BY <1>1, <1>4, <1>6, InitialSegment
<1>8. at \in 1..(n + 1) /\ \A i \in 1..n : i \in B <=> i < at
  BY <1>1, <1>7
<1> HIDE DEF at
<1>9. /\ t \in Seq(Event) /\ Len(t) = n + 1 /\ t[at] = e
      /\ \A j \in 1..n : t[IF j < at THEN j ELSE j + 1] = s[j]
  BY <1>8, InsertAtIs DEF n
<1> HIDE DEF t
<1>10. Adds(t, s, e, at)
  BY <1>8, <1>9 DEF Adds, n
<1>11. \A i \in 1..(n + 1) :
         /\ i < at => i \in 1..n /\ t[i].time = s[i].time /\ s[i].time <= e.time
         /\ i > at => i - 1 \in 1..n /\ t[i].time = s[i - 1].time /\ e.time < s[i - 1].time
  <2> TAKE i \in 1..(n + 1)
  <2>1. CASE i < at
    <3>1. i \in 1..n
      BY <1>1, <1>8, <2>1
    <3> QED
      BY <1>1, <1>2, <1>8, <1>9, <2>1, <3>1
  <2>2. CASE i > at
    <3>1. i - 1 \in 1..n /\ ~(i - 1 < at) /\ (i - 1) + 1 = i
      BY <1>1, <1>8, <2>2
    <3>2. t[i] = s[i - 1]
      BY <1>9, <3>1
    <3>3. ~(s[i - 1].time <= e.time)
      BY <1>2, <1>8, <3>1
    <3> QED
      BY <1>1, <1>8, <2>2, <3>1, <3>2, <3>3
  <2> QED
    BY <1>1, <1>8, <2>1, <2>2
<1>12. ASSUME NEW i \in 1..(n + 1), NEW j \in 1..(n + 1), i < j PROVE t[i].time <= t[j].time
  <2>1. CASE j < at
    BY <1>1, <1>3, <1>8, <1>11, <1>12, <2>1
  <2>2. CASE j = at
    BY <1>1, <1>8, <1>9, <1>11, <1>12, <2>2
  <2>3. CASE i < at /\ j > at
    <3>1. t[i].time <= e.time /\ e.time < t[j].time /\ t[i].time \in Int /\ t[j].time \in Int
      BY <1>1, <1>11, <2>3
    <3> QED
      BY <1>1, <3>1
  <2>4. CASE i = at
    <3>1. j > at
      BY <1>12, <2>4
    <3>2. e.time < t[j].time /\ t[j].time \in Int
      BY <1>1, <1>11, <3>1
    <3> QED
      BY <1>1, <1>9, <2>4, <3>2
  <2>5. CASE i > at
    <3>1. j > at /\ i - 1 < j - 1
      BY <1>8, <1>12, <2>5
    <3>2. i - 1 \in 1..n /\ j - 1 \in 1..n /\ t[i].time = s[i - 1].time /\ t[j].time = s[j - 1].time
      BY <1>11, <2>5, <3>1
    <3> QED
      BY <1>3, <3>1, <3>2
  <2> QED
    BY <1>8, <1>12, <2>1, <2>2, <2>3, <2>4, <2>5
<1>13. DOMAIN t = 1..(n + 1)
  BY <1>1, <1>9
<1>14. Ascends(t)
  BY <1>12, <1>13 DEF Ascends
<1> QED
  BY <1>5, <1>10, <1>14

\* Sorting from the oldest to the newest keeps the events.
LEMMA SortAscGood ==
  ASSUME NEW kinds, NEW kills, NEW list, Good(list, kills, kinds)
  PROVE  Good(SortAsc(list), kills, kinds) /\ Ascends(SortAsc(list))
<1> DEFINE n == Len(list)
<1>1. list \in Seq(Event) /\ n \in Nat /\ \A i \in 1..n : list[i] \in Event
  BY DEF Good
<1>2. PICK f \in [0..n -> Seq(Event)] :
        /\ SortAsc(list) = f[n] /\ f[0] = <<>>
        /\ \A i \in 1..n : f[i] = Insert(f[i - 1], list[i], Older)
  BY <1>1, SortAscLoop
<1> DEFINE P == {i \in Nat : i <= n => Ascends(f[i])}
<1> HIDE DEF n
<1>3. 0 \in P
  <2>1. Ascends(<<>>)
    BY DEF Ascends
  <2> QED
    BY <1>2, <2>1
<1>4. ASSUME NEW i \in Nat, i \in P PROVE i + 1 \in P
  <2> SUFFICES ASSUME i + 1 <= n PROVE Ascends(f[i + 1])
    OBVIOUS
  <2>1. i + 1 \in 1..n /\ (i + 1) - 1 = i /\ i \in 0..n
    BY <1>1
  <2>2. Ascends(f[i]) /\ f[i] \in Seq(Event)
    BY <1>2, <1>4, <2>1
  <2>3. f[i + 1] = Insert(f[i], list[i + 1], Older)
    BY <1>2, <2>1
  <2> QED
    BY <1>1, <2>1, <2>2, <2>3, InsertAscends
<1> HIDE DEF P
<1>5. Nat \subseteq P
  BY <1>3, <1>4, NatInd
<1>6. \A i \in 0..n : Ascends(f[i])
  BY <1>1, <1>5 DEF P
<1>7. ASSUME NEW i \in 1..n, NEW some, Good(f[i - 1], some, kinds), DetailOf(list[i]) \cap some = {}
      PROVE  Good(f[i], some \cup DetailOf(list[i]), kinds)
  <2>1. PICK e \in Event : e = list[i] /\ Proper(e) /\ e.kind \in kinds
    BY <1>1 DEF Good, n
  <2>2. i - 1 \in 0..n
    BY <1>1
  <2>3. PICK s \in Seq(Event) : s = f[i - 1] /\ Good(s, some, kinds) /\ Ascends(s)
    BY <1>2, <1>6, <1>7, <2>2
  <2>4. PICK at : Adds(Insert(s, e, Older), s, e, at)
    BY <2>3, InsertAscends
  <2>5. Good(Insert(s, e, Older), some \cup DetailOf(e), kinds)
    BY <1>7, <2>1, <2>3, <2>4, AddsGood
  <2> QED
    BY <1>2, <2>1, <2>3, <2>5
<1>8. Gathers(f, list, kinds)
  BY <1>2, <1>7 DEF Gathers, n
<1>9. Good(f[n], kills, kinds)
  BY <1>8, GathersGood DEF n
<1> QED
  BY <1>1, <1>2, <1>6, <1>9

\* Of kills in order, each with a detail, the sorted events are one of each in their order.
LEMMA EventsAreKills ==
  ASSUME FeedInv, InOrder, NEW events,
         Good(events, DOMAIN happened, {"detail"}), Ascends(events)
  PROVE  /\ Len(events) = Len(happened)
         /\ \A i \in DOMAIN happened :
              events[i].killer = happened[i].killer /\ events[i].victim = happened[i].victim
<1> DEFINE n == Len(happened)
           L == Len(events)
<1>1. /\ n \in Nat /\ DOMAIN happened = 1..n /\ L \in Nat /\ DOMAIN events = 1..L
      /\ \A i \in 1..L : events[i].time \in Int
  <2>1. happened \in Seq(Kill) /\ events \in Seq(Event)
    BY DEF FeedInv, Good
  <2>2. \A x \in Event : x.time \in Int
    BY DEF Event
  <2>3. \A i \in 1..L : events[i] \in Event
    BY <2>1
  <2> QED
    BY <2>1, <2>2, <2>3
<1>2. \A i \in 1..L : Proper(events[i]) /\ events[i].kind = "detail"
  BY <1>1 DEF Good
<1>3. \A i, j \in 1..L : events[i].of = events[j].of => i = j
  BY <1>1, <1>2 DEF Good
<1>4. \A k \in 1..n : \E i \in 1..L : events[i].of = {k}
  BY <1>1 DEF Good
<1>5. \A i, j \in 1..L : i < j => events[i].time <= events[j].time
  BY <1>1 DEF Ascends
<1> HIDE DEF n, L
<1> DEFINE Of(i, k) == /\ events[i].of = {k} /\ events[i].victim = happened[k].victim
                       /\ events[i].killer = happened[k].killer
                       /\ events[i].time \in Stamps(happened[k].time)
           f == [i \in 1..L |-> CHOOSE k \in 1..n : Of(i, k)]
<1>6. \A i \in 1..L : \E k \in 1..n : Of(i, k)
  BY <1>1, <1>2 DEF Proper
<1>7. f \in [1..L -> 1..n] /\ \A i \in 1..L : Of(i, f[i])
  BY <1>6
<1> HIDE DEF f
<1>8. ASSUME NEW i \in 1..L, NEW j \in 1..L, i < j PROVE f[i] < f[j]
  <2>1. f[i] # f[j]
    <3>1. events[i].of = {f[i]} /\ events[j].of = {f[j]}
      BY <1>7
    <3>2. i # j
      BY <1>1, <1>8
    <3> QED
      BY <1>3, <3>1, <3>2
  <2>2. ASSUME f[j] < f[i] PROVE FALSE
    <3>1. f[i] \in DOMAIN happened /\ f[j] \in DOMAIN happened
      BY <1>1, <1>7
    <3>2. events[j].time < events[i].time
      BY <1>7, <2>2, <3>1 DEF InOrder
    <3> QED
      BY <1>1, <1>5, <1>8, <3>2
  <2>3. f[i] \in Nat /\ f[j] \in Nat
    BY <1>1, <1>7
  <2> QED
    BY <2>1, <2>2, <2>3
<1>9. \A k \in 1..n : \E i \in 1..L : f[i] = k
  <2> TAKE k \in 1..n
  <2>1. PICK i \in 1..L : events[i].of = {k}
    BY <1>4
  <2>2. f[i] = k
    BY <1>7, <2>1
  <2> QED
    BY <2>2
<1>10. L = n /\ \A i \in 1..L : f[i] = i
  <2>1. f \in [1..L -> 1..n] /\ n \in Nat /\ L \in Nat
    BY <1>1, <1>7
  <2>2. \A i, j \in 1..L : i < j => f[i] < f[j]
    BY <1>8
  <2> HIDE DEF Of
  <2>3. Rises(f, L, n)
    BY <1>9, <2>1, <2>2 DEF Rises
  <2> QED
    BY <2>3, RisingOnto
<1> QED
  BY <1>1, <1>7, <1>10 DEF n, L

\* The statistics after some of the kills.
StatsUpTo(p, i, s) ==
  \E m, b \in Nat : /\ Ongoing(p, i, m) /\ Best(p, i, b) /\ m <= b
                    /\ s = [kills |-> KillsOf(p, 1, i), deaths |-> DeathsOf(p, 1, i),
                            current |-> m, best |-> b]

LEMMA StatsStep ==
  ASSUME Len(happened) \in Nat, NEW p, NEW i \in Nat, i + 1 <= Len(happened),
         NEW e, e.killer = happened[i + 1].killer, e.victim = happened[i + 1].victim,
         NEW s, StatsUpTo(p, i, s)
  PROVE  StatsUpTo(p, i + 1, Count(p, s, e))
<1>1. PICK m, b \in Nat : /\ Ongoing(p, i, m) /\ Best(p, i, b) /\ m <= b
                          /\ s = [kills |-> KillsOf(p, 1, i), deaths |-> DeathsOf(p, 1, i),
                                  current |-> m, best |-> b]
  BY DEF StatsUpTo
<1> DEFINE m2 == IF e.victim = p THEN 0 ELSE IF e.killer = p THEN m + 1 ELSE m
           b2 == IF m2 > b THEN m2 ELSE b
<1>2. m2 \in Nat /\ b2 \in Nat
  OBVIOUS
<1>3. Ongoing(p, i + 1, m2)
  BY <1>1, CurrentStep
<1>4. Best(p, i + 1, b2)
  <2> HIDE DEF m2
  <2> QED
    BY <1>1, <1>2, <1>3, BestStep
<1>5. /\ KillsOf(p, 1, i) \in Nat /\ DeathsOf(p, 1, i) \in Nat
      /\ KillsOf(p, 1, i + 1) =
           IF e.killer = p /\ e.victim # p THEN KillsOf(p, 1, i) + 1 ELSE KillsOf(p, 1, i)
      /\ DeathsOf(p, 1, i + 1) = IF e.victim = p THEN DeathsOf(p, 1, i) + 1 ELSE DeathsOf(p, 1, i)
  <2>1. 1 \in Nat /\ 1 <= i + 1
    OBVIOUS
  <2>2. /\ KillsOf(p, 1, i) \in Nat /\ DeathsOf(p, 1, i) \in Nat
        /\ KillsOf(p, 1, i + 1) =
             IF 1 <= i + 1 /\ happened[i + 1].killer = p /\ happened[i + 1].victim # p
             THEN KillsOf(p, 1, i) + 1 ELSE KillsOf(p, 1, i)
        /\ DeathsOf(p, 1, i + 1) =
             IF 1 <= i + 1 /\ happened[i + 1].victim = p THEN DeathsOf(p, 1, i) + 1 ELSE DeathsOf(p, 1, i)
    BY <2>1, IntervalStep
  <2> QED
    BY <2>1, <2>2
<1>6. m2 <= b2
  OBVIOUS
<1>7. Count(p, s, e) = [kills |-> KillsOf(p, 1, i + 1), deaths |-> DeathsOf(p, 1, i + 1),
                        current |-> m2, best |-> b2]
  <2>1. CASE e.killer = p /\ e.victim # p
    BY <1>1, <1>5, <2>1 DEF Count
  <2>2. CASE e.victim = p
    <3>1. m2 = 0 /\ b2 = b
      BY <2>2
    <3>2. Count(p, s, e) = [s EXCEPT !.deaths = @ + 1, !.current = 0]
      BY <2>2 DEF Count
    <3> QED
      BY <1>1, <1>5, <2>2, <3>1, <3>2
  <2>3. CASE e.victim # p /\ e.killer # p
    BY <1>1, <1>5, <2>3 DEF Count
  <2> QED
    BY <2>1, <2>2, <2>3
<1> HIDE DEF m2, b2
<1> QED
  BY <1>2, <1>3, <1>4, <1>6, <1>7 DEF StatsUpTo

\* The loop over the events is a function of the places it has passed.
LEMMA StatsLoop ==
  ASSUME NEW p, NEW events \in Seq(Event), events = SortAsc(ShownKills)
  PROVE  \E f : /\ CombatStats(p) = f[Len(events)]
               /\ f[0] = [kills |-> 0, deaths |-> 0, current |-> 0, best |-> 0]
               /\ \A i \in 1..Len(events) : f[i] = Count(p, f[i - 1], events[i])
<1> DEFINE V == [kills : Nat, deaths : Nat, current : Nat, best : Nat]
           n == Len(events)
           first == [kills |-> 0, deaths |-> 0, current |-> 0, best |-> 0]
           g == [y \in (1..n) \X V |-> Count(p, y[2], events[y[1]])]
<1>1. n \in Nat /\ first \in V
  OBVIOUS
<1>2. ASSUME NEW s \in V, NEW e PROVE Count(p, s, e) \in V
  <2>1. CASE e.killer = p /\ e.victim # p
    <3>1. PICK kills, current, best \in Nat :
            /\ kills = s.kills + 1 /\ current = s.current + 1
            /\ best = IF s.current + 1 > s.best THEN s.current + 1 ELSE s.best
      OBVIOUS
    <3>2. Count(p, s, e) = [s EXCEPT !.kills = kills, !.current = current, !.best = best]
      BY <2>1, <3>1 DEF Count
    <3> QED
      BY <3>1, <3>2
  <2>2. CASE e.victim = p
    <3>1. PICK deaths, current \in Nat : deaths = s.deaths + 1 /\ current = 0
      OBVIOUS
    <3>2. Count(p, s, e) = [s EXCEPT !.deaths = deaths, !.current = current]
      BY <2>2, <3>1 DEF Count
    <3> QED
      BY <3>2
  <2>3. CASE e.victim # p /\ e.killer # p
    BY <2>3 DEF Count
  <2> QED
    BY <2>1, <2>2, <2>3
<1> HIDE DEF V, first
<1>3. g \in [(1..n) \X V -> V]
  BY <1>1, <1>2
<1>4. PICK f \in [0..n -> V] : f[0] = first /\ \A i \in 1..n : f[i] = g[<<i, f[i - 1]>>]
  <2> HIDE DEF n, g
  <2>1. LoopBody(V, n, first, g)
    BY <1>1, <1>3 DEF LoopBody
  <2> QED
    BY <2>1, Loop
<1>5. ASSUME NEW i \in 1..n PROVE f[i] = Count(p, f[i - 1], events[i])
  <2>1. i - 1 \in 0..n
    BY <1>1
  <2>2. <<i, f[i - 1]>> \in (1..n) \X V
    BY <2>1
  <2> QED
    BY <1>4, <2>2
<1> DEFINE stats[i \in 0..Len(events)] ==
             IF i = 0 THEN [kills |-> 0, deaths |-> 0, current |-> 0, best |-> 0]
             ELSE Count(p, stats[i - 1], events[i])
<1>6. f = [i \in 0..Len(events) |->
             IF i = 0 THEN [kills |-> 0, deaths |-> 0, current |-> 0, best |-> 0]
             ELSE Count(p, f[i - 1], events[i])]
  <2>1. \A i \in 0..n : f[i] = IF i = 0 THEN first ELSE Count(p, f[i - 1], events[i])
    <3> TAKE i \in 0..n
    <3>1. i = 0 \/ i \in 1..n
      BY <1>1
    <3> QED
      BY <1>4, <1>5, <3>1
  <2> QED
    BY <2>1 DEF first
<1>7. stats = [i \in 0..Len(events) |->
                IF i = 0 THEN [kills |-> 0, deaths |-> 0, current |-> 0, best |-> 0]
                ELSE Count(p, stats[i - 1], events[i])]
  BY <1>6
<1>8. CombatStats(p) = stats[Len(events)]
  BY DEF CombatStats
<1> HIDE DEF stats
<1>9. stats[0] = first /\ \A i \in 1..n : stats[i] = Count(p, stats[i - 1], events[i])
  <2>1. 0 \in 0..Len(events) /\ \A i \in 1..n : i \in 0..Len(events) /\ i # 0
    BY <1>1
  <2> QED
    BY <1>7, <2>1 DEF first
<1> QED
  BY <1>8, <1>9 DEF first

\* So what is shown of kills in order, each with a detail, is true of them.
LEMMA StatsOfKills == FeedInv => StatsAreTrue
<1> SUFFICES ASSUME FeedInv, ToldApart, InOrder, Detailed, NEW p \in Person
             PROVE  LET last == Len(happened)
                    IN  CombatStats(p) =
                          [kills |-> KillsOf(p, 1, last), deaths |-> DeathsOf(p, 1, last),
                           current |-> Max(Streaks(p, {last})), best |-> Max(Streaks(p, 1..last))]
  BY DEF StatsAreTrue
<1> DEFINE n == Len(happened)
           events == SortAsc(ShownKills)
<1>1. KillsApart /\ RowsGood(killRows, DetailedKills) /\ happened \in Seq(Kill)
  BY ShownOnce DEF FeedInv
<1>2. n \in Nat /\ DOMAIN happened = 1..n
  BY <1>1
<1>3. DetailedKills = DOMAIN happened
  <2>1. ASSUME NEW k \in DOMAIN happened PROVE k \in DetailedKills
    <3>1. PICK j \in DOMAIN killRows : ~Weak(killRows[j]) /\ k \in killRows[j].of
      BY DEF Detailed
    <3>2. killRows[j] \in Event
      BY <1>1 DEF RowsGood
    <3>3. killRows[j].kind = "detail"
      BY <3>1, <3>2 DEF Weak, Quality, Event, Kind
    <3> QED
      BY <1>1, <3>1, <3>3 DEF RowsGood
  <2> QED
    BY <2>1 DEF DetailedKills
<1>5. Good(ShownKills, DetailedKills, {"detail"})
  BY ShownOnce
<1>6. Good(events, DOMAIN happened, {"detail"}) /\ Ascends(events)
  BY <1>3, <1>5, SortAscGood
<1>7. events \in Seq(Event)
  BY <1>6 DEF Good
<1>8. /\ Len(events) = n
      /\ \A i \in 1..n : events[i].killer = happened[i].killer /\ events[i].victim = happened[i].victim
  <2> HIDE DEF events
  <2> QED
    BY <1>2, <1>6, EventsAreKills
<1>9. PICK f : /\ CombatStats(p) = f[n]
               /\ f[0] = [kills |-> 0, deaths |-> 0, current |-> 0, best |-> 0]
               /\ \A i \in 1..n : f[i] = Count(p, f[i - 1], events[i])
  <2>1. \E f : /\ CombatStats(p) = f[Len(events)]
               /\ f[0] = [kills |-> 0, deaths |-> 0, current |-> 0, best |-> 0]
               /\ \A i \in 1..Len(events) : f[i] = Count(p, f[i - 1], events[i])
    BY <1>7, StatsLoop
  <2> HIDE DEF events, n
  <2> QED
    BY <1>8, <2>1
<1> HIDE DEF events, n
<1> DEFINE P == {i \in Nat : i <= n => StatsUpTo(p, i, f[i])}
<1>10. 0 \in P
  BY <1>1, <1>9, NoStats DEF StatsUpTo
<1>11. ASSUME NEW i \in Nat, i \in P PROVE i + 1 \in P
  <2> SUFFICES ASSUME i + 1 <= n PROVE StatsUpTo(p, i + 1, f[i + 1])
    OBVIOUS
  <2>1. i + 1 \in 1..n /\ (i + 1) - 1 = i /\ i <= n
    BY <1>2
  <2>2. StatsUpTo(p, i, f[i]) /\ f[i + 1] = Count(p, f[i], events[i + 1])
    BY <1>9, <1>11, <2>1
  <2>3. events[i + 1].killer = happened[i + 1].killer /\ events[i + 1].victim = happened[i + 1].victim
    BY <1>8, <2>1
  <2>4. i + 1 <= Len(happened)
    BY <2>1 DEF n
  <2> QED
    BY <1>1, <2>2, <2>3, <2>4, StatsStep
<1> HIDE DEF P
<1>12. n \in P
  BY <1>2, <1>10, <1>11, NatInd
<1>13. PICK m, b \in Nat : /\ Ongoing(p, n, m) /\ Best(p, n, b)
                           /\ f[n] = [kills |-> KillsOf(p, 1, n), deaths |-> DeathsOf(p, 1, n),
                                      current |-> m, best |-> b]
  BY <1>2, <1>12 DEF P, StatsUpTo
<1>14. Streaks(p, {n}) \subseteq Nat /\ Streaks(p, 1..n) \subseteq Nat
  <2>1. \A a \in 1..n : a \in Nat
    BY <1>2
  <2>2. \A a \in 1..n, c \in 0..n : KillsOf(p, a, c) \in Nat
    BY <1>2, <2>1, IntervalStep
  <2>3. \A a \in 1..n, c \in {n} : KillsOf(p, a, c) \in Nat
    BY <1>2, <2>2
  <2>4. \A a \in 1..n, c \in 1..n : KillsOf(p, a, c) \in Nat
    BY <1>2, <2>2
  <2> QED
    BY <2>3, <2>4, StreaksAreCounts DEF n
<1>15. Max(Streaks(p, {n})) = m /\ Max(Streaks(p, 1..n)) = b
  BY <1>13, <1>14, MaxIs DEF Ongoing, Best
<1> QED
  BY <1>9, <1>13, <1>15 DEF n

\* In every state the statistics of a player are those of the kills that happened, when the
\* logs have each in detail and the clock difference does not change their order.
THEOREM StatsAreRight == FeedSpec => []StatsAreTrue
<1>1. FeedSpec => []FeedInv
  BY FeedStart, FeedStep, PTL DEF FeedSpec
<1> QED
  BY <1>1, StatsOfKills, PTL

\* The kills, the rows of the logs and the answer keep their types.
LEMMA FeedTypes == FeedSpec => []FeedTypeOK
<1>1. FeedInv => FeedTypeOK
  <2> SUFFICES ASSUME FeedInv PROVE FeedTypeOK
    OBVIOUS
  <2>1. /\ happened \in Seq(Kill) /\ Len(happened) <= KillMax /\ offset \in Offsets
        /\ inLogs \in Seq(SUBSET KillRow) /\ Len(inLogs) = Len(happened) /\ killRows \in Seq(Event)
    BY DEF FeedInv, RowsGood
  <2>2. DOMAIN happened = 1..Len(happened) /\ inLogs \in [1..Len(inLogs) -> SUBSET KillRow]
    BY <2>1
  <2> QED
    BY <2>1, <2>2 DEF FeedTypeOK
<1> QED
  BY <1>1, FeedStart, FeedStep, PTL DEF FeedSpec

-----------------------------------------------------------------------------
(* The scan of an answer that was cut off. *)

\* A place that does not end the scan leads to the next one.
LEMMA AfterTyped ==
  ASSUME NEW s \in ScanState, NEW t, ~Ends(s, t)
  PROVE  After(s, t) \in ScanState /\ After(s, t).at = s.at + 1
<1>1. s.at \in Nat /\ s.open \in Nat
  BY DEF ScanState
<1>2. PICK at \in Nat : at = s.at + 1
  BY <1>1
<1>3. CASE s.inString
  <2>1. PICK inString \in BOOLEAN : inString = (s.esc \/ t # "quote")
    OBVIOUS
  <2>2. PICK esc \in BOOLEAN : esc = (~s.esc /\ t = "backslash")
    OBVIOUS
  <2>3. After(s, t) = [s EXCEPT !.at = at, !.inString = inString, !.esc = esc]
    BY <1>2, <1>3, <2>1, <2>2 DEF After
  <2>4. [s EXCEPT !.at = at, !.inString = inString, !.esc = esc] \in ScanState
    BY DEF ScanState
  <2> QED
    BY <1>2, <2>3, <2>4 DEF ScanState
<1>4. CASE ~s.inString
  <2>1. PICK inString \in BOOLEAN : inString = (t = "quote")
    OBVIOUS
  <2>2. t = "rbrace" => ~(s.open <= 1)
    BY <1>4 DEF Ends
  <2>3. PICK open \in Nat : open = IF t = "lbrace" THEN s.open + 1 ELSE IF t = "rbrace" THEN s.open - 1 ELSE s.open
    BY <1>1, <2>2
  <2>4. After(s, t) = [s EXCEPT !.at = at, !.inString = inString, !.open = open]
    BY <1>2, <1>4, <2>1, <2>3 DEF After
  <2>5. [s EXCEPT !.at = at, !.inString = inString, !.open = open] \in ScanState
    BY DEF ScanState
  <2> QED
    BY <1>2, <2>4, <2>5 DEF ScanState
<1> QED
  BY <1>3, <1>4

\* The recursion of findJsonObjectEnd is well-founded: each turn is for a later place.
LEMMA ScanIs ==
  ASSUME NEW text \in Seq(Token), NEW start \in 1..Len(text)
  PROVE  \E f :
           /\ ObjectEnd(text, start) = f[ScanFrom(start)]
           /\ \A s \in ScanState : s.at <= Len(text) + 1 =>
                f[s] = IF s.at > Len(text) THEN 0
                       ELSE IF Ends(s, text[s.at]) THEN (IF s.open = 1 THEN s.at ELSE 0)
                       ELSE f[After(s, text[s.at])]
<1> DEFINE L == Len(text)
           D == {x \in ScanState : x.at <= Len(text) + 1}
           V == 0..L
           last == {s \in D : s.at > L \/ Ends(s, text[s.at])}
           val == [s \in D |-> IF s.at <= L /\ s.open = 1 THEN s.at ELSE 0]
           next == [s \in D |-> IF s \in last THEN s ELSE After(s, text[s.at])]
           rank == [s \in D |-> L + 1 - s.at]
           step == [y \in D \X V |-> y[2]]
           N == L + 1
           scan[s \in {x \in ScanState : x.at <= Len(text) + 1}] ==
             IF s.at > Len(text) THEN 0
             ELSE IF Ends(s, text[s.at]) THEN (IF s.open = 1 THEN s.at ELSE 0)
             ELSE scan[After(s, text[s.at])]
<1>1. L \in Nat /\ N \in Nat /\ \A s \in D : s \in ScanState /\ s.at \in Nat /\ s.at <= L + 1
  BY DEF ScanState
<1>2. ASSUME NEW s \in D, s \notin last
      PROVE  After(s, text[s.at]) \in D /\ After(s, text[s.at]).at = s.at + 1
  <2>1. s \in ScanState /\ ~(s.at > L) /\ ~Ends(s, text[s.at])
    BY <1>1, <1>2
  <2>2. After(s, text[s.at]) \in ScanState /\ After(s, text[s.at]).at = s.at + 1
    BY <2>1, AfterTyped
  <2>3. s.at + 1 <= L + 1
    BY <1>1, <2>1
  <2> QED
    BY <2>2, <2>3
<1>3. /\ rank \in [D -> 0..N] /\ last \in SUBSET D /\ val \in [D -> V]
      /\ step \in [D \X V -> V]
  <2>1. \A s \in D : L + 1 - s.at \in 0..N
    BY <1>1
  <2>2. \A s \in D : (IF s.at <= L /\ s.open = 1 THEN s.at ELSE 0) \in V
    BY <1>1
  <2> QED
    BY <2>1, <2>2
<1>4. next \in [D -> D]
  BY <1>2
<1>5. \A s \in D \ last : rank[next[s]] < rank[s]
  <2> TAKE s \in D \ last
  <2>1. next[s] = After(s, text[s.at]) /\ next[s] \in D /\ next[s].at = s.at + 1
    BY <1>2
  <2>2. rank[next[s]] = L + 1 - (s.at + 1) /\ rank[s] = L + 1 - s.at
    BY <2>1
  <2> QED
    BY <1>1, <2>2
<1>6. PICK f : Solves(f, D, V, last, val, next, step)
  <2>1. Descends(D, V, N, rank, last, val, next, step)
    <3> HIDE DEF D, V, N, last, val, next, rank, step
    <3> QED
      BY <1>1, <1>3, <1>4, <1>5 DEF Descends
  <2> HIDE DEF D, V, N, last, val, next, rank, step
  <2> QED
    BY <2>1, Recursion
<1>7. \A s \in D :
        f[s] = IF s.at > Len(text) THEN 0
               ELSE IF Ends(s, text[s.at]) THEN (IF s.open = 1 THEN s.at ELSE 0)
               ELSE f[After(s, text[s.at])]
  <2> TAKE s \in D
  <2>1. f[s] = IF s \in last THEN val[s] ELSE step[<<s, f[next[s]]>>]
    BY <1>6 DEF Solves
  <2>2. CASE s \in last
    BY <1>1, <2>1, <2>2
  <2>3. CASE s \notin last
    <3>1. next[s] = After(s, text[s.at]) /\ next[s] \in D
      BY <1>2, <2>3
    <3>2. f[next[s]] \in V
      BY <1>6, <3>1 DEF Solves
    <3>3. step[<<s, f[next[s]]>>] = f[next[s]]
      BY <3>2
    <3>4. ~(s.at > L) /\ ~Ends(s, text[s.at])
      BY <2>3
    <3> QED
      BY <2>1, <2>3, <3>1, <3>3, <3>4
  <2> QED
    BY <2>2, <2>3
<1>8. f = [s \in {x \in ScanState : x.at <= Len(text) + 1} |->
             IF s.at > Len(text) THEN 0
             ELSE IF Ends(s, text[s.at]) THEN (IF s.open = 1 THEN s.at ELSE 0)
             ELSE f[After(s, text[s.at])]]
  BY <1>6, <1>7 DEF Solves
<1>9. scan = [s \in {x \in ScanState : x.at <= Len(text) + 1} |->
             IF s.at > Len(text) THEN 0
             ELSE IF Ends(s, text[s.at]) THEN (IF s.open = 1 THEN s.at ELSE 0)
             ELSE scan[After(s, text[s.at])]]
  BY <1>8
<1>10. ObjectEnd(text, start) = scan[ScanFrom(start)]
  BY DEF ObjectEnd
<1> HIDE DEF scan
<1>11. \A s \in ScanState : s.at <= Len(text) + 1 =>
         scan[s] = IF s.at > Len(text) THEN 0
                   ELSE IF Ends(s, text[s.at]) THEN (IF s.open = 1 THEN s.at ELSE 0)
                   ELSE scan[After(s, text[s.at])]
  BY <1>9
<1> QED
  BY <1>10, <1>11

\* A function that reads a text as findJsonObjectEnd does.
Reads(f, text) ==
  \A s \in ScanState : s.at <= Len(text) + 1 =>
    f[s] = IF s.at > Len(text) THEN 0
           ELSE IF Ends(s, text[s.at]) THEN (IF s.open = 1 THEN s.at ELSE 0)
           ELSE f[After(s, text[s.at])]

\* What findJsonObjectEnd finds lies behind the place where it starts.
LEMMA EndBehind ==
  ASSUME NEW text \in Seq(Token), NEW start \in 1..Len(text)
  PROVE  ObjectEnd(text, start) = 0 \/ ObjectEnd(text, start) \in start..Len(text)
<1>1. PICK f : ObjectEnd(text, start) = f[ScanFrom(start)] /\ Reads(f, text)
  BY ScanIs DEF Reads
<1> DEFINE L == Len(text)
           S == {n \in Nat : \A s \in ScanState : s.at + n = L + 1 => f[s] = 0 \/ f[s] \in s.at..L}
<1>2. L \in Nat /\ \A s \in ScanState : s.at \in Nat
  BY DEF ScanState
<1>3. 0 \in S
  BY <1>1, <1>2 DEF Reads
<1>4. ASSUME NEW n \in Nat, n \in S PROVE n + 1 \in S
  <2>1. ASSUME NEW s \in ScanState, s.at + (n + 1) = L + 1 PROVE f[s] = 0 \/ f[s] \in s.at..L
    <3>1. s.at \in Nat /\ s.at <= L
      BY <1>2, <2>1
    <3>2. CASE Ends(s, text[s.at])
      BY <1>1, <1>2, <3>1, <3>2 DEF Reads
    <3>3. CASE ~Ends(s, text[s.at])
      <4>1. After(s, text[s.at]) \in ScanState /\ After(s, text[s.at]).at = s.at + 1
        BY <3>3, AfterTyped
      <4>2. f[s] = f[After(s, text[s.at])]
        BY <1>1, <1>2, <3>1, <3>3 DEF Reads
      <4>3. After(s, text[s.at]).at + n = L + 1
        BY <1>2, <2>1, <3>1, <4>1
      <4>4. f[s] = 0 \/ f[s] \in (s.at + 1)..L
        BY <1>4, <4>1, <4>2, <4>3
      <4> QED
        BY <1>2, <3>1, <4>4
    <3> QED
      BY <3>2, <3>3
  <2> QED
    BY <2>1
<1> HIDE DEF S
<1>5. L + 1 - start \in S
  BY <1>2, <1>3, <1>4, NatInd
<1>6. ScanFrom(start) \in ScanState /\ ScanFrom(start).at = start
  BY DEF ScanFrom, ScanState
<1> QED
  BY <1>1, <1>2, <1>5, <1>6 DEF S

\* The first brace from a place on.
FirstBrace(text, cursor, a) ==
  /\ a \in cursor..Len(text) /\ text[a] = "lbrace"
  /\ \A i \in cursor..(a - 1) : text[i] # "lbrace"

\* Where a brace follows there is a first one.
LEMMA FirstExists ==
  ASSUME NEW text \in Seq(Token), NEW cursor \in Nat, NEW i \in cursor..Len(text), text[i] = "lbrace"
  PROVE  \E a : FirstBrace(text, cursor, a)
<1> DEFINE L == Len(text)
           S == {n \in Nat : \A c \in Nat : c + n = i + 1 /\ c >= cursor => \E a : FirstBrace(text, c, a) \/ n = 0}
<1>1. L \in Nat /\ i \in Nat
  OBVIOUS
<1>2. 0 \in S
  OBVIOUS
<1>3. ASSUME NEW n \in Nat, n \in S PROVE n + 1 \in S
  <2>1. ASSUME NEW c \in Nat, c + (n + 1) = i + 1, c >= cursor PROVE \E a : FirstBrace(text, c, a)
    <3>1. c <= i
      BY <1>1, <2>1
    <3>2. CASE text[c] = "lbrace"
      BY <1>1, <2>1, <3>1, <3>2 DEF FirstBrace
    <3>3. CASE text[c] # "lbrace"
      <4>1. n # 0
        BY <1>1, <2>1, <3>3
      <4>2. PICK a : FirstBrace(text, c + 1, a)
        BY <1>1, <1>3, <2>1, <4>1
      <4>3. \A k \in c..(a - 1) : k = c \/ k \in (c + 1)..(a - 1)
        BY <4>2 DEF FirstBrace
      <4>4. FirstBrace(text, c, a)
        BY <1>1, <3>3, <4>2, <4>3 DEF FirstBrace
      <4> QED
        BY <4>4
    <3> QED
      BY <3>2, <3>3
  <2> QED
    BY <2>1
<1> HIDE DEF S
<1>4. i + 1 - cursor \in S
  BY <1>1, <1>2, <1>3, NatInd
<1>5. cursor + (i + 1 - cursor) = i + 1 /\ i + 1 - cursor # 0
  BY <1>1
<1> QED
  BY <1>4, <1>5 DEF S

\* The place that salvageJsonObjects chooses is the first brace.
LEMMA FirstIs ==
  ASSUME NEW text \in Seq(Token), NEW cursor \in Nat, NEW a, FirstBrace(text, cursor, a)
  PROVE  LET starts == {i \in cursor..Len(text) : text[i] = "lbrace"}
         IN  starts # {} /\ a = CHOOSE i \in starts : \A j \in starts : i <= j
<1> DEFINE starts == {i \in cursor..Len(text) : text[i] = "lbrace"}
<1>1. a \in starts /\ \A j \in starts : a <= j
  BY DEF FirstBrace
<1>2. \A i \in starts : (\A j \in starts : i <= j) => i = a
  BY <1>1
<1> HIDE DEF starts
<1>3. a = CHOOSE i \in starts : \A j \in starts : i <= j
  BY <1>1, <1>2
<1> QED
  BY <1>1, <1>3 DEF starts

\* The search of salvageJsonObjects is well-founded: each turn begins behind the row found.
LEMMA SalvagedIs ==
  ASSUME NEW text \in Seq(Token)
  PROVE  \E from :
           /\ Salvaged(text) = from[1]
           /\ \A c \in 1..(Len(text) + 1) :
                from[c] = LET starts == {i \in c..Len(text) : text[i] = "lbrace"}
                              start == CHOOSE i \in starts : \A j \in starts : i <= j
                          IN  IF starts = {} THEN <<>>
                              ELSE LET end == ObjectEnd(text, start)
                                   IN  IF end = 0 THEN <<>> ELSE <<<<start, end>>>> \o from[end + 1]
<1> DEFINE L == Len(text)
           D == 1..(Len(text) + 1)
           V == Seq(Nat \X Nat)
           Starts(c) == {i \in c..Len(text) : text[i] = "lbrace"}
           Start(c) == CHOOSE i \in Starts(c) : \A j \in Starts(c) : i <= j
           End(c) == ObjectEnd(text, Start(c))
           last == {c \in D : Starts(c) = {} \/ End(c) = 0}
           val == [c \in D |-> <<>>]
           next == [c \in D |-> IF c \in last THEN c ELSE End(c) + 1]
           rank == [c \in D |-> L + 1 - c]
           step == [y \in D \X V |-> IF y[1] \in last THEN <<>> ELSE <<<<Start(y[1]), End(y[1])>>>> \o y[2]]
           N == L + 1
           from[cursor \in 1..(Len(text) + 1)] ==
             LET starts == {i \in cursor..Len(text) : text[i] = "lbrace"}
                 start == CHOOSE i \in starts : \A j \in starts : i <= j
             IN  IF starts = {} THEN <<>>
                 ELSE LET end == ObjectEnd(text, start)
                      IN  IF end = 0 THEN <<>> ELSE <<<<start, end>>>> \o from[end + 1]
<1>1. L \in Nat /\ N \in Nat
  OBVIOUS
<1>2. ASSUME NEW c \in D, c \notin last
      PROVE  Start(c) \in c..L /\ End(c) \in Start(c)..L
  <2>1. PICK i \in c..Len(text) : text[i] = "lbrace"
    BY <1>2
  <2>2. PICK a : FirstBrace(text, c, a)
    BY <2>1, FirstExists
  <2>3. a = Start(c)
    BY <2>2, FirstIs
  <2>4. Start(c) \in 1..Len(text) /\ Start(c) \in c..L
    BY <2>2, <2>3 DEF FirstBrace
  <2>5. End(c) # 0
    BY <1>2, <2>1
  <2> HIDE DEF Start
  <2>6. End(c) = 0 \/ End(c) \in Start(c)..L
    BY <2>4, EndBehind
  <2> QED
    BY <2>4, <2>5, <2>6
<1>3. ASSUME NEW c \in D, c \notin last
      PROVE  Start(c) \in Nat /\ End(c) \in Nat /\ End(c) + 1 \in D /\ End(c) >= c
  <2> HIDE DEF Start, End, last
  <2> QED
    BY <1>1, <1>2, <1>3
<1>4. /\ rank \in [D -> 0..N] /\ last \in SUBSET D /\ val \in [D -> V]
  <2>1. \A c \in D : L + 1 - c \in 0..N
    BY <1>1
  <2>2. <<>> \in V
    OBVIOUS
  <2>3. last \in SUBSET D
    OBVIOUS
  <2> HIDE DEF V, last
  <2> QED
    BY <2>1, <2>2, <2>3
<1>5. next \in [D -> D]
  <2> HIDE DEF Start, End, last
  <2> QED
    BY <1>3
<1>6. step \in [D \X V -> V]
  <2>1. ASSUME NEW y \in D \X V, y[1] \notin last
        PROVE  <<<<Start(y[1]), End(y[1])>>>> \o y[2] \in V
    <3>1. Start(y[1]) \in Nat /\ End(y[1]) \in Nat
      <4> HIDE DEF Start, End, last
      <4> QED
        BY <1>3, <2>1
    <3> HIDE DEF Start, End, last
    <3>2. PICK a \in Nat, b \in Nat : a = Start(y[1]) /\ b = End(y[1])
      BY <3>1
    <3>3. <<<<a, b>>>> \in Seq(Nat \X Nat) /\ y[2] \in Seq(Nat \X Nat)
      OBVIOUS
    <3>4. <<<<a, b>>>> \o y[2] \in Seq(Nat \X Nat)
      BY <3>3, ConcatProperties
    <3> QED
      BY <3>2, <3>4
  <2>2. <<>> \in V
    OBVIOUS
  <2> HIDE DEF Start, End, last, V
  <2> QED
    BY <2>1, <2>2
<1>7. \A c \in D \ last : rank[next[c]] < rank[c]
  <2> TAKE c \in D \ last
  <2>1. next[c] = End(c) + 1 /\ End(c) + 1 \in D /\ End(c) >= c /\ End(c) \in Nat
    <3> HIDE DEF Start, End, last
    <3> QED
      BY <1>3
  <2>2. rank[next[c]] = L + 1 - (End(c) + 1) /\ rank[c] = L + 1 - c
    <3> HIDE DEF Start, End, last, next
    <3> QED
      BY <2>1
  <2> HIDE DEF Start, End, last, next, rank
  <2> QED
    BY <1>1, <2>1, <2>2
<1>8. PICK f : Solves(f, D, V, last, val, next, step)
  <2>1. Descends(D, V, N, rank, last, val, next, step)
    <3> HIDE DEF D, V, N, last, val, next, rank, step
    <3> QED
      BY <1>1, <1>4, <1>5, <1>6, <1>7 DEF Descends
  <2> HIDE DEF D, V, N, last, val, next, rank, step
  <2> QED
    BY <2>1, Recursion
<1>9. \A c \in D : f[c] = IF Starts(c) = {} THEN <<>>
                          ELSE IF End(c) = 0 THEN <<>> ELSE <<<<Start(c), End(c)>>>> \o f[End(c) + 1]
  <2> TAKE c \in D
  <2>1. f[c] = IF c \in last THEN val[c] ELSE step[<<c, f[next[c]]>>]
    <3> HIDE DEF D, V, N, last, val, next, rank, step
    <3> QED
      BY <1>8 DEF Solves
  <2>2. CASE c \in last
    <3>1. f[c] = <<>>
      BY <2>1, <2>2
    <3>2. Starts(c) = {} \/ End(c) = 0
      BY <2>2
    <3> HIDE DEF Starts, Start, End
    <3> QED
      BY <3>1, <3>2
  <2>3. CASE c \notin last
    <3>1. Starts(c) # {} /\ End(c) # 0
      BY <2>3
    <3>2. next[c] = End(c) + 1 /\ next[c] \in D
      <4> HIDE DEF Starts, Start, End, last
      <4> QED
        BY <1>3, <2>3
    <3>3. f[next[c]] \in V
      <4> HIDE DEF D, V, N, last, val, next, rank, step
      <4> QED
        BY <1>8, <3>2 DEF Solves
    <3>4. step[<<c, f[next[c]]>>] = <<<<Start(c), End(c)>>>> \o f[next[c]]
      <4> HIDE DEF Start, End, last, next, V
      <4> QED
        BY <2>3, <3>3
    <3> HIDE DEF Starts, Start, End, last, next, step
    <3> QED
      BY <2>1, <2>3, <3>1, <3>2, <3>4
  <2> QED
    BY <2>2, <2>3
<1>10. f = [c \in D |-> IF Starts(c) = {} THEN <<>>
                        ELSE IF End(c) = 0 THEN <<>> ELSE <<<<Start(c), End(c)>>>> \o f[End(c) + 1]]
  <2>1. f \in [D -> V]
    <3> HIDE DEF D, V, N, last, val, next, rank, step
    <3> QED
      BY <1>8 DEF Solves
  <2> HIDE DEF Starts, Start, End, V
  <2> QED
    BY <1>9, <2>1
<1>11. from = [c \in D |-> IF Starts(c) = {} THEN <<>>
                           ELSE IF End(c) = 0 THEN <<>> ELSE <<<<Start(c), End(c)>>>> \o from[End(c) + 1]]
  BY <1>10
<1>12. Salvaged(text) = from[1]
  BY DEF Salvaged
<1> HIDE DEF from
<1>13. \A c \in D : from[c] = IF Starts(c) = {} THEN <<>>
                              ELSE IF End(c) = 0 THEN <<>> ELSE <<<<Start(c), End(c)>>>> \o from[End(c) + 1]
  <2> HIDE DEF Starts, Start, End
  <2> QED
    BY <1>11
<1> QED
  BY <1>12, <1>13

\* The next row that salvageJsonObjects finds from a place on, and when it finds none.
LEMMA FindsRows ==
  ASSUME NEW text \in Seq(Token)
  PROVE  \E from :
           /\ Salvaged(text) = from[1]
           /\ \A c \in 1..(Len(text) + 1) :
                (\A i \in c..Len(text) : text[i] # "lbrace") => from[c] = <<>>
           /\ \A c \in 1..(Len(text) + 1) : \A a : FirstBrace(text, c, a) =>
                from[c] = IF ObjectEnd(text, a) = 0 THEN <<>>
                          ELSE <<<<a, ObjectEnd(text, a)>>>> \o from[ObjectEnd(text, a) + 1]
<1>1. PICK from :
           /\ Salvaged(text) = from[1]
           /\ \A c \in 1..(Len(text) + 1) :
                from[c] = LET starts == {i \in c..Len(text) : text[i] = "lbrace"}
                              start == CHOOSE i \in starts : \A j \in starts : i <= j
                          IN  IF starts = {} THEN <<>>
                              ELSE LET end == ObjectEnd(text, start)
                                   IN  IF end = 0 THEN <<>> ELSE <<<<start, end>>>> \o from[end + 1]
  BY SalvagedIs
<1>2. ASSUME NEW c \in 1..(Len(text) + 1), \A i \in c..Len(text) : text[i] # "lbrace"
      PROVE  from[c] = <<>>
  <2>1. {i \in c..Len(text) : text[i] = "lbrace"} = {}
    BY <1>2
  <2> QED
    BY <1>1, <2>1
<1>3. ASSUME NEW c \in 1..(Len(text) + 1), NEW a, FirstBrace(text, c, a)
      PROVE  from[c] = IF ObjectEnd(text, a) = 0 THEN <<>>
                       ELSE <<<<a, ObjectEnd(text, a)>>>> \o from[ObjectEnd(text, a) + 1]
  <2> DEFINE starts == {i \in c..Len(text) : text[i] = "lbrace"}
  <2>1. starts # {} /\ a = CHOOSE i \in starts : \A j \in starts : i <= j
    BY <1>3, FirstIs
  <2>2. from[c] = LET start == CHOOSE i \in starts : \A j \in starts : i <= j
                  IN  IF starts = {} THEN <<>>
                      ELSE LET end == ObjectEnd(text, start)
                           IN  IF end = 0 THEN <<>> ELSE <<<<start, end>>>> \o from[end + 1]
    BY <1>1
  <2> HIDE DEF starts
  <2> QED
    BY <2>1, <2>2
<1> QED
  BY <1>1, <1>2, <1>3

\* The states of the scan along the whole text, as if no object ended it.
Follows(tr, text) ==
  /\ tr \in [0..Len(text) -> ScanState]
  /\ \A i \in 0..Len(text) : tr[i].at = i + 1
  /\ \A i \in 1..Len(text) : tr[i] = After(tr[i - 1], text[i])
\* An object that begins at a, the first behind p, and is open up to e.
OpenObject(tr, text, p, a, e) ==
  /\ FirstBrace(text, p + 1, a) /\ tr[a - 1] = ScanFrom(a)
  /\ \A i \in a..e : tr[i].open > 0
\* The rows, and what is behind the last one.
Behind(rs, j) == IF j = 0 THEN 0 ELSE rs[j][2]
RowsFound(tr, text, rs) ==
  \A j \in 1..Len(rs) :
    /\ OpenObject(tr, text, Behind(rs, j - 1), rs[j][1], rs[j][2] - 1)
    /\ rs[j][1] < rs[j][2] /\ rs[j][2] <= Len(text)
    /\ Ends(tr[rs[j][2] - 1], text[rs[j][2]])
Rest(tr, text, p, open) ==
  IF open = 0 THEN \A i \in (p + 1)..Len(text) : text[i] # "lbrace"
  ELSE \E a : OpenObject(tr, text, p, a, Len(text))

Now == [at |-> Len(answer) + 1, open |-> depth, inString |-> quoted, esc |-> escaped]
CutInv ==
  /\ answer \in Seq(Token) /\ depth \in Nat /\ quoted \in BOOLEAN /\ escaped \in BOOLEAN
  /\ rows \in Seq(Nat \X Nat)
  /\ \A j \in 1..Len(rows) : rows[j][2] <= Behind(rows, Len(rows))
  /\ (escaped => quoted) /\ (quoted => depth > 0)
  /\ \E tr : /\ Follows(tr, answer) /\ tr[Len(answer)] = Now
             /\ RowsFound(tr, answer, rows)
             /\ Rest(tr, answer, Behind(rows, Len(rows)), depth)

\* The turn that ends the scan would leave no object open.
LEMMA EndCloses ==
  ASSUME NEW s \in ScanState, NEW t, Ends(s, t)
  PROVE  After(s, t).open \in Int /\ After(s, t).open <= 0
<1>1. ~s.inString /\ t = "rbrace" /\ s.open <= 1 /\ s.open \in Nat /\ s.at \in Nat
  BY DEF Ends, ScanState
<1>2. PICK at \in Nat, open \in Int : at = s.at + 1 /\ open = s.open - 1 /\ open <= 0
  BY <1>1
<1>3. After(s, t) = [s EXCEPT !.at = at, !.inString = FALSE, !.open = open]
  BY <1>1, <1>2 DEF After
<1> QED
  BY <1>2, <1>3 DEF ScanState

\* Where an object is open the scan of findJsonObjectEnd has not ended.
LEMMA ScanGoesOn ==
  ASSUME NEW text \in Seq(Token), NEW tr, Follows(tr, text), NEW f, Reads(f, text),
         NEW a \in 1..Len(text), NEW e \in 0..Len(text), a <= e,
         tr[a - 1] = ScanFrom(a), \A i \in a..e : tr[i].open > 0
  PROVE  f[ScanFrom(a)] = f[tr[e]]
<1> DEFINE S == {n \in Nat : a - 1 + n <= e => f[tr[a - 1 + n]] = f[ScanFrom(a)]}
<1>1. 0 \in S
  BY DEF ScanFrom
<1>2. ASSUME NEW n \in Nat, n \in S PROVE n + 1 \in S
  <2>1. SUFFICES ASSUME a - 1 + (n + 1) <= e PROVE f[tr[a + n]] = f[ScanFrom(a)]
    OBVIOUS
  <2>2. PICK i \in a..e : i = a + n
    BY <2>1
  <2>3. /\ i \in 1..Len(text) /\ i - 1 \in 0..Len(text) /\ i - 1 = a - 1 + n
    BY <2>2
  <2>4. f[tr[i - 1]] = f[ScanFrom(a)]
    BY <1>2, <2>1, <2>2, <2>3
  <2>5. tr[i - 1] \in ScanState /\ tr[i - 1].at = i /\ tr[i] = After(tr[i - 1], text[i]) /\ tr[i].open > 0
    <3>1. tr[i - 1] \in ScanState
      BY <2>3 DEF Follows
    <3>2. tr[i - 1].at = i
      <4>1. i \in Nat /\ tr[i - 1].at = (i - 1) + 1
        BY <2>3 DEF Follows
      <4> QED
        BY <4>1
    <3>3. tr[i] = After(tr[i - 1], text[i])
      BY <2>3 DEF Follows
    <3> QED
      BY <2>2, <3>1, <3>2, <3>3
  <2>6. ~Ends(tr[i - 1], text[i])
    BY <2>5, EndCloses
  <2>7. f[tr[i - 1]] = f[tr[i]]
    BY <2>3, <2>5, <2>6 DEF Reads
  <2> QED
    BY <2>2, <2>4, <2>7
<1> HIDE DEF S
<1>3. e - a + 1 \in S
  BY <1>1, <1>2, NatInd
<1>4. a - 1 + (e - a + 1) = e
  OBVIOUS
<1> QED
  BY <1>3, <1>4 DEF S

\* An object that is closed is found from its first brace to its last,
LEMMA WholeObject ==
  ASSUME NEW text \in Seq(Token), NEW tr, Follows(tr, text), NEW p \in Nat,
         NEW a \in Nat, NEW b \in Nat, a < b, b <= Len(text),
         OpenObject(tr, text, p, a, b - 1), Ends(tr[b - 1], text[b])
  PROVE  ObjectEnd(text, a) = b
<1>1. a \in 1..Len(text) /\ b - 1 \in 0..Len(text) /\ a <= b - 1
  BY DEF OpenObject, FirstBrace
<1>2. PICK f : ObjectEnd(text, a) = f[ScanFrom(a)] /\ Reads(f, text)
  BY <1>1, ScanIs DEF Reads
<1>3. f[ScanFrom(a)] = f[tr[b - 1]]
  BY <1>1, <1>2, ScanGoesOn DEF OpenObject
<1>4. tr[b - 1] \in ScanState /\ tr[b - 1].at = b /\ tr[b - 1].open > 0 /\ tr[b - 1].open \in Nat
  <2>1. tr[b - 1] \in ScanState
    BY <1>1 DEF Follows
  <2>2. tr[b - 1].at = b
    BY <1>1 DEF Follows
  <2>3. b - 1 \in a..(b - 1)
    BY <1>1
  <2>4. tr[b - 1].open > 0
    BY <2>3 DEF OpenObject
  <2> QED
    BY <2>1, <2>2, <2>4 DEF ScanState
<1>5. tr[b - 1].open = 1
  BY <1>4 DEF Ends
<1> QED
  BY <1>1, <1>2, <1>3, <1>4, <1>5 DEF Reads

\* and of one that is not, no end is found.
LEMMA UnfinishedObject ==
  ASSUME NEW text \in Seq(Token), NEW tr, Follows(tr, text), NEW p \in Nat, NEW a,
         OpenObject(tr, text, p, a, Len(text))
  PROVE  ObjectEnd(text, a) = 0
<1>1. a \in 1..Len(text) /\ Len(text) \in 0..Len(text) /\ a <= Len(text)
  BY DEF OpenObject, FirstBrace
<1>2. PICK f : ObjectEnd(text, a) = f[ScanFrom(a)] /\ Reads(f, text)
  BY <1>1, ScanIs DEF Reads
<1>3. f[ScanFrom(a)] = f[tr[Len(text)]]
  BY <1>1, <1>2, ScanGoesOn DEF OpenObject
<1>4. tr[Len(text)] \in ScanState /\ tr[Len(text)].at = Len(text) + 1
  BY <1>1 DEF Follows
<1> QED
  BY <1>2, <1>3, <1>4 DEF Reads

\* Behind each row salvageJsonObjects finds the rows that follow it.
LEMMA SavedIsRows ==
  ASSUME NEW text \in Seq(Token), NEW rs \in Seq(Nat \X Nat), NEW tr, NEW open,
         Follows(tr, text), RowsFound(tr, text, rs), Rest(tr, text, Behind(rs, Len(rs)), open)
  PROVE  Salvaged(text) = rs
<1> DEFINE n == Len(rs)
           L == Len(text)
<1>1. n \in Nat /\ L \in Nat
  OBVIOUS
<1>2. PICK from :
           /\ Salvaged(text) = from[1]
           /\ \A c \in 1..(Len(text) + 1) :
                (\A i \in c..Len(text) : text[i] # "lbrace") => from[c] = <<>>
           /\ \A c \in 1..(Len(text) + 1) : \A a : FirstBrace(text, c, a) =>
                from[c] = IF ObjectEnd(text, a) = 0 THEN <<>>
                          ELSE <<<<a, ObjectEnd(text, a)>>>> \o from[ObjectEnd(text, a) + 1]
  BY FindsRows
<1>3. \A j \in 1..n : rs[j] \in Nat \X Nat
  OBVIOUS
<1>4. \A j \in 0..n : Behind(rs, j) \in 0..L
  BY <1>1, <1>3 DEF Behind, RowsFound
<1> DEFINE S == {k \in Nat : k <= n => from[Behind(rs, n - k) + 1] = SubSeq(rs, n - k + 1, n)}
<1>5. 0 \in S
  <2>1. PICK p \in 0..L : p = Behind(rs, n)
    BY <1>1, <1>4
  <2>2. p + 1 \in 1..(Len(text) + 1) /\ p \in Nat
    BY <1>1
  <2>3. from[p + 1] = <<>>
    <3>1. CASE open = 0
      BY <1>2, <2>1, <2>2, <3>1 DEF Rest
    <3>2. CASE open # 0
      <4>1. PICK a : OpenObject(tr, text, p, a, Len(text))
        BY <2>1, <3>2 DEF Rest
      <4>2. ObjectEnd(text, a) = 0
        BY <2>2, <4>1, UnfinishedObject
      <4> QED
        BY <1>2, <2>2, <4>1, <4>2 DEF OpenObject
    <3> QED
      BY <3>1, <3>2
  <2>4. SubSeq(rs, n + 1, n) = <<>>
    BY <1>1
  <2>5. n - 0 = n
    BY <1>1
  <2>6. from[Behind(rs, n - 0) + 1] = SubSeq(rs, n - 0 + 1, n)
    BY <2>1, <2>3, <2>4, <2>5
  <2> QED
    BY <2>6
<1>6. ASSUME NEW k \in Nat, k \in S PROVE k + 1 \in S
  <2>1. SUFFICES ASSUME k + 1 <= n
                 PROVE  from[Behind(rs, n - (k + 1)) + 1] = SubSeq(rs, n - (k + 1) + 1, n)
    OBVIOUS
  <2>2. PICK j \in 1..n : j = n - k
    <3>1. n - k \in 1..n
      BY <1>1, <2>1
    <3> QED
      BY <3>1
  <2>3. n - (k + 1) = j - 1 /\ n - (k + 1) + 1 = j /\ j - 1 \in 0..n /\ j \in Nat
    BY <1>1, <2>2
  <2>4. PICK a \in Nat, b \in Nat : rs[j] = <<a, b>>
    <3>1. rs[j] \in Nat \X Nat
      BY <1>3
    <3>2. rs[j] = <<rs[j][1], rs[j][2]>> /\ rs[j][1] \in Nat /\ rs[j][2] \in Nat
      BY <3>1
    <3> QED
      BY <3>2, Zenon
  <2>5. PICK p \in 0..L : p = Behind(rs, j - 1)
    BY <1>4, <2>3
  <2>6. /\ OpenObject(tr, text, p, a, b - 1) /\ a < b /\ b <= Len(text) /\ Ends(tr[b - 1], text[b])
    BY <2>4, <2>5 DEF RowsFound
  <2>7. ObjectEnd(text, a) = b
    BY <2>5, <2>6, WholeObject
  <2>8. p + 1 \in 1..(Len(text) + 1) /\ FirstBrace(text, p + 1, a) /\ b # 0
    <3>1. p + 1 \in 1..(Len(text) + 1) /\ b # 0
      BY <1>1, <2>6
    <3> QED
      BY <2>6, <3>1 DEF OpenObject
  <2>9. from[p + 1] = <<<<a, b>>>> \o from[b + 1]
    BY <1>2, <2>7, <2>8
  <2>10. from[b + 1] = SubSeq(rs, j + 1, n)
    <3>1. Behind(rs, n - k) = b
      BY <2>2, <2>3, <2>4 DEF Behind
    <3>2. k <= n /\ n - k + 1 = j + 1
      BY <1>1, <2>1, <2>2
    <3>3. from[Behind(rs, n - k) + 1] = SubSeq(rs, n - k + 1, n)
      BY <1>6, <3>2
    <3> QED
      BY <3>1, <3>2, <3>3
  <2>11. SubSeq(rs, j, n) = <<rs[j]>> \o SubSeq(rs, j + 1, n)
    BY SubSeqSplit
  <2> QED
    BY <2>3, <2>4, <2>5, <2>9, <2>10, <2>11
<1> HIDE DEF S
<1>7. n \in S
  BY <1>1, <1>5, <1>6, NatInd
<1>8. from[1] = SubSeq(rs, 1, n)
  <2>1. n - n = 0 /\ n - n + 1 = 1 /\ Behind(rs, 0) = 0
    BY <1>1 DEF Behind
  <2> QED
    BY <1>1, <1>7, <2>1 DEF S
<1> QED
  BY <1>2, <1>8

\* So the rows are what is saved.
LEMMA CutHolds == CutInv => WholeRowsAreSaved
  BY SavedIsRows DEF CutInv, WholeRowsAreSaved

\* The empty answer has the trace of no turn.
LEMMA CutStart == CutInit => CutInv
<1> SUFFICES ASSUME CutInit PROVE CutInv
  OBVIOUS
<1> DEFINE tr == [i \in 0..0 |-> ScanFrom(1)]
<1>1. answer = <<>> /\ depth = 0 /\ quoted = FALSE /\ escaped = FALSE /\ rows = <<>>
  BY DEF CutInit
<1>2. ScanFrom(1) \in ScanState /\ ScanFrom(1).at = 1
  BY DEF ScanFrom, ScanState
<1>3. Follows(tr, answer)
  BY <1>1, <1>2 DEF Follows
<1>4. tr[Len(answer)] = Now
  <2>1. Len(answer) = 0 /\ Len(answer) + 1 = 1
    BY <1>1
  <2>2. Now = [at |-> 1, open |-> 0, inString |-> FALSE, esc |-> FALSE]
    BY <1>1, <2>1, Zenon DEF Now
  <2> QED
    BY <2>1, <2>2 DEF ScanFrom
<1>5. RowsFound(tr, answer, rows) /\ Rest(tr, answer, Behind(rows, Len(rows)), depth)
  BY <1>1 DEF RowsFound, Rest, Behind
<1>6. /\ answer \in Seq(Token) /\ rows \in Seq(Nat \X Nat) /\ Len(rows) = 0
  BY <1>1
<1>7. \A j \in 1..Len(rows) : rows[j][2] <= Behind(rows, Len(rows))
  BY <1>6
<1> HIDE DEF tr
<1>8. \E x : /\ Follows(x, answer) /\ x[Len(answer)] = Now
             /\ RowsFound(x, answer, rows)
             /\ Rest(x, answer, Behind(rows, Len(rows)), depth)
  BY <1>3, <1>4, <1>5
<1> QED
  BY <1>1, <1>6, <1>7, <1>8 DEF CutInv

\* A token more is a turn more.
LEMMA TraceGrows ==
  ASSUME NEW text \in Seq(Token), NEW t \in Token, NEW tr, Follows(tr, text),
         NEW s \in ScanState, s = After(tr[Len(text)], t), s.at = Len(text) + 2
  PROVE  \E x : /\ Follows(x, Append(text, t)) /\ x[Len(text) + 1] = s
                /\ \A i \in 0..Len(text) : x[i] = tr[i]
<1> DEFINE L == Len(text)
           new == Append(text, t)
           x == [i \in 0..(L + 1) |-> IF i = L + 1 THEN s ELSE tr[i]]
<1>1. /\ L \in Nat /\ Len(new) = L + 1 /\ new[L + 1] = t
      /\ \A i \in 1..L : new[i] = text[i]
  BY AppendIs
<1>2. tr \in [0..L -> ScanState]
  BY DEF Follows
<1>3. \A i \in 0..L : x[i] = tr[i]
  BY <1>1
<1>4. x[L + 1] = s
  BY <1>1
<1>5. x \in [0..(L + 1) -> ScanState]
  <2>1. \A i \in 0..(L + 1) : i = L + 1 \/ i \in 0..L
    BY <1>1
  <2> QED
    BY <1>2, <2>1
<1> HIDE DEF x, new
<1>6. ASSUME NEW i \in 0..(L + 1) PROVE x[i].at = i + 1
  <2>1. CASE i = L + 1
    BY <1>1, <1>4, <2>1
  <2>2. CASE i # L + 1
    BY <1>1, <1>3, <2>2 DEF Follows
  <2> QED
    BY <2>1, <2>2
<1>7. ASSUME NEW i \in 1..(L + 1) PROVE x[i] = After(x[i - 1], new[i])
  <2>1. CASE i = L + 1
    <3>1. x[i - 1] = tr[L]
      BY <1>1, <1>3, <2>1
    <3> QED
      BY <1>1, <1>4, <2>1, <3>1
  <2>2. CASE i # L + 1
    <3>1. i \in 1..L /\ i \in 0..L /\ i - 1 \in 0..L
      BY <1>1, <2>2
    <3>2. x[i] = tr[i] /\ x[i - 1] = tr[i - 1] /\ new[i] = text[i] /\ tr[i] = After(tr[i - 1], text[i])
      BY <1>1, <1>3, <3>1 DEF Follows
    <3> QED
      BY <3>2
  <2> QED
    BY <2>1, <2>2
<1>8. Follows(x, new)
  BY <1>1, <1>5, <1>6, <1>7 DEF Follows
<1> QED
  BY <1>3, <1>4, <1>8 DEF new

\* An object that was open stays so along the longer trace,
LEMMA OpenKept ==
  ASSUME NEW text \in Seq(Token), NEW t \in Token, NEW tr, NEW x, NEW p \in Nat, NEW a, NEW e \in Nat,
         e <= Len(text), \A i \in 0..Len(text) : x[i] = tr[i], OpenObject(tr, text, p, a, e)
  PROVE  OpenObject(x, Append(text, t), p, a, e)
<1> DEFINE new == Append(text, t)
<1>1. /\ Len(new) = Len(text) + 1 /\ Len(text) \in Nat
      /\ \A i \in 1..Len(text) : new[i] = text[i]
  BY AppendIs
<1>2. a \in (p + 1)..Len(text) /\ a \in Nat /\ a - 1 \in 0..Len(text)
  BY DEF OpenObject, FirstBrace
<1> HIDE DEF new
<1>3. FirstBrace(new, p + 1, a)
  <2>1. \A i \in (p + 1)..(a - 1) : i \in 1..Len(text)
    BY <1>1, <1>2
  <2>2. a \in (p + 1)..Len(new) /\ a \in 1..Len(text)
    BY <1>1, <1>2
  <2> QED
    BY <1>1, <2>1, <2>2 DEF OpenObject, FirstBrace
<1>4. \A i \in a..e : i \in 0..Len(text)
  BY <1>1, <1>2
<1>5. x[a - 1] = ScanFrom(a) /\ \A i \in a..e : x[i].open > 0
  BY <1>2, <1>4 DEF OpenObject
<1> QED
  BY <1>3, <1>5 DEF OpenObject, new

\* and the rows found stay the rows.
LEMMA RowsKept ==
  ASSUME NEW text \in Seq(Token), NEW t \in Token, NEW tr, NEW x, NEW rs \in Seq(Nat \X Nat),
         \A i \in 0..Len(text) : x[i] = tr[i], RowsFound(tr, text, rs)
  PROVE  RowsFound(x, Append(text, t), rs)
<1> DEFINE new == Append(text, t)
<1>1. /\ Len(new) = Len(text) + 1 /\ Len(text) \in Nat
      /\ \A i \in 1..Len(text) : new[i] = text[i]
  BY AppendIs
<1> HIDE DEF new
<1>2. ASSUME NEW j \in 1..Len(rs)
      PROVE  /\ OpenObject(x, new, Behind(rs, j - 1), rs[j][1], rs[j][2] - 1)
             /\ rs[j][1] < rs[j][2] /\ rs[j][2] <= Len(new)
             /\ Ends(x[rs[j][2] - 1], new[rs[j][2]])
  <2>1. PICK a \in Nat, b \in Nat : a = rs[j][1] /\ b = rs[j][2]
    <3>1. rs[j] \in Nat \X Nat
      OBVIOUS
    <3> QED
      BY <3>1
  <2>2. PICK p \in Nat : p = Behind(rs, j - 1)
    <3>1. CASE j = 1
      BY <3>1 DEF Behind
    <3>2. CASE j # 1
      <4>1. j - 1 \in 1..Len(rs) /\ j - 1 # 0
        BY <3>2
      <4>2. rs[j - 1] \in Nat \X Nat
        BY <4>1
      <4> QED
        BY <4>1, <4>2 DEF Behind
    <3> QED
      BY <3>1, <3>2
  <2>3. OpenObject(tr, text, p, a, b - 1) /\ a < b /\ b <= Len(text) /\ Ends(tr[b - 1], text[b])
    BY <2>1, <2>2 DEF RowsFound
  <2>4. b - 1 \in Nat /\ b - 1 <= Len(text) /\ b - 1 \in 0..Len(text) /\ b \in 1..Len(text)
    BY <1>1, <2>3
  <2>5. OpenObject(x, new, p, a, b - 1)
    BY <2>3, <2>4, OpenKept DEF new
  <2>6. x[b - 1] = tr[b - 1] /\ new[b] = text[b] /\ b <= Len(new)
    BY <1>1, <2>4
  <2> QED
    BY <2>1, <2>2, <2>3, <2>5, <2>6
<1>3. RowsFound(x, new, rs)
  BY <1>2 DEF RowsFound
<1> QED
  BY <1>3 DEF new

\* One token of the writer is one turn of the scan.
OneTurn(t) ==
  IF quoted
  THEN (quoted' <=> escaped \/ t # "quote") /\ (escaped' <=> ~escaped /\ t = "backslash") /\ depth' = depth
  ELSE /\ ~escaped' /\ (quoted' <=> t = "quote")
       /\ depth' = IF t = "lbrace" THEN depth + 1 ELSE IF t = "rbrace" THEN depth - 1 ELSE depth
Writes(t) ==
  /\ t \in Token /\ answer' = Append(answer, t)
  /\ depth' \in Nat /\ quoted' \in BOOLEAN /\ escaped' \in BOOLEAN
  /\ (escaped' => quoted') /\ (quoted' => depth' > 0)
  /\ OneTurn(t)

\* Two states of the scan with the same fields are equal.
LEMMA ScanEqual ==
  ASSUME NEW r \in ScanState, NEW s \in ScanState,
         r.at = s.at, r.open = s.open, r.inString = s.inString, r.esc = s.esc
  PROVE  r = s
  BY DEF ScanState

\* The fields that a turn changes are those of the state it leads to.
LEMMA RecordTurn ==
  ASSUME NEW s \in ScanState, NEW r \in ScanState
  PROVE  /\ s.open = r.open => [s EXCEPT !.at = r.at, !.inString = r.inString, !.esc = r.esc] = r
         /\ s.esc = r.esc => [s EXCEPT !.at = r.at, !.inString = r.inString, !.open = r.open] = r
<1> DEFINE v == [s EXCEPT !.at = r.at, !.inString = r.inString, !.esc = r.esc]
           w == [s EXCEPT !.at = r.at, !.inString = r.inString, !.open = r.open]
<1>1. v \in ScanState /\ v.at = r.at /\ v.open = s.open /\ v.inString = r.inString /\ v.esc = r.esc
  BY DEF ScanState
<1>2. w \in ScanState /\ w.at = r.at /\ w.open = r.open /\ w.inString = r.inString /\ w.esc = s.esc
  BY DEF ScanState
<1> HIDE DEF v, w
<1>3. s.open = r.open => v = r
  BY <1>1, ScanEqual
<1>4. s.esc = r.esc => w = r
  BY <1>2, ScanEqual
<1> QED
  BY <1>3, <1>4 DEF v, w

\* What the writer does to its own state is what a turn does to that of the scan.
LEMMA NowTurns ==
  ASSUME CutInv, NEW t, Writes(t)
  PROVE  /\ Now' \in ScanState /\ Now' = After(Now, t) /\ Now'.at = Len(answer) + 2
<1>1. /\ t \in Token /\ answer \in Seq(Token) /\ depth \in Nat /\ quoted \in BOOLEAN /\ escaped \in BOOLEAN
      /\ Len(answer) \in Nat /\ (escaped => quoted)
  BY DEF CutInv, Writes
<1>2. answer' = Append(answer, t) /\ depth' \in Nat /\ quoted' \in BOOLEAN /\ escaped' \in BOOLEAN
  BY DEF Writes
<1>3. PICK at \in Nat : at = Len(answer) + 1 /\ at + 1 = Len(answer') + 1 /\ at + 1 = Len(answer) + 2 /\ at + 1 \in Nat
  BY <1>1, <1>2, AppendIs
<1>4. Now = [at |-> at, open |-> depth, inString |-> quoted, esc |-> escaped]
  BY <1>3, Zenon DEF Now
<1>5. Now' = [at |-> at + 1, open |-> depth', inString |-> quoted', esc |-> escaped']
  BY <1>3, Zenon DEF Now
<1>6. Now.at = at /\ Now.open = depth /\ Now.inString = quoted /\ Now.esc = escaped
  BY <1>4
<1>9. Now \in ScanState
  BY <1>1, <1>3, <1>4 DEF ScanState
<1>10. /\ Now' \in ScanState /\ Now'.at = at + 1 /\ Now'.open = depth'
       /\ Now'.inString = quoted' /\ Now'.esc = escaped'
  BY <1>2, <1>3, <1>5 DEF ScanState
<1>11. PICK s \in ScanState, r \in ScanState : s = Now /\ r = Now'
  BY <1>9, <1>10, Zenon
<1>12. /\ r.at = at + 1 /\ r.open = depth' /\ r.inString = quoted' /\ r.esc = escaped'
       /\ s.open = depth /\ s.esc = escaped
  BY <1>6, <1>10, <1>11, Zenon
<1>7. CASE quoted
  <2>1. (quoted' <=> escaped \/ t # "quote") /\ (escaped' <=> ~escaped /\ t = "backslash") /\ depth' = depth
    BY <1>7 DEF Writes, OneTurn
  <2>2. quoted' = (Now.esc \/ t # "quote") /\ escaped' = (~Now.esc /\ t = "backslash")
    BY <1>1, <1>2, <1>6, <2>1, Zenon
  <2>3. After(Now, t) = [Now EXCEPT !.at = @ + 1, !.inString = (Now.esc \/ t # "quote"),
                                    !.esc = (~Now.esc /\ t = "backslash")]
    BY <1>6, <1>7, Zenon DEF After
  <2>4. After(Now, t) = [s EXCEPT !.at = r.at, !.inString = r.inString, !.esc = r.esc]
    BY <1>6, <1>11, <1>12, <2>2, <2>3, Zenon
  <2>5. s.open = r.open
    BY <1>11, <1>12, <2>1, Zenon
  <2>6. [s EXCEPT !.at = r.at, !.inString = r.inString, !.esc = r.esc] = r
    BY <2>5, RecordTurn
  <2> QED
    BY <1>3, <1>10, <1>11, <2>4, <2>6, Zenon
<1>8. CASE ~quoted
  <2>1. ~escaped /\ ~escaped' /\ (quoted' <=> t = "quote")
        /\ depth' = IF t = "lbrace" THEN depth + 1 ELSE IF t = "rbrace" THEN depth - 1 ELSE depth
    BY <1>1, <1>8 DEF Writes, OneTurn
  <2>2. quoted' = (t = "quote") /\ escaped' = escaped
    BY <1>1, <1>2, <2>1, Zenon
  <2>3. After(Now, t) = [Now EXCEPT !.at = Now.at + 1, !.inString = (t = "quote"),
          !.open = IF t = "lbrace" THEN Now.open + 1 ELSE IF t = "rbrace" THEN Now.open - 1 ELSE Now.open]
    BY <1>6, <1>8, Zenon DEF After
  <2>4. After(Now, t) = [s EXCEPT !.at = r.at, !.inString = r.inString, !.open = r.open]
    <3>1. r.open = IF t = "lbrace" THEN Now.open + 1 ELSE IF t = "rbrace" THEN Now.open - 1 ELSE Now.open
      BY <1>6, <1>12, <2>1, Zenon
    <3> QED
      BY <1>6, <1>11, <1>12, <2>2, <2>3, <3>1, Zenon
  <2>5. s.esc = r.esc
    BY <1>11, <1>12, <2>2, Zenon
  <2>6. [s EXCEPT !.at = r.at, !.inString = r.inString, !.open = r.open] = r
    BY <2>5, RecordTurn
  <2> QED
    BY <1>3, <1>10, <1>11, <2>4, <2>6, Zenon
<1> QED
  BY <1>7, <1>8

\* A token that ends no row.
LEMMA NoRowEnds ==
  ASSUME CutInv, NEW t, Writes(t), rows' = rows,
         depth > 0 => depth' > 0, depth = 0 => IF t = "lbrace" THEN depth' > 0 ELSE depth' = 0
  PROVE  CutInv'
<1> DEFINE L == Len(answer)
           new == Append(answer, t)
<1>1. PICK tr : /\ Follows(tr, answer) /\ tr[L] = Now
                /\ RowsFound(tr, answer, rows)
                /\ Rest(tr, answer, Behind(rows, Len(rows)), depth)
  BY DEF CutInv
<1>2. /\ t \in Token /\ answer \in Seq(Token) /\ rows \in Seq(Nat \X Nat) /\ answer' = new
      /\ depth \in Nat /\ depth' \in Nat /\ quoted \in BOOLEAN /\ escaped \in BOOLEAN
      /\ (escaped => quoted) /\ (quoted => depth > 0)
  BY DEF CutInv, Writes
<1>3. /\ new \in Seq(Token) /\ L \in Nat /\ Len(new) = L + 1 /\ new[L + 1] = t
      /\ \A i \in 1..L : new[i] = answer[i]
  BY <1>2, AppendIs
<1>4. /\ Now' \in ScanState /\ Now' = After(tr[L], t) /\ Now'.at = L + 2
  BY <1>1, NowTurns
<1>5. PICK x : /\ Follows(x, new) /\ x[L + 1] = Now'
               /\ \A i \in 0..L : x[i] = tr[i]
  BY <1>1, <1>2, <1>4, TraceGrows
<1>6. RowsFound(x, new, rows)
  BY <1>1, <1>2, <1>5, RowsKept
<1>7. PICK p \in Nat : p = Behind(rows, Len(rows)) /\ p <= L
  <2>1. CASE Len(rows) = 0
    BY <1>3, <2>1 DEF Behind
  <2>2. CASE Len(rows) # 0
    <3>1. rows[Len(rows)] \in Nat \X Nat /\ Len(rows) \in 1..Len(rows)
      BY <1>2, <2>2
    <3> QED
      BY <1>1, <2>2, <3>1 DEF Behind, RowsFound
  <2> QED
    BY <2>1, <2>2
<1> HIDE DEF new
<1>8. Rest(x, new, p, depth')
  <2>1. CASE depth = 0 /\ t # "lbrace"
    <3>1. depth' = 0
      BY <2>1
    <3>2. \A i \in (p + 1)..L : answer[i] # "lbrace"
      BY <1>1, <1>7, <2>1 DEF Rest
    <3>3. ASSUME NEW i \in (p + 1)..(L + 1) PROVE new[i] # "lbrace"
      <4>1. CASE i = L + 1
        BY <1>3, <2>1, <4>1
      <4>2. CASE i # L + 1
        <5>1. i \in 1..L /\ i \in (p + 1)..L
          BY <1>3, <4>2
        <5> QED
          BY <1>3, <3>2, <5>1
      <4> QED
        BY <4>1, <4>2
    <3> QED
      BY <1>3, <3>1, <3>3 DEF Rest
  <2>2. CASE depth = 0 /\ t = "lbrace"
    <3>1. depth' > 0 /\ depth' # 0
      BY <1>2, <2>2
    <3>2. \A i \in (p + 1)..L : answer[i] # "lbrace"
      BY <1>1, <1>7, <2>2 DEF Rest
    <3>3. \A i \in (p + 1)..L : new[i] # "lbrace"
      <4>1. \A i \in (p + 1)..L : i \in 1..L
        BY <1>3, <1>7
      <4> QED
        BY <1>3, <3>2, <4>1
    <3>4. FirstBrace(new, p + 1, L + 1)
      <4>1. L + 1 \in (p + 1)..Len(new) /\ (L + 1) - 1 = L
        BY <1>3, <1>7
      <4> QED
        BY <1>3, <2>2, <3>3, <4>1 DEF FirstBrace
    <3>5. x[(L + 1) - 1] = ScanFrom(L + 1)
      <4>1. ~quoted /\ ~escaped
        BY <1>2, <2>2
      <4>2. quoted = FALSE /\ escaped = FALSE
        BY <1>2, <4>1, Zenon
      <4>3. Now = ScanFrom(L + 1)
        BY <2>2, <4>2, Zenon DEF Now, ScanFrom
      <4>4. (L + 1) - 1 = L /\ L \in 0..L
        BY <1>3
      <4> QED
        BY <1>1, <1>5, <4>3, <4>4
    <3>6. \A i \in (L + 1)..(L + 1) : x[i].open > 0
      <4>1. Now'.open = depth'
        BY DEF Now
      <4>2. \A i \in (L + 1)..(L + 1) : i = L + 1
        BY <1>3
      <4> QED
        BY <1>5, <3>1, <4>1, <4>2
    <3>7. OpenObject(x, new, p, L + 1, Len(new))
      BY <1>3, <3>4, <3>5, <3>6 DEF OpenObject
    <3> QED
      BY <3>1, <3>7 DEF Rest
  <2>3. CASE depth > 0
    <3>1. depth' > 0 /\ depth' # 0 /\ depth # 0
      BY <1>2, <2>3
    <3>2. PICK a : OpenObject(tr, answer, p, a, L)
      BY <1>1, <1>7, <3>1 DEF Rest
    <3>3. OpenObject(x, new, p, a, L)
      <4>1. L \in Nat /\ L <= Len(answer)
        BY <1>3
      <4>2. \A i \in 0..Len(answer) : x[i] = tr[i]
        BY <1>5
      <4> QED
        BY <1>2, <3>2, <4>1, <4>2, OpenKept DEF new
    <3>4. \A i \in a..(L + 1) : x[i].open > 0
      <4>1. Now'.open = depth'
        BY DEF Now
      <4>2. a \in Nat
        BY <3>3 DEF OpenObject, FirstBrace
      <4>3. \A i \in a..(L + 1) : i = L + 1 \/ i \in a..L
        BY <1>3, <4>2
      <4> QED
        BY <1>5, <3>1, <3>3, <4>1, <4>3 DEF OpenObject
    <3>5. OpenObject(x, new, p, a, Len(new))
      BY <1>3, <3>3, <3>4 DEF OpenObject
    <3> QED
      BY <3>1, <3>5 DEF Rest
  <2> QED
    BY <1>2, <2>1, <2>2, <2>3
<1>9. \E y : /\ Follows(y, answer') /\ y[Len(answer')] = Now'
             /\ RowsFound(y, answer', rows')
             /\ Rest(y, answer', Behind(rows', Len(rows')), depth')
  BY <1>2, <1>3, <1>5, <1>6, <1>7, <1>8
<1>10. \A j \in 1..Len(rows') : rows'[j][2] <= Behind(rows', Len(rows'))
  BY DEF CutInv
<1> QED
  BY <1>2, <1>3, <1>9, <1>10 DEF CutInv, Writes

\* The brace that ends a row.
LEMMA FirstOfRowIs ==
  ASSUME CutInv, NEW tr, NEW a, OpenObject(tr, answer, Behind(rows, Len(rows)), a, Len(answer))
  PROVE  FirstOfRow = a
<1> DEFINE p == Behind(rows, Len(rows))
           First(i) == /\ answer[i] = "lbrace"
                       /\ \A j \in 1..Len(rows) : rows[j][2] < i
                       /\ \A k \in 1..(i - 1) : answer[k] = "lbrace" => \E j \in 1..Len(rows) : k <= rows[j][2]
<1>1. /\ Len(answer) \in Nat /\ Len(rows) \in Nat
      /\ \A j \in 1..Len(rows) : rows[j][2] \in Nat /\ rows[j][2] <= p
  <2>1. \A j \in 1..Len(rows) : rows[j] \in Nat \X Nat
    BY DEF CutInv
  <2> QED
    BY <2>1 DEF CutInv
<1>2. p \in Nat
  <2>1. CASE Len(rows) = 0
    BY <2>1 DEF Behind
  <2>2. CASE Len(rows) # 0
    BY <1>1, <2>2 DEF Behind
  <2> QED
    BY <2>1, <2>2
<1>3. /\ a \in (p + 1)..Len(answer) /\ answer[a] = "lbrace"
      /\ \A i \in (p + 1)..(a - 1) : answer[i] # "lbrace"
  BY DEF OpenObject, FirstBrace
<1>4. a \in 1..Len(answer) /\ First(a)
  <2>1. \A j \in 1..Len(rows) : rows[j][2] < a
    BY <1>1, <1>2, <1>3
  <2>2. ASSUME NEW k \in 1..(a - 1), answer[k] = "lbrace"
        PROVE  \E j \in 1..Len(rows) : k <= rows[j][2]
    <3>1. k <= p
      BY <1>2, <1>3, <2>2
    <3>2. Len(rows) # 0 /\ p = rows[Len(rows)][2]
      BY <1>1, <3>1 DEF Behind
    <3> QED
      BY <1>1, <3>1, <3>2
  <2> QED
    BY <1>2, <1>3, <2>1, <2>2
<1>5. ASSUME NEW i \in 1..Len(answer), First(i) PROVE i = a
  <2>1. ~(i < a)
    <3>1. SUFFICES ASSUME i < a PROVE FALSE
      OBVIOUS
    <3>2. i \in 1..(a - 1)
      BY <1>4, <3>1
    <3>3. PICK j \in 1..Len(rows) : i <= rows[j][2]
      BY <1>4, <1>5, <3>2
    <3> QED
      BY <1>1, <1>5, <3>3
  <2>2. ~(a < i)
    <3>1. SUFFICES ASSUME a < i PROVE FALSE
      OBVIOUS
    <3>2. a \in 1..(i - 1)
      BY <1>4, <3>1
    <3>3. PICK j \in 1..Len(rows) : a <= rows[j][2]
      BY <1>4, <1>5, <3>2
    <3> QED
      BY <1>1, <1>4, <3>3
  <2> QED
    BY <1>4, <2>1, <2>2
<1> HIDE DEF First
<1>6. a = CHOOSE i \in 1..Len(answer) : First(i)
  BY <1>4, <1>5
<1> QED
  BY <1>6 DEF FirstOfRow, First

\* It makes the object that was open a row, behind which none is open.
LEMMA RowEnds ==
  ASSUME CutInv, Close, depth = 1, Writes("rbrace")
  PROVE  CutInv'
<1>0. PICK t \in Token : t = "rbrace"
  BY DEF Token
<1> DEFINE L == Len(answer)
           new == Append(answer, t)
           n == Len(rows)
<1>1. PICK tr : /\ Follows(tr, answer) /\ tr[L] = Now
                /\ RowsFound(tr, answer, rows)
                /\ Rest(tr, answer, Behind(rows, n), depth)
  BY DEF CutInv
<1>2. /\ t \in Token /\ answer \in Seq(Token) /\ rows \in Seq(Nat \X Nat) /\ answer' = new
      /\ ~quoted /\ depth' = 0 /\ n \in Nat
  BY <1>0 DEF CutInv, Writes, Close
<1>3. /\ new \in Seq(Token) /\ L \in Nat /\ Len(new) = L + 1 /\ new[L + 1] = t
      /\ \A i \in 1..L : new[i] = answer[i]
  BY <1>2, AppendIs
<1>4. /\ Now' \in ScanState /\ Now' = After(tr[L], t) /\ Now'.at = L + 2
  BY <1>0, <1>1, NowTurns
<1>5. PICK x : /\ Follows(x, new) /\ x[L + 1] = Now'
               /\ \A i \in 0..L : x[i] = tr[i]
  <2>1. Follows(tr, answer) /\ answer \in Seq(Token)
    BY <1>1, <1>2
  <2> QED
    BY <1>4, <2>1, TraceGrows
<1>6. RowsFound(x, new, rows)
  BY <1>1, <1>2, <1>5, RowsKept
<1>7. PICK p \in Nat : p = Behind(rows, n) /\ p <= L
  <2>1. CASE n = 0
    BY <1>3, <2>1 DEF Behind
  <2>2. CASE n # 0
    <3>1. rows[n] \in Nat \X Nat /\ n \in 1..n
      BY <1>2, <2>2
    <3> QED
      BY <1>1, <2>2, <3>1 DEF Behind, RowsFound
  <2> QED
    BY <2>1, <2>2
<1>8. PICK a : OpenObject(tr, answer, p, a, L)
  BY <1>1, <1>7 DEF Rest
<1>9. a \in Nat /\ a \in (p + 1)..L
  BY <1>8 DEF OpenObject, FirstBrace
<1> DEFINE new2 == Append(rows, <<a, L + 1>>)
<1>10. rows' = new2
  <2>1. FirstOfRow = a
    BY <1>7, <1>8, FirstOfRowIs
  <2> QED
    BY <2>1 DEF Close
<1>11. OpenObject(x, new, p, a, L)
  <2>1. L \in Nat /\ L <= Len(answer)
    BY <1>3
  <2>2. \A i \in 0..Len(answer) : x[i] = tr[i]
    BY <1>5
  <2> QED
    BY <1>2, <1>8, <2>1, <2>2, OpenKept
<1> HIDE DEF new
<1>12. /\ new2 \in Seq(Nat \X Nat) /\ Len(new2) = n + 1 /\ new2[n + 1] = <<a, L + 1>>
       /\ \A j \in 1..n : new2[j] = rows[j]
  <2>1. <<a, L + 1>> \in Nat \X Nat
    BY <1>3, <1>9
  <2> QED
    BY <1>2, <2>1
<1> HIDE DEF new2
<1>13. Behind(new2, n) = p /\ Behind(new2, n + 1) = L + 1
  <2>1. CASE n = 0
    BY <1>2, <1>7, <1>12, <2>1 DEF Behind
  <2>2. CASE n # 0
    <3>1. n \in 1..n /\ n + 1 # 0
      BY <1>2, <2>2
    <3>2. Behind(rows, n) = rows[n][2] /\ Behind(new2, n) = new2[n][2]
      BY <2>2, Zenon DEF Behind
    <3>3. Behind(new2, n + 1) = new2[n + 1][2]
      BY <3>1, Zenon DEF Behind
    <3>4. new2[n] = rows[n]
      BY <1>12, <3>1
    <3>5. new2[n + 1][2] = L + 1
      BY <1>12
    <3> QED
      BY <1>7, <3>2, <3>3, <3>4, <3>5
  <2> QED
    BY <2>1, <2>2
<1>14. \A j \in 1..n : Behind(new2, j - 1) = Behind(rows, j - 1)
  <2> TAKE j \in 1..n
  <2>1. CASE j = 1
    BY <2>1 DEF Behind
  <2>2. CASE j # 1
    <3>1. j - 1 \in 1..n /\ j - 1 # 0
      BY <1>2, <2>2
    <3> QED
      BY <1>12, <3>1 DEF Behind
  <2> QED
    BY <2>1, <2>2
<1>15. RowsFound(x, new, new2)
  <2>1. ASSUME NEW j \in 1..(n + 1)
        PROVE  /\ OpenObject(x, new, Behind(new2, j - 1), new2[j][1], new2[j][2] - 1)
               /\ new2[j][1] < new2[j][2] /\ new2[j][2] <= Len(new)
               /\ Ends(x[new2[j][2] - 1], new[new2[j][2]])
    <3>1. CASE j = n + 1
      <4>1. j - 1 = n /\ new2[j][1] = a /\ new2[j][2] = L + 1 /\ (L + 1) - 1 = L
        BY <1>2, <1>3, <1>12, <3>1
      <4>2. a < L + 1 /\ L + 1 <= Len(new)
        BY <1>3, <1>9
      <4>3. Ends(x[L], new[L + 1])
        <5>1. x[L] = Now
          BY <1>1, <1>3, <1>5
        <5>2. ~Now.inString /\ Now.open = 1
          BY <1>2 DEF Now
        <5> QED
          BY <1>0, <1>3, <5>1, <5>2 DEF Ends
      <4> QED
        BY <1>11, <1>13, <4>1, <4>2, <4>3
    <3>2. CASE j # n + 1
      <4>1. j \in 1..n
        BY <1>2, <3>2
      <4> QED
        BY <1>6, <1>12, <1>14, <4>1 DEF RowsFound
    <3> QED
      BY <3>1, <3>2
  <2> QED
    BY <1>12, <2>1 DEF RowsFound
<1>16. Rest(x, new, L + 1, 0)
  <2>1. \A i \in (L + 1 + 1)..(L + 1) : FALSE
    BY <1>3
  <2> QED
    BY <1>3, <2>1 DEF Rest
<1>17. \E y : /\ Follows(y, answer') /\ y[Len(answer')] = Now'
             /\ RowsFound(y, answer', rows')
             /\ Rest(y, answer', Behind(rows', Len(rows')), depth')
  BY <1>2, <1>3, <1>5, <1>10, <1>12, <1>13, <1>15, <1>16
<1>18. \A j \in 1..Len(rows') : rows'[j][2] <= Behind(rows', Len(rows'))
  <2>1. ASSUME NEW j \in 1..(n + 1) PROVE new2[j][2] <= L + 1
    <3>1. CASE j = n + 1
      BY <1>3, <1>12, <3>1
    <3>2. CASE j # n + 1
      <4>1. j \in 1..n /\ rows[j] \in Nat \X Nat
        BY <1>2, <3>2
      <4>2. PICK b \in Nat : b = rows[j][2]
        BY <4>1
      <4>3. b <= p
        BY <1>7, <4>1, <4>2 DEF CutInv
      <4>4. b <= L + 1
        BY <1>3, <1>7, <4>3
      <4>5. new2[j][2] = b
        BY <1>12, <4>1, <4>2
      <4> QED
        BY <4>4, <4>5
    <3> QED
      BY <3>1, <3>2
  <2> QED
    BY <1>10, <1>12, <1>13, <2>1
<1> QED
  BY <1>2, <1>3, <1>10, <1>12, <1>17, <1>18 DEF CutInv, Writes

\* So the invariant is inductive.
LEMMA CutStep == CutInv /\ [CutNext]_cutVars => CutInv'
<1> SUFFICES ASSUME CutInv, [CutNext]_cutVars PROVE CutInv'
  OBVIOUS
<1>1. /\ answer \in Seq(Token) /\ depth \in Nat /\ quoted \in BOOLEAN /\ escaped \in BOOLEAN
      /\ (escaped => quoted) /\ (quoted => depth > 0)
  BY DEF CutInv
<1>2. CASE Open
  <2>1. Writes("lbrace")
    BY <1>1, <1>2 DEF Open, Write, Writes, OneTurn, Token
  <2> QED
    BY <1>1, <1>2, <2>1, NoRowEnds DEF Open
<1>3. CASE Close
  <2>1. Writes("rbrace")
    BY <1>1, <1>3 DEF Close, Write, Writes, OneTurn, Token
  <2>2. CASE depth = 1
    BY <1>3, <2>1, <2>2, RowEnds
  <2>3. CASE depth # 1
    BY <1>1, <1>3, <2>1, <2>3, NoRowEnds DEF Close
  <2> QED
    BY <2>2, <2>3
<1>4. CASE Quote
  <2>1. Writes("quote")
    BY <1>1, <1>4 DEF Quote, Write, Writes, OneTurn, Token
  <2> QED
    BY <1>1, <1>4, <2>1, NoRowEnds DEF Quote
<1>5. CASE Escape
  <2>1. Writes("backslash")
    BY <1>1, <1>5 DEF Escape, Write, Writes, OneTurn, Token
  <2> QED
    BY <1>1, <1>5, <2>1, NoRowEnds DEF Escape
<1>6. ASSUME NEW t \in Token, Escaped(t) PROVE CutInv'
  <2>1. Writes(t)
    BY <1>1, <1>6 DEF Escaped, Write, Writes, OneTurn, Token
  <2> QED
    BY <1>1, <1>6, <2>1, NoRowEnds DEF Escaped
<1>7. ASSUME NEW t \in Token, Other(t) PROVE CutInv'
  <2>1. Writes(t)
    BY <1>1, <1>7 DEF Other, Write, Writes, OneTurn, Token
  <2> QED
    BY <1>1, <1>7, <2>1, NoRowEnds DEF Other
<1>8. CASE UNCHANGED cutVars
  BY <1>8 DEF CutInv, Now, cutVars
<1> QED
  BY <1>2, <1>3, <1>4, <1>5, <1>6, <1>7, <1>8 DEF CutNext

\* Wherever an answer is cut, however long it is and however deep its objects: the panel
\* saves the rows that arrived whole.
THEOREM RowsAreSaved == CutSpec => []WholeRowsAreSaved
<1>1. CutSpec => []CutInv
  BY CutStart, CutStep, PTL DEF CutSpec
<1> QED
  BY <1>1, CutHolds, PTL

\* The answer and the depth keep to their bounds.
CutBounded == Len(answer) <= LastToken /\ depth <= DepthMax
LEMMA CutBounds ==
  /\ CutInit => CutBounded
  /\ CutInv /\ CutBounded /\ [CutNext]_cutVars => CutBounded'
<1>b. LastToken \in Nat /\ DepthMax \in Nat
  BY CutConstantsOK
<1>1. CutInit => CutBounded
  <2> SUFFICES ASSUME CutInit PROVE CutBounded
    OBVIOUS
  <2>1. Len(answer) = 0 /\ depth = 0
    BY DEF CutInit
  <2> QED
    BY <1>b, <2>1 DEF CutBounded
<1>2. ASSUME CutInv, CutBounded, [CutNext]_cutVars PROVE CutBounded'
  <2>t. answer \in Seq(Token) /\ Len(answer) \in Nat /\ depth \in Nat
    BY <1>2 DEF CutInv
  <2>w. ASSUME NEW t, Write(t) PROVE Len(answer') <= LastToken
    <3>1. Len(answer) < LastToken /\ answer' = Append(answer, t)
      BY <2>w DEF Write
    <3>2. Len(answer') = Len(answer) + 1
      BY <2>t, <3>1
    <3> QED
      BY <1>b, <2>t, <3>1, <3>2
  <2>1. CASE Open
    BY <1>b, <2>1, <2>t, <2>w DEF Open, CutBounded
  <2>2. CASE Close
    BY <1>2, <1>b, <2>2, <2>t, <2>w DEF Close, CutBounded
  <2>3. CASE Quote \/ Escape
    BY <1>2, <2>3, <2>w DEF Quote, Escape, CutBounded
  <2>4. ASSUME NEW t \in Token, Escaped(t) \/ Other(t) PROVE CutBounded'
    BY <1>2, <2>4, <2>w DEF Escaped, Other, CutBounded
  <2>5. CASE UNCHANGED cutVars
    BY <1>2, <2>5 DEF cutVars, CutBounded
  <2> QED
    BY <1>2, <2>1, <2>2, <2>3, <2>4, <2>5 DEF CutNext
<1> QED
  BY <1>1, <1>2

\* The places of the rows are places of the answer.
LEMMA PlacesAreTyped == CutInv /\ CutBounded => CutTypeOK
<1> SUFFICES ASSUME CutInv, CutBounded PROVE CutTypeOK
  OBVIOUS
<1>1. /\ answer \in Seq(Token) /\ Len(answer) \in Nat /\ Len(answer) <= LastToken /\ LastToken \in Nat
      /\ depth \in Nat /\ depth <= DepthMax /\ DepthMax \in Nat
      /\ quoted \in BOOLEAN /\ escaped \in BOOLEAN /\ rows \in Seq(Nat \X Nat)
  BY CutConstantsOK DEF CutInv, CutBounded
<1>2. PICK tr : RowsFound(tr, answer, rows)
  BY DEF CutInv
<1>3. ASSUME NEW j \in 1..Len(rows) PROVE rows[j] \in (1..LastToken) \X (1..LastToken)
  <2>1. rows[j] \in Nat \X Nat
    BY <1>1
  <2>2. PICK a \in Nat, b \in Nat : rows[j] = <<a, b>>
    BY <2>1
  <2>3. a < b /\ b <= Len(answer) /\ a \in (Behind(rows, j - 1) + 1)..Len(answer)
    BY <1>2, <2>2 DEF RowsFound, OpenObject, FirstBrace
  <2>4. Behind(rows, j - 1) \in Nat
    <3>1. CASE j = 1
      BY <3>1 DEF Behind
    <3>2. CASE j # 1
      <4>1. PICK i \in 1..Len(rows) : i = j - 1 /\ i # 0
        BY <1>1, <3>2
      <4>2. rows[i] \in Nat \X Nat
        BY <1>1
      <4>3. rows[i][2] \in Nat
        BY <4>2
      <4> QED
        BY <4>1, <4>3 DEF Behind
    <3> QED
      BY <3>1, <3>2
  <2>5. a \in 1..LastToken /\ b \in 1..LastToken
    BY <1>1, <2>2, <2>3, <2>4
  <2> QED
    BY <2>2, <2>5
<1>4. rows \in Seq((1..LastToken) \X (1..LastToken))
  <2>1. Len(rows) \in Nat /\ DOMAIN rows = 1..Len(rows) /\ rows = [j \in 1..Len(rows) |-> rows[j]]
    BY <1>1
  <2>2. rows \in [1..Len(rows) -> (1..LastToken) \X (1..LastToken)]
    BY <1>3, <2>1
  <2> QED
    BY <2>1, <2>2
<1> QED
  BY <1>1, <1>4 DEF CutTypeOK

\* The cut answer and the rows in it keep their types.
LEMMA CutTypes == CutSpec => []CutTypeOK
<1> QED
  BY CutStart, CutStep, CutBounds, PlacesAreTyped, PTL DEF CutSpec
=============================================================================
