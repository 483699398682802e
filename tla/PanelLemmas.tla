----------------------------- MODULE PanelLemmas -----------------------------
(***************************************************************************)
(* What the proofs about the web panel share: induction over the natural   *)
(* numbers, the existence of a function that is defined by recursion, and  *)
(* the parts of a sequence.                                                *)
(*                                                                         *)
(* f[x \in D] == e is CHOOSE f : f = [x \in D |-> e]: the equation may be  *)
(* used of f only where some function satisfies it.                        *)
(***************************************************************************)
EXTENDS Naturals, Sequences, SequencesExt, SequenceTheorems, WellFoundedInduction, TLAPS

\* Induction over the natural numbers for a set.
LEMMA NatInd ==
  ASSUME NEW S, 0 \in S, \A n \in Nat : n \in S => n + 1 \in S
  PROVE  Nat \subseteq S
<1> DEFINE T == Nat \ S
<1>1. SUFFICES ASSUME T # {} PROVE FALSE
  OBVIOUS
<1>2. \E x \in T : \A y \in T : ~(<<y, x>> \in OpToRel(<, Nat))
  <2>1. T \subseteq Nat
    OBVIOUS
  <2> HIDE DEF T
  <2> QED
    BY <1>1, <2>1, WFMin, NatLessThanWellFounded
<1>3. PICK x \in T : \A y \in T : ~(y < x)
  BY <1>2 DEF OpToRel
<1>4. x # 0 /\ x - 1 \in Nat /\ x - 1 < x
  OBVIOUS
<1>5. x - 1 \in S
  BY <1>3, <1>4
<1> QED
  BY <1>4, <1>5

\* The arguments of a recursive definition: each is a last one, or leads to a next one of
\* a smaller rank, whose value gives its own.
Descends(D, V, N, rank, last, val, next, step) ==
  /\ N \in Nat /\ rank \in [D -> 0..N] /\ last \subseteq D
  /\ val \in [D -> V] /\ next \in [D -> D] /\ step \in [D \X V -> V]
  /\ \A x \in D \ last : rank[next[x]] < rank[x]
Solves(f, D, V, last, val, next, step) ==
  /\ f \in [D -> V]
  /\ \A x \in D : f[x] = IF x \in last THEN val[x] ELSE step[<<x, f[next[x]]>>]

\* Such a definition defines a function.
LEMMA Recursion ==
  ASSUME NEW D, NEW V, NEW N, NEW rank, NEW last, NEW val, NEW next, NEW step,
         Descends(D, V, N, rank, last, val, next, step)
  PROVE  \E f : Solves(f, D, V, last, val, next, step)
<1> USE DEF Descends
<1> DEFINE Value(f, x) == IF x \in last THEN val[x] ELSE step[<<x, f[next[x]]>>]
           S == {n \in Nat : \E f \in [D -> V] : \A x \in D : rank[x] < n => f[x] = Value(f, x)}
<1>1. 0 \in S
  <2>1. \A x \in D : ~(rank[x] < 0)
    OBVIOUS
  <2> QED
    BY <2>1
<1>2. ASSUME NEW n \in Nat, n \in S PROVE n + 1 \in S
  <2>1. PICK f \in [D -> V] : \A x \in D : rank[x] < n => f[x] = Value(f, x)
    BY <1>2
  <2>2. \A x \in D : Value(f, x) \in V
    OBVIOUS
  <2> DEFINE g == [x \in D |-> IF rank[x] = n THEN Value(f, x) ELSE f[x]]
  <2>3. g \in [D -> V]
    BY <2>2
  <2>4. ASSUME NEW x \in D, rank[x] < n + 1 PROVE g[x] = Value(g, x)
    <3>1. CASE x \in last
      <4>1. Value(f, x) = val[x] /\ Value(g, x) = val[x]
        BY <3>1
      <4> QED
        BY <2>1, <2>4, <4>1
    <3>2. CASE x \notin last
      <4>1. next[x] \in D /\ rank[next[x]] < rank[x] /\ rank[x] \in Nat /\ rank[next[x]] \in Nat
        BY <3>2
      <4>2. g[next[x]] = f[next[x]]
        BY <2>4, <4>1
      <4>3. Value(g, x) = Value(f, x)
        BY <3>2, <4>2
      <4>4. rank[x] = n \/ rank[x] < n
        BY <2>4, <4>1
      <4>5. g[x] = Value(f, x)
        BY <2>1, <4>4
      <4> QED
        BY <4>3, <4>5
    <3> QED
      BY <3>1, <3>2
  <2> HIDE DEF g
  <2> QED
    BY <2>3, <2>4
<1> HIDE DEF S
<1>3. N + 1 \in S
  BY <1>1, <1>2, NatInd
<1>4. PICK f \in [D -> V] : \A x \in D : rank[x] < N + 1 => f[x] = Value(f, x)
  BY <1>3 DEF S
<1>5. \A x \in D : rank[x] < N + 1
  OBVIOUS
<1> QED
  BY <1>4, <1>5 DEF Solves

\* A loop over the numbers from 1 to n, which gathers a value of V from a first one on.
LoopBody(V, n, first, g) == n \in Nat /\ first \in V /\ g \in [(1..n) \X V -> V]

LEMMA Loop ==
  ASSUME NEW V, NEW n, NEW first, NEW g, LoopBody(V, n, first, g)
  PROVE  \E f \in [0..n -> V] : f[0] = first /\ \A i \in 1..n : f[i] = g[<<i, f[i - 1]>>]
<1> USE DEF LoopBody
<1> DEFINE D == 0..n
           last == {0}
           val == [i \in D |-> first]
           next == [i \in D |-> IF i = 0 THEN 0 ELSE i - 1]
           rank == [i \in D |-> i]
           step == [y \in D \X V |-> IF y[1] = 0 THEN first ELSE g[y]]
<1>1. rank \in [D -> 0..n] /\ last \subseteq D /\ val \in [D -> V] /\ next \in [D -> D]
  <2>1. \A i \in D : i # 0 => i - 1 \in D
    OBVIOUS
  <2> QED
    BY <2>1
<1>2. step \in [D \X V -> V]
  <2>1. ASSUME NEW y \in D \X V, y[1] # 0 PROVE g[y] \in V
    <3>1. y \in (1..n) \X V
      BY <2>1
    <3> QED
      BY <3>1
  <2> QED
    BY <2>1
<1>3. \A i \in D \ last : rank[next[i]] < rank[i]
  OBVIOUS
<1>4. PICK f : Solves(f, D, V, last, val, next, step)
  <2>1. Descends(D, V, n, rank, last, val, next, step)
    <3> HIDE DEF D, last, val, next, rank, step
    <3> QED
      BY <1>1, <1>2, <1>3 DEF Descends
  <2> HIDE DEF D, last, val, next, rank, step
  <2> QED
    BY <2>1, Recursion
<1>5. f \in [D -> V] /\ \A i \in D : f[i] = IF i \in last THEN val[i] ELSE step[<<i, f[next[i]]>>]
  <2> HIDE DEF D, last, val, next, rank, step
  <2> QED
    BY <1>4 DEF Solves
<1>6. f[0] = first
  <2>1. 0 \in D /\ 0 \in last /\ val[0] = first
    OBVIOUS
  <2> HIDE DEF D, last, val, next, step
  <2> QED
    BY <1>5, <2>1
<1>7. ASSUME NEW i \in 1..n PROVE f[i] = g[<<i, f[i - 1]>>]
  <2>1. i \in D /\ i \notin last /\ next[i] = i - 1 /\ i - 1 \in D
    OBVIOUS
  <2>2. f[i - 1] \in V /\ f[i] = step[<<i, f[i - 1]>>]
    BY <1>5, <2>1
  <2> QED
    BY <2>1, <2>2
<1> QED
  BY <1>5, <1>6, <1>7

\* A set of numbers that is not empty has a smallest one.
LEMMA MinIs ==
  ASSUME NEW S, S \subseteq Nat, S # {}
  PROVE  Min(S) \in S /\ \A y \in S : Min(S) <= y
<1>1. PICK x \in S : \A y \in S : ~(<<y, x>> \in OpToRel(<, Nat))
  BY WFMin, NatLessThanWellFounded
<1>2. \A y \in S : ~(y < x)
  BY <1>1 DEF OpToRel
<1>3. \A y \in S : x <= y
  BY <1>2
<1> QED
  BY <1>3 DEF Min

-----------------------------------------------------------------------------
(* Sequences. *)

\* Append keeps what is there and puts the element at the end.
LEMMA AppendIs ==
  ASSUME NEW S, NEW s \in Seq(S), NEW e \in S
  PROVE  /\ Append(s, e) \in Seq(S) /\ Len(Append(s, e)) = Len(s) + 1
         /\ \A i \in 1..Len(s) : Append(s, e)[i] = s[i]
         /\ Append(s, e)[Len(s) + 1] = e
  OBVIOUS

LEMMA AppendRange ==
  ASSUME NEW S, NEW s \in Seq(S), NEW e \in S
  PROVE  Range(Append(s, e)) = Range(s) \cup {e}
<1>1. 1..(Len(s) + 1) = 1..Len(s) \cup {Len(s) + 1}
  OBVIOUS
<1> QED
  BY <1>1, AppendIs DEF Range

LEMMA ConcatRange ==
  ASSUME NEW S, NEW s \in Seq(S), NEW t \in Seq(S)
  PROVE  /\ s \o t \in Seq(S) /\ Len(s \o t) = Len(s) + Len(t)
         /\ Range(s) \subseteq Range(s \o t)
<1>1. s \o t \in Seq(S) /\ Len(s \o t) = Len(s) + Len(t)
  BY ConcatProperties
<1>2. \A i \in 1..Len(s) : i \in 1..Len(s \o t) /\ (s \o t)[i] = s[i]
  BY <1>1, ConcatProperties
<1> QED
  BY <1>1, <1>2 DEF Range

\* The end of a sequence from a place on, and the element at that place.
LEMMA SubSeqSplit ==
  ASSUME NEW S, NEW rs \in Seq(S), NEW j \in 1..Len(rs)
  PROVE  SubSeq(rs, j, Len(rs)) = <<rs[j]>> \o SubSeq(rs, j + 1, Len(rs))
<1> DEFINE n == Len(rs)
           s == SubSeq(rs, j, n)
           tail == SubSeq(rs, j + 1, n)
           t == <<rs[j]>> \o tail
<1>1. n \in Nat /\ j \in Nat /\ rs[j] \in S
  OBVIOUS
<1>2. s \in Seq(S) /\ Len(s) = n - j + 1 /\ \A i \in 1..(n - j + 1) : s[i] = rs[j + i - 1]
  BY <1>1
<1>3. tail \in Seq(S) /\ Len(tail) = n - j /\ \A i \in 1..(n - j) : tail[i] = rs[j + i]
  BY <1>1
<1>4. <<rs[j]>> \in Seq(S) /\ Len(<<rs[j]>>) = 1 /\ <<rs[j]>>[1] = rs[j]
  BY <1>1
<1> HIDE DEF s, tail
<1> HIDE DEF n
<1>5. /\ t \in Seq(S) /\ Len(t) = 1 + (n - j)
      /\ \A i \in 1..(1 + (n - j)) : t[i] = IF i <= 1 THEN <<rs[j]>>[i] ELSE tail[i - 1]
  BY <1>3, <1>4, ConcatProperties
<1> HIDE DEF t
<1>6. ASSUME NEW i \in 1..(n - j + 1) PROVE t[i] = s[i]
  <2>1. CASE i = 1
    BY <1>1, <1>2, <1>4, <1>5, <2>1
  <2>2. CASE i # 1
    <3>1. i - 1 \in 1..(n - j) /\ j + (i - 1) = j + i - 1 /\ i \in 1..(1 + (n - j)) /\ ~(i <= 1)
      BY <1>1, <2>2
    <3> QED
      BY <1>2, <1>3, <1>5, <3>1
  <2> QED
    BY <2>1, <2>2
<1> QED
  <2>1. Len(s) = Len(t)
    BY <1>1, <1>2, <1>5
  <2>2. s = t
    BY <1>2, <1>5, <1>6, <2>1, SeqEqual
  <2> QED
    BY <2>2 DEF s, t, tail, n

\* RemoveAt keeps what is before the index and moves up what is behind it.
LEMMA RemoveAtIs ==
  ASSUME NEW S, NEW s \in Seq(S), NEW i \in DOMAIN s
  PROVE  /\ RemoveAt(s, i) \in Seq(S) /\ Len(RemoveAt(s, i)) = Len(s) - 1
         /\ \A j \in 1..(Len(s) - 1) : RemoveAt(s, i)[j] = IF j < i THEN s[j] ELSE s[j + 1]
<1> DEFINE before == SubSeq(s, 1, i - 1)
           behind == SubSeq(s, i + 1, Len(s))
<1>1. i \in 1..Len(s) /\ Len(s) \in Nat
  OBVIOUS
<1>2. /\ before \in Seq(S) /\ Len(before) = i - 1
      /\ \A j \in 1..(i - 1) : before[j] = s[j]
  BY <1>1
<1>3. /\ behind \in Seq(S) /\ Len(behind) = Len(s) - i
      /\ \A j \in 1..(Len(s) - i) : behind[j] = s[i + j]
  BY <1>1
<1>4. RemoveAt(s, i) = before \o behind
  BY DEF RemoveAt
<1> HIDE DEF before, behind
<1>5. RemoveAt(s, i) \in Seq(S) /\ Len(RemoveAt(s, i)) = Len(s) - 1
  BY <1>1, <1>2, <1>3, <1>4
<1>6. ASSUME NEW j \in 1..(Len(s) - 1) PROVE RemoveAt(s, i)[j] = IF j < i THEN s[j] ELSE s[j + 1]
  <2>1. CASE j < i
    BY <1>1, <1>2, <1>3, <1>4, <2>1
  <2>2. CASE ~(j < i)
    <3>1. (before \o behind)[j] = behind[j - (i - 1)] /\ j - (i - 1) \in 1..(Len(s) - i)
      <4>1. \A k \in 1..(Len(before) + Len(behind)) :
              (before \o behind)[k] = IF k <= Len(before) THEN before[k] ELSE behind[k - Len(before)]
        BY <1>2, <1>3, ConcatProperties
      <4>2. j \in 1..(Len(before) + Len(behind)) /\ ~(j <= Len(before))
        BY <1>1, <1>2, <1>3, <2>2
      <4>3. j - (i - 1) \in 1..(Len(s) - i)
        BY <1>1, <2>2
      <4> QED
        BY <1>2, <4>1, <4>2, <4>3
    <3>2. behind[j - (i - 1)] = s[i + (j - (i - 1))]
      BY <1>3, <3>1
    <3>3. i + (j - (i - 1)) = j + 1
      BY <1>1
    <3> QED
      BY <1>4, <2>2, <3>1, <3>2, <3>3
  <2> QED
    BY <2>1, <2>2
<1> QED
  BY <1>5, <1>6

\* InsertAt keeps what is before the index and moves the rest behind the element.
LEMMA InsertAtIs ==
  ASSUME NEW S, NEW s \in Seq(S), NEW i \in 1..(Len(s) + 1), NEW e \in S
  PROVE  /\ InsertAt(s, i, e) \in Seq(S) /\ Len(InsertAt(s, i, e)) = Len(s) + 1
         /\ InsertAt(s, i, e)[i] = e
         /\ \A j \in 1..Len(s) : InsertAt(s, i, e)[IF j < i THEN j ELSE j + 1] = s[j]
<1> DEFINE n == Len(s)
           before == SubSeq(s, 1, i - 1)
           behind == SubSeq(s, i, Len(s))
           front == before \o <<e>>
           t == InsertAt(s, i, e)
<1>1. n \in Nat /\ i \in Nat /\ i - 1 \in Nat /\ n - i + 1 \in Nat
  OBVIOUS
<1>2. before \in Seq(S) /\ Len(before) = i - 1 /\ \A j \in 1..(i - 1) : before[j] = s[j]
  BY <1>1
<1>3. /\ behind \in Seq(S) /\ Len(behind) = n - i + 1
      /\ \A j \in 1..(n - i + 1) : behind[j] = s[i + j - 1]
  BY <1>1
<1>4. t = front \o behind
  BY DEF InsertAt
<1> HIDE DEF before, behind, t
<1>5. front \in Seq(S) /\ Len(front) = i /\ front[i] = e /\ \A j \in 1..(i - 1) : front[j] = s[j]
  <2>1. <<e>> \in Seq(S) /\ Len(<<e>>) = 1 /\ <<e>>[1] = e
    OBVIOUS
  <2>2. /\ front \in Seq(S) /\ Len(front) = (i - 1) + 1
        /\ \A j \in 1..((i - 1) + 1) : front[j] = IF j <= i - 1 THEN before[j] ELSE <<e>>[j - (i - 1)]
    BY <1>2, <2>1, ConcatProperties
  <2>3. i \in 1..((i - 1) + 1) /\ ~(i <= i - 1) /\ i - (i - 1) = 1 /\ (i - 1) + 1 = i
    BY <1>1
  <2>4. front[i] = e
    BY <2>1, <2>2, <2>3
  <2>5. \A j \in 1..(i - 1) : front[j] = s[j]
    BY <1>1, <1>2, <2>2
  <2> QED
    BY <2>2, <2>3, <2>4, <2>5
<1> HIDE DEF front
<1>6. /\ t \in Seq(S) /\ Len(t) = i + (n - i + 1)
      /\ \A j \in 1..(i + (n - i + 1)) : t[j] = IF j <= i THEN front[j] ELSE behind[j - i]
  BY <1>3, <1>4, <1>5, ConcatProperties
<1>7. i + (n - i + 1) = n + 1
  BY <1>1
<1>8. t[i] = e
  BY <1>1, <1>5, <1>6, <1>7
<1>9. ASSUME NEW j \in 1..n PROVE t[IF j < i THEN j ELSE j + 1] = s[j]
  <2>1. CASE j < i
    BY <1>1, <1>5, <1>6, <1>7, <2>1
  <2>2. CASE ~(j < i)
    <3>1. j + 1 \in 1..(n + 1) /\ ~(j + 1 <= i) /\ (j + 1) - i \in 1..(n - i + 1)
          /\ i + ((j + 1) - i) - 1 = j
      BY <1>1, <2>2
    <3>2. t[j + 1] = behind[(j + 1) - i]
      BY <1>6, <1>7, <3>1
    <3>3. behind[(j + 1) - i] = s[i + ((j + 1) - i) - 1]
      BY <1>3, <3>1
    <3> QED
      BY <2>2, <3>1, <3>2, <3>3
  <2> QED
    BY <2>1, <2>2
<1> QED
  BY <1>6, <1>7, <1>8, <1>9 DEF t
=============================================================================
