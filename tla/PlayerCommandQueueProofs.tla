---------------------- MODULE PlayerCommandQueueProofs ----------------------
(***************************************************************************)
(* Theorems about the two queues of the Lua script: who holds the slot of  *)
(* each, and how many mutations a player may have waiting.                 *)
(***************************************************************************)
EXTENDS PlayerCommandQueue, FiniteSetTheorems, SequenceTheorems, TLAPS

---------------------------------------------------------------------------
(* Sequences without repetition, by their elements.                        *)

Elems(s) == {s[i] : i \in 1..Len(s)}
Apart(s) == \A i, j \in 1..Len(s) : s[i] = s[j] => i = j

LEMMA PushParts ==
  ASSUME NEW S, NEW s \in Seq(S), NEW x \in S
  PROVE  /\ <<x>> \o s \in Seq(S) /\ Len(<<x>> \o s) = Len(s) + 1
         /\ (<<x>> \o s)[1] = x /\ \A i \in 1..Len(s) : (<<x>> \o s)[i + 1] = s[i]
         /\ Elems(<<x>> \o s) = {x} \cup Elems(s)
         /\ Apart(s) /\ x \notin Elems(s) => Apart(<<x>> \o s)
<1> DEFINE t == <<x>> \o s
<1>1. /\ t \in Seq(S) /\ Len(t) = Len(s) + 1 /\ Len(s) \in Nat
      /\ t[1] = x /\ \A i \in 1..Len(s) : t[i + 1] = s[i]
  OBVIOUS
<1> HIDE DEF t
<1>2. \A i \in 1..Len(t) : i = 1 \/ (i - 1 \in 1..Len(s) /\ t[i] = s[i - 1])
  <2> SUFFICES ASSUME NEW i \in 1..Len(t), i # 1 PROVE i - 1 \in 1..Len(s) /\ t[i] = s[i - 1]
    OBVIOUS
  <2>1. i - 1 \in 1..Len(s) /\ (i - 1) + 1 = i
    BY <1>1
  <2> QED
    BY <1>1, <2>1
<1>3. Elems(t) = {x} \cup Elems(s)
  <2>1. ASSUME NEW y \in Elems(t) PROVE y \in {x} \cup Elems(s)
    BY <1>1, <1>2 DEF Elems
  <2>2. x \in Elems(t)
    BY <1>1 DEF Elems
  <2>3. ASSUME NEW i \in 1..Len(s) PROVE s[i] \in Elems(t)
    <3>1. i + 1 \in 1..Len(t) /\ t[i + 1] = s[i]
      BY <1>1
    <3> QED
      BY <3>1 DEF Elems
  <2> QED
    BY <2>1, <2>2, <2>3 DEF Elems
<1>4. ASSUME Apart(s), x \notin Elems(s) PROVE Apart(t)
  <2> SUFFICES ASSUME NEW i \in 1..Len(t), NEW j \in 1..Len(t), t[i] = t[j] PROVE i = j
    BY DEF Apart
  <2>1. CASE i = 1 /\ j = 1
    BY <2>1
  <2>2. CASE i = 1 /\ j # 1
    BY <1>1, <1>2, <1>4, <2>2 DEF Elems
  <2>3. CASE i # 1 /\ j = 1
    BY <1>1, <1>2, <1>4, <2>3 DEF Elems
  <2>4. CASE i # 1 /\ j # 1
    <3>1. i - 1 = j - 1
      BY <1>2, <1>4, <2>4 DEF Apart
    <3> QED
      BY <3>1
  <2> QED
    BY <2>1, <2>2, <2>3, <2>4
<1> QED
  BY <1>1, <1>3, <1>4 DEF t

LEMMA TailParts ==
  ASSUME NEW S, NEW s \in Seq(S), s # <<>>
  PROVE  /\ Head(s) = s[1] /\ Head(s) \in S /\ Head(s) \in Elems(s)
         /\ Tail(s) \in Seq(S) /\ Len(Tail(s)) = Len(s) - 1
         /\ \A i \in 1..Len(Tail(s)) : Tail(s)[i] = s[i + 1]
         /\ Apart(s) => Apart(Tail(s)) /\ Elems(Tail(s)) = Elems(s) \ {Head(s)}
<1> DEFINE t == Tail(s)
<1>1. /\ Len(s) \in Nat \ {0} /\ Head(s) = s[1] /\ Head(s) \in S
      /\ t \in Seq(S) /\ Len(t) = Len(s) - 1 /\ \A i \in 1..Len(t) : t[i] = s[i + 1]
  BY HeadTailProperties, EmptySeq, LenProperties
<1> HIDE DEF t
<1>2. Head(s) \in Elems(s)
  BY <1>1 DEF Elems
<1>3. \A i \in 1..Len(t) : i + 1 \in 1..Len(s) /\ i + 1 # 1
  BY <1>1
<1>4. ASSUME Apart(s) PROVE Apart(t)
  BY <1>1, <1>3, <1>4 DEF Apart
<1>5. ASSUME Apart(s) PROVE Elems(t) = Elems(s) \ {Head(s)}
  <2>1. ASSUME NEW i \in 1..Len(t) PROVE t[i] \in Elems(s) /\ t[i] # Head(s)
    BY <1>1, <1>3, <1>5 DEF Elems, Apart
  <2>2. ASSUME NEW i \in 1..Len(s), s[i] # Head(s) PROVE s[i] \in Elems(t)
    <3>1. i - 1 \in 1..Len(t) /\ (i - 1) + 1 = i
      BY <1>1, <2>2
    <3>2. t[i - 1] = s[i]
      BY <1>1, <3>1
    <3> QED
      BY <3>1, <3>2 DEF Elems
  <2> QED
    BY <2>1, <2>2 DEF Elems
<1> QED
  BY <1>1, <1>2, <1>4, <1>5 DEF t

LEMMA AppendParts ==
  ASSUME NEW S, NEW s \in Seq(S), NEW x \in S
  PROVE  /\ Append(s, x) \in Seq(S)
         /\ Elems(Append(s, x)) = Elems(s) \cup {x}
         /\ Apart(s) /\ x \notin Elems(s) => Apart(Append(s, x))
<1> DEFINE t == Append(s, x)
<1>1. /\ t \in Seq(S) /\ Len(t) = Len(s) + 1 /\ Len(s) \in Nat
      /\ t[Len(s) + 1] = x /\ \A i \in 1..Len(s) : t[i] = s[i]
  BY AppendProperties, LenProperties
<1> HIDE DEF t
<1>2. \A i \in 1..Len(t) : i \in 1..Len(s) \/ i = Len(s) + 1
  BY <1>1
<1>3. Elems(t) = Elems(s) \cup {x}
  <2>1. ASSUME NEW i \in 1..Len(t) PROVE t[i] \in Elems(s) \cup {x}
    BY <1>1, <1>2 DEF Elems
  <2>2. ASSUME NEW i \in 1..Len(s) PROVE s[i] \in Elems(t)
    <3>1. i \in 1..Len(t) /\ t[i] = s[i]
      BY <1>1
    <3> QED
      BY <3>1 DEF Elems
  <2>3. x \in Elems(t)
    <3>1. Len(s) + 1 \in 1..Len(t)
      BY <1>1
    <3> QED
      BY <1>1, <3>1 DEF Elems
  <2> QED
    BY <2>1, <2>2, <2>3 DEF Elems
<1>4. ASSUME Apart(s), x \notin Elems(s) PROVE Apart(t)
  BY <1>1, <1>2, <1>4 DEF Apart, Elems
<1> QED
  BY <1>1, <1>3, <1>4 DEF t

LEMMA NoElems == Elems(<<>>) = {} /\ Apart(<<>>)
  BY DEF Elems, Apart

---------------------------------------------------------------------------
(* The invariant.                                                          *)

Started == {"scheduled", "running", "pending"}

\* Whoever holds the slot is the innermost of the mutations being run.
Topmost(cur, places, fs) ==
  cur # NoMutation =>
    \A i \in 1..Len(fs) : fs[i] = cur =>
      \A j \in 1..(i - 1) : fs[j] \in Mutation => places[fs[j]] # "running"

\* The mutation in the slot is the only one that was started and is not gone: ended or
\* cancelled.  The queue and the frames hold each mutation once, and what their places
\* say.  The depth is 1 exactly while the holder of the slot is being run.
Held(q, cur, places, fs, d, gone) ==
  /\ q \in Seq(Mutation) /\ cur \in Mutation \cup {NoMutation}
  /\ places \in [Mutation -> MutationPlace] /\ fs \in Seq(Mutation \cup Command)
  /\ Apart(q) /\ Apart(fs)
  /\ \A m \in Mutation :
       /\ m \in Elems(q) <=> places[m] = "queued"
       /\ m \in Elems(fs) <=> places[m] \in {"running", "inline"}
       /\ places[m] \in {"new", "queued"} => m \notin gone
       /\ m = cur <=> places[m] \in Started /\ m \notin gone
  /\ Topmost(cur, places, fs)
  /\ d = IF cur # NoMutation /\ places[cur] = "running" THEN 1 ELSE 0

\* The same of the commands.
Serving ==
  /\ typed \in Seq(Command) /\ serving \in Command \cup {NoCommand}
  /\ cat \in [Command -> CommandPlace] /\ takenOff \subseteq Command
  /\ Apart(typed)
  /\ \A c \in Command :
       /\ c \in Elems(typed) <=> cat[c] = "queued"
       /\ c \in Elems(frames) <=> cat[c] = "running"
       /\ cat[c] \in {"new", "queued"} => c \notin takenOff
       /\ c = serving <=> cat[c] \in {"scheduled", "running"} /\ c \notin takenOff

Load(p, places, cur) == {m \in Mutation : Owner[m] = p /\ (places[m] = "queued" \/ m = cur)}
Bounded(places, cur) ==
  \A p \in Player : /\ IsFiniteSet(Load(p, places, cur))
                    /\ Cardinality(Load(p, places, cur)) <= PlayerMax

Gone == ended \cup cancelled
QueueInv ==
  /\ Held(queue, current, at, frames, depth, Gone)
  /\ ended \subseteq Mutation /\ cancelled \subseteq Mutation /\ due \in BOOLEAN
  /\ Serving
  /\ Bounded(at, current)

\* A load that loses members stays within the limit.
LEMMA BoundedLess ==
  ASSUME NEW places, NEW cur, NEW places2, NEW cur2, Bounded(places, cur),
         \A m \in Mutation : places2[m] = "queued" \/ m = cur2 =>
                               places[m] = "queued" \/ m = cur
  PROVE  Bounded(places2, cur2)
<1> SUFFICES ASSUME NEW p \in Player
             PROVE  /\ IsFiniteSet(Load(p, places2, cur2))
                    /\ Cardinality(Load(p, places2, cur2)) <= PlayerMax
  BY DEF Bounded
<1> DEFINE A == Load(p, places, cur)
           B == Load(p, places2, cur2)
<1>1. B \subseteq A
  BY DEF Load
<1>2. IsFiniteSet(A) /\ Cardinality(A) <= PlayerMax
  BY DEF Bounded
<1> HIDE DEF A, B
<1>3. IsFiniteSet(B) /\ Cardinality(B) <= Cardinality(A)
  BY <1>1, <1>2, FS_Subset
<1>4. Cardinality(A) \in Nat /\ Cardinality(B) \in Nat /\ PlayerMax \in Nat
  BY <1>2, <1>3, FS_CardinalityType, MutationConstantsOK
<1>5. Cardinality(B) <= PlayerMax
  BY <1>2, <1>3, <1>4
<1> QED
  BY <1>3, <1>5 DEF B

\* A step after which no other mutation waits or holds the slot.
LEMMA BoundedStays ==
  ASSUME QueueInv,
         \A n \in Mutation : at'[n] = "queued" \/ n = current' => at[n] = "queued" \/ n = current
  PROVE  Bounded(at', current')
  BY BoundedLess DEF QueueInv

\* Draining a queue whose slot is free.
LEMMA DrainHeld ==
  ASSUME NEW q, NEW places, NEW fs, NEW gone, NEW go \in BOOLEAN,
         Held(q, NoMutation, places, fs, 0, gone),
         Drain(q, places, fs, 0, go)
  PROVE  /\ Held(queue', current', at', frames', depth', gone)
         /\ due' \in BOOLEAN
         /\ \A c \in Command : c \in Elems(frames') <=> c \in Elems(fs)
         /\ \A m \in Mutation : at'[m] = "queued" \/ m = current' => places[m] = "queued"
         /\ \A m \in Mutation : at'[m] = "running" => places[m] \in {"running", "queued"}
<1>t. /\ q \in Seq(Mutation) /\ places \in [Mutation -> MutationPlace] /\ fs \in Seq(Mutation \cup Command)
      /\ Apart(q) /\ Apart(fs)
      /\ \A m \in Mutation :
           /\ m \in Elems(q) <=> places[m] = "queued"
           /\ m \in Elems(fs) <=> places[m] \in {"running", "inline"}
           /\ places[m] \in {"new", "queued"} => m \notin gone
           /\ m = NoMutation <=> places[m] \in Started /\ m \notin gone
      /\ NoMutation \notin Mutation
  BY MutationConstantsOK DEF Held
<1>d. due' = go
  BY DEF Drain
<1>1. CASE q = <<>> \/ ~go
  <2>1. queue' = q /\ current' = NoMutation /\ at' = places /\ frames' = fs /\ depth' = 0
    BY <1>1 DEF Drain
  <2> QED
    BY <1>t, <1>d, <2>1
<1>2. CASE ~(q = <<>> \/ ~go)
  <2> DEFINE h == Head(q)
  <2>1. /\ queue' = Tail(q) /\ current' = h
        /\ \/ /\ at' = [places EXCEPT ![h] = "scheduled"]
              /\ frames' = fs /\ depth' = 0
           \/ /\ at' = [places EXCEPT ![h] = "running"]
              /\ frames' = <<h>> \o fs /\ depth' = 1
    BY <1>2 DEF Drain
  <2>2. /\ h \in Mutation /\ h \in Elems(q) /\ Tail(q) \in Seq(Mutation)
        /\ Apart(Tail(q)) /\ Elems(Tail(q)) = Elems(q) \ {h}
    BY <1>2, <1>t, TailParts
  <2>3. places[h] = "queued" /\ h \notin gone /\ h \notin Elems(fs) /\ h # NoMutation
    BY <1>t, <2>2
  <2> HIDE DEF h
  <2>4. CASE at' = [places EXCEPT ![h] = "scheduled"] /\ frames' = fs /\ depth' = 0
    <3>1. at' \in [Mutation -> MutationPlace] /\ at'[h] = "scheduled"
          /\ \A m \in Mutation : m # h => at'[m] = places[m]
      BY <1>t, <2>2, <2>4 DEF MutationPlace
    <3>2. ASSUME NEW m \in Mutation
          PROVE  /\ m \in Elems(queue') <=> at'[m] = "queued"
                 /\ m \in Elems(frames') <=> at'[m] \in {"running", "inline"}
                 /\ at'[m] \in {"new", "queued"} => m \notin gone
                 /\ m = current' <=> at'[m] \in Started /\ m \notin gone
      BY <1>t, <2>1, <2>2, <2>3, <2>4, <3>1 DEF Started
    <3>3. Topmost(current', at', frames')
      BY <2>1, <2>3, <2>4 DEF Topmost, Elems
    <3> QED
      BY <1>t, <1>d, <2>1, <2>2, <2>3, <2>4, <3>1, <3>2, <3>3 DEF Held
  <2>5. CASE at' = [places EXCEPT ![h] = "running"] /\ frames' = <<h>> \o fs /\ depth' = 1
    <3>1. at' \in [Mutation -> MutationPlace] /\ at'[h] = "running"
          /\ \A m \in Mutation : m # h => at'[m] = places[m]
      BY <1>t, <2>2, <2>5 DEF MutationPlace
    <3>2. /\ frames' \in Seq(Mutation \cup Command) /\ Len(frames') = Len(fs) + 1
          /\ frames'[1] = h /\ Elems(frames') = {h} \cup Elems(fs) /\ Apart(frames')
          /\ Len(fs) \in Nat
      BY <1>t, <2>2, <2>3, <2>5, PushParts, LenProperties
    <3>3. ASSUME NEW m \in Mutation
          PROVE  /\ m \in Elems(queue') <=> at'[m] = "queued"
                 /\ m \in Elems(frames') <=> at'[m] \in {"running", "inline"}
                 /\ at'[m] \in {"new", "queued"} => m \notin gone
                 /\ m = current' <=> at'[m] \in Started /\ m \notin gone
      BY <1>t, <2>1, <2>2, <2>3, <3>1, <3>2 DEF Started
    <3>4. \A i \in 1..Len(frames') : frames'[i] = h => i = 1
      BY <3>2 DEF Apart
    <3>5. Topmost(current', at', frames')
      BY <2>1, <3>4 DEF Topmost
    <3>6. h \notin Command
      BY <2>2, CommandConstantsOK
    <3> QED
      BY <1>t, <1>d, <2>1, <2>2, <2>3, <2>5, <3>1, <3>2, <3>3, <3>5, <3>6 DEF Held
  <2> QED
    BY <2>1, <2>4, <2>5
<1> QED
  BY <1>1, <1>2

LEMMA TopSame ==
  ASSUME NEW cur, NEW places, NEW places2, NEW fs, Topmost(cur, places, fs),
         \A m \in Mutation : places2[m] = "running" => places[m] = "running"
  PROVE  Topmost(cur, places2, fs)
  BY DEF Topmost

LEMMA TopTail ==
  ASSUME NEW cur, NEW places, NEW places2, NEW fs \in Seq(Mutation \cup Command), fs # <<>>,
         Topmost(cur, places, fs),
         \A m \in Mutation : places2[m] = "running" => places[m] = "running"
  PROVE  Topmost(cur, places2, Tail(fs))
<1>1. /\ Len(fs) \in Nat /\ Len(Tail(fs)) = Len(fs) - 1
      /\ \A i \in 1..Len(Tail(fs)) : Tail(fs)[i] = fs[i + 1]
  BY TailParts, LenProperties
<1> SUFFICES ASSUME cur # NoMutation, NEW i \in 1..Len(Tail(fs)), Tail(fs)[i] = cur,
                    NEW j \in 1..(i - 1), Tail(fs)[j] \in Mutation
             PROVE  places2[Tail(fs)[j]] # "running"
  BY DEF Topmost
<1>2. /\ i + 1 \in 1..Len(fs) /\ j + 1 \in 1..((i + 1) - 1) /\ j \in 1..Len(Tail(fs))
  BY <1>1
<1>3. Tail(fs)[i] = fs[i + 1] /\ Tail(fs)[j] = fs[j + 1]
  BY <1>1, <1>2
<1> QED
  BY <1>2, <1>3 DEF Topmost

LEMMA TopPush ==
  ASSUME NEW cur, NEW places, NEW places2, NEW fs \in Seq(Mutation \cup Command),
         NEW x \in Mutation \cup Command, Topmost(cur, places, fs), x # cur,
         x \in Mutation => places2[x] # "running",
         \A m \in Mutation : places2[m] = "running" => places[m] = "running"
  PROVE  Topmost(cur, places2, <<x>> \o fs)
<1> DEFINE t == <<x>> \o fs
<1>1. /\ Len(fs) \in Nat /\ Len(t) = Len(fs) + 1 /\ t[1] = x
      /\ \A i \in 1..Len(fs) : t[i + 1] = fs[i]
  BY PushParts, LenProperties
<1> HIDE DEF t
<1>2. ASSUME NEW i \in 1..Len(t), i # 1 PROVE i - 1 \in 1..Len(fs) /\ t[i] = fs[i - 1]
  <2>1. i - 1 \in 1..Len(fs) /\ (i - 1) + 1 = i
    BY <1>1, <1>2
  <2> QED
    BY <1>1, <2>1
<1>3. ASSUME cur # NoMutation, NEW i \in 1..Len(t), t[i] = cur,
             NEW j \in 1..(i - 1), t[j] \in Mutation
      PROVE  places2[t[j]] # "running"
  <2>1. i # 1 /\ j \in 1..Len(t)
    BY <1>1, <1>3
  <2>2. CASE j = 1
    BY <1>1, <1>3, <2>2
  <2>3. CASE j # 1
    <3>1. /\ i - 1 \in 1..Len(fs) /\ t[i] = fs[i - 1]
          /\ j - 1 \in 1..((i - 1) - 1) /\ t[j] = fs[j - 1]
      BY <1>1, <1>2, <2>1, <2>3
    <3> QED
      BY <1>3, <3>1 DEF Topmost
  <2> QED
    BY <2>2, <2>3
<1> QED
  BY <1>3 DEF Topmost, t

---------------------------------------------------------------------------
(* The steps of the mutations.                                             *)

\* What a step of the mutations keeps, and that it starts no cancelled one.
MutationsKept ==
  /\ Held(queue', current', at', frames', depth', ended' \cup cancelled')
  /\ ended' \subseteq Mutation /\ cancelled' \subseteq Mutation /\ due' \in BOOLEAN
  /\ \A c \in Command : c \in Elems(frames') <=> c \in Elems(frames)
  /\ Bounded(at', current')
  /\ \A m \in cancelled : at'[m] = "running" => at[m] = "running"

\* The parts of Held for the present state.
LEMMA HeldNow ==
  ASSUME QueueInv
  PROVE  /\ queue \in Seq(Mutation) /\ current \in Mutation \cup {NoMutation}
         /\ at \in [Mutation -> MutationPlace] /\ frames \in Seq(Mutation \cup Command)
         /\ Apart(queue) /\ Apart(frames)
         /\ \A m \in Mutation :
              /\ m \in Elems(queue) <=> at[m] = "queued"
              /\ m \in Elems(frames) <=> at[m] \in {"running", "inline"}
              /\ at[m] \in {"new", "queued"} => m \notin Gone
              /\ m = current <=> at[m] \in Started /\ m \notin Gone
         /\ Topmost(current, at, frames)
         /\ depth = IF current # NoMutation /\ at[current] = "running" THEN 1 ELSE 0
         /\ NoMutation \notin Mutation
  BY MutationConstantsOK DEF QueueInv, Held

\* A step that drains the queue after it has put the mutation in the slot, or none, to
\* places, taken it off the frames or not, and counted it to those that are gone.
LEMMA DrainKeeps ==
  ASSUME QueueInv, NEW places, NEW fs, NEW go \in BOOLEAN,
         Held(queue, NoMutation, places, fs, 0, ended' \cup cancelled'),
         Drain(queue, places, fs, 0, go),
         \A m \in Mutation : /\ places[m] = "queued" => at[m] = "queued"
                             /\ places[m] = "running" => at[m] = "running",
         \A c \in Command : c \in Elems(fs) <=> c \in Elems(frames),
         ended' \subseteq Mutation, cancelled' \subseteq Mutation
  PROVE  MutationsKept
<1>1. /\ Held(queue', current', at', frames', depth', ended' \cup cancelled')
      /\ due' \in BOOLEAN
      /\ \A c \in Command : c \in Elems(frames') <=> c \in Elems(fs)
      /\ \A m \in Mutation : at'[m] = "queued" \/ m = current' => places[m] = "queued"
      /\ \A m \in Mutation : at'[m] = "running" => places[m] \in {"running", "queued"}
  BY DrainHeld
<1>2. Bounded(at', current')
  BY <1>1, BoundedLess DEF QueueInv
<1>3. \A m \in cancelled : m \in Mutation /\ at[m] # "queued"
  BY HeldNow DEF QueueInv, Gone
<1> QED
  BY <1>1, <1>2, <1>3 DEF MutationsKept

LEMMA PumpKeeps == ASSUME QueueInv, Pump PROVE MutationsKept
<1>1. /\ current = NoMutation /\ depth = 0 /\ UNCHANGED <<cancelled, ended>>
      /\ Drain(queue, at, frames, 0, due)
  BY HeldNow DEF Pump
<1>2. Held(queue, NoMutation, at, frames, 0, ended' \cup cancelled')
  BY <1>1 DEF QueueInv, Gone
<1> QED
  BY <1>1, <1>2, DrainKeeps DEF QueueInv

LEMMA PumpTimeoutKeeps == ASSUME QueueInv, PumpTimeout PROVE MutationsKept
<1>1. /\ frames = <<>> /\ current \in Mutation
      /\ cancelled' = cancelled \cup {current} /\ ended' = ended
  BY HeldNow DEF PumpTimeout, Idle
<1>2. PICK go \in BOOLEAN : Drain(queue, at, frames, 0, go)
  BY DEF PumpTimeout
<1>3. Held(queue, NoMutation, at, frames, 0, ended' \cup cancelled')
  <2>1. \A m \in Mutation : m \in ended' \cup cancelled' <=> m \in Gone \/ m = current
    BY <1>1 DEF Gone
  <2>2. \A m \in Mutation : /\ at[m] \in {"new", "queued"} => m \notin ended' \cup cancelled'
                            /\ ~(at[m] \in Started /\ m \notin ended' \cup cancelled')
    BY <2>1, HeldNow DEF Started
  <2>3. Topmost(NoMutation, at, frames)
    BY DEF Topmost
  <2> QED
    BY <2>2, <2>3, HeldNow DEF Held
<1> QED
  BY <1>1, <1>2, <1>3, DrainKeeps DEF QueueInv

LEMMA EnqueueInlineKeeps ==
  ASSUME QueueInv, NEW m \in Mutation, EnqueueInline(m)
  PROVE  MutationsKept
<1>1. /\ at[m] = "new" /\ at' = [at EXCEPT ![m] = "inline"] /\ frames' = <<m>> \o frames
      /\ UNCHANGED <<queue, current, due, depth, cancelled, ended>>
  BY DEF EnqueueInline
<1>2. m # current /\ m \notin Elems(frames)
  BY <1>1, HeldNow DEF Started
<1>3. /\ frames' \in Seq(Mutation \cup Command) /\ Apart(frames')
      /\ Elems(frames') = {m} \cup Elems(frames)
  BY <1>1, <1>2, HeldNow, PushParts
<1>4. at' \in [Mutation -> MutationPlace] /\ at'[m] = "inline" /\ \A n \in Mutation \ {m} : at'[n] = at[n]
  BY <1>1, HeldNow DEF MutationPlace
<1>5. Topmost(current, at', frames')
  BY <1>1, <1>2, <1>4, HeldNow, TopPush
<1>6. m \notin Command
  BY CommandConstantsOK
<1>7. Held(queue', current', at', frames', depth', ended' \cup cancelled')
  <2>1. ASSUME NEW n \in Mutation
        PROVE  /\ n \in Elems(queue') <=> at'[n] = "queued"
               /\ n \in Elems(frames') <=> at'[n] \in {"running", "inline"}
               /\ at'[n] \in {"new", "queued"} => n \notin ended' \cup cancelled'
               /\ n = current' <=> at'[n] \in Started /\ n \notin ended' \cup cancelled'
    BY <1>1, <1>2, <1>3, <1>4, HeldNow DEF Gone, Started
  <2>2. depth' = IF current' # NoMutation /\ at'[current'] = "running" THEN 1 ELSE 0
    BY <1>1, <1>2, <1>4, HeldNow
  <2> QED
    BY <1>1, <1>3, <1>4, <1>5, <2>1, <2>2, HeldNow DEF Held
<1>8. Bounded(at', current')
  <2>1. \A n \in Mutation : at'[n] = "queued" \/ n = current' => at[n] = "queued" \/ n = current
    BY <1>1, <1>4
  <2> QED
    BY <2>1, BoundedStays
<1>9. \A n \in cancelled : n \in Mutation /\ (at'[n] = "running" => at[n] = "running")
  BY <1>4 DEF QueueInv
<1> QED
  BY <1>1, <1>3, <1>6, <1>7, <1>8, <1>9 DEF MutationsKept, QueueInv

\* The limit of a player counts every mutation of his that waits or holds the slot.
LEMMA DepthIsLoad ==
  ASSUME QueueInv, NEW p \in Player
  PROVE  /\ PlayerDepth(p) \in Nat
         /\ Cardinality(Load(p, at, current)) <= PlayerDepth(p)
<1> DEFINE I == {i \in DOMAIN queue : Owner[queue[i]] = p}
           Q == {queue[i] : i \in I}
           f == [i \in I |-> queue[i]]
           L == Load(p, at, current)
<1>1. queue \in Seq(Mutation) /\ Len(queue) \in Nat /\ DOMAIN queue = 1..Len(queue)
  BY HeldNow, LenProperties
<1>2. IsFiniteSet(I)
  <2>1. IsFiniteSet(1..Len(queue)) /\ I \in SUBSET (1..Len(queue))
    BY <1>1, FS_Interval
  <2> QED
    BY <2>1, FS_Subset
<1>3. IsFiniteSet(Q) /\ Cardinality(Q) <= Cardinality(I)
  <2>1. f \in Surjection(I, Q)
    BY DEF Surjection
  <2> HIDE DEF f, I, Q
  <2> QED
    BY <1>2, <2>1, FS_Surjection
<1>4. Cardinality(I) \in Nat /\ Cardinality(Q) \in Nat
  BY <1>2, <1>3, FS_CardinalityType
<1>5. PlayerDepth(p) = Cardinality(I)
                         + (IF current # NoMutation /\ Owner[current] = p THEN 1 ELSE 0)
  BY DEF PlayerDepth
<1>6. \A m \in L : m \in Q \/ (m = current /\ current # NoMutation /\ Owner[current] = p)
  <2> SUFFICES ASSUME NEW m \in Mutation, Owner[m] = p, at[m] = "queued" PROVE m \in Q
    BY HeldNow DEF Load
  <2>1. m \in Elems(queue)
    BY HeldNow
  <2> QED
    BY <1>1, <2>1 DEF Elems
<1> HIDE DEF I, Q, L
<1>7. CASE current # NoMutation /\ Owner[current] = p
  <2>1. L \in SUBSET (Q \cup {current})
    BY <1>6
  <2>2. /\ IsFiniteSet(Q \cup {current})
        /\ Cardinality(Q \cup {current}) =
             IF current \in Q THEN Cardinality(Q) ELSE Cardinality(Q) + 1
    BY <1>3, FS_AddElement
  <2>3. IsFiniteSet(L) /\ Cardinality(L) <= Cardinality(Q \cup {current})
    BY <2>1, <2>2, FS_Subset
  <2>4. Cardinality(L) \in Nat /\ Cardinality(Q \cup {current}) <= Cardinality(Q) + 1
    BY <1>4, <2>2, <2>3, FS_CardinalityType
  <2>5. Cardinality(L) <= Cardinality(I) + 1
    BY <1>3, <1>4, <2>2, <2>3, <2>4
  <2> QED
    BY <1>4, <1>5, <1>7, <2>5 DEF L
<1>8. CASE ~(current # NoMutation /\ Owner[current] = p)
  <2>1. L \in SUBSET Q
    BY <1>6, <1>8
  <2>2. IsFiniteSet(L) /\ Cardinality(L) <= Cardinality(Q)
    BY <1>3, <2>1, FS_Subset
  <2>3. Cardinality(L) \in Nat
    BY <2>2, FS_CardinalityType
  <2>4. Cardinality(L) <= Cardinality(I)
    BY <1>3, <1>4, <2>2, <2>3
  <2> QED
    BY <1>4, <1>5, <1>8, <2>4 DEF L
<1> QED
  BY <1>7, <1>8

\* One more mutation of a player who is below his limit.
LEMMA BoundedMore ==
  ASSUME QueueInv, NEW m \in Mutation, PlayerDepth(Owner[m]) < PlayerMax,
         NEW places, NEW cur,
         \A n \in Mutation : places[n] = "queued" \/ n = cur =>
                               n = m \/ at[n] = "queued" \/ n = current
  PROVE  Bounded(places, cur)
<1> SUFFICES ASSUME NEW p \in Player
             PROVE  /\ IsFiniteSet(Load(p, places, cur))
                    /\ Cardinality(Load(p, places, cur)) <= PlayerMax
  BY DEF Bounded
<1> DEFINE A == Load(p, at, current)
           B == Load(p, places, cur)
<1>1. IsFiniteSet(A) /\ Cardinality(A) <= PlayerMax
  BY DEF QueueInv, Bounded
<1>2. Cardinality(A) \in Nat /\ PlayerMax \in Nat
  BY <1>1, FS_CardinalityType, MutationConstantsOK
<1>3. CASE p = Owner[m]
  <2>1. B \in SUBSET (A \cup {m})
    BY DEF Load
  <2>2. PlayerDepth(p) \in Nat /\ Cardinality(A) <= PlayerDepth(p) /\ PlayerDepth(p) < PlayerMax
    BY <1>3, DepthIsLoad
  <2> HIDE DEF A, B
  <2>3. /\ IsFiniteSet(A \cup {m})
        /\ Cardinality(A \cup {m}) = IF m \in A THEN Cardinality(A) ELSE Cardinality(A) + 1
    BY <1>1, FS_AddElement
  <2>4. IsFiniteSet(B) /\ Cardinality(B) <= Cardinality(A \cup {m})
    BY <2>1, <2>3, FS_Subset
  <2>5. Cardinality(B) \in Nat
    BY <2>4, FS_CardinalityType
  <2>6. Cardinality(B) <= PlayerMax
    BY <1>2, <2>2, <2>3, <2>4, <2>5
  <2> QED
    BY <2>4, <2>6 DEF B
<1>4. CASE p # Owner[m]
  <2>1. B \in SUBSET A
    BY <1>4 DEF Load
  <2> HIDE DEF A, B
  <2>2. IsFiniteSet(B) /\ Cardinality(B) <= Cardinality(A)
    BY <1>1, <2>1, FS_Subset
  <2>3. Cardinality(B) \in Nat
    BY <2>2, FS_CardinalityType
  <2>4. Cardinality(B) <= PlayerMax
    BY <1>1, <1>2, <2>2, <2>3
  <2> QED
    BY <2>2, <2>4 DEF B
<1> QED
  BY <1>3, <1>4

LEMMA EnqueueKeeps ==
  ASSUME QueueInv, NEW m \in Mutation, NEW inside \in BOOLEAN, Enqueue(m, inside)
  PROVE  MutationsKept
<1> DEFINE placed == [at EXCEPT ![m] = "queued"]
           q == Append(queue, m)
<1>1. /\ at[m] = "new" /\ depth = 0 /\ PlayerDepth(Owner[m]) < PlayerMax
      /\ cancelled' = cancelled /\ ended' = ended
      /\ IF current = NoMutation /\ ~inside
           THEN Drain(q, placed, frames, 0, due)
           ELSE queue' = q /\ at' = placed /\ UNCHANGED <<current, due, depth, frames>>
  BY DEF Enqueue
<1>2. m # current /\ m \notin Elems(queue) /\ m \notin Elems(frames) /\ m \notin Gone
  BY <1>1, HeldNow DEF Started
<1>3. q \in Seq(Mutation) /\ Apart(q) /\ Elems(q) = Elems(queue) \cup {m}
  BY <1>2, HeldNow, AppendParts
<1>4. /\ placed \in [Mutation -> MutationPlace] /\ placed[m] = "queued"
      /\ \A n \in Mutation \ {m} : placed[n] = at[n]
  BY HeldNow DEF MutationPlace
<1> HIDE DEF placed, q
<1>5. Held(q, current, placed, frames, depth, Gone)
  <2>1. ASSUME NEW n \in Mutation
        PROVE  /\ n \in Elems(q) <=> placed[n] = "queued"
               /\ n \in Elems(frames) <=> placed[n] \in {"running", "inline"}
               /\ placed[n] \in {"new", "queued"} => n \notin Gone
               /\ n = current <=> placed[n] \in Started /\ n \notin Gone
    BY <1>1, <1>2, <1>3, <1>4, HeldNow DEF Started
  <2>2. Topmost(current, placed, frames)
    BY <1>4, HeldNow, TopSame
  <2>3. depth = IF current # NoMutation /\ placed[current] = "running" THEN 1 ELSE 0
    BY <1>2, <1>4, HeldNow
  <2> QED
    BY <1>3, <1>4, <2>1, <2>2, <2>3, HeldNow DEF Held
<1>6. \A n \in cancelled : n \in Mutation /\ at[n] # "new" /\ at[n] # "queued"
  BY HeldNow DEF QueueInv, Gone
<1>7. CASE current = NoMutation /\ ~inside
  <2>1. /\ Held(queue', current', at', frames', depth', Gone) /\ due' \in BOOLEAN
        /\ \A c \in Command : c \in Elems(frames') <=> c \in Elems(frames)
        /\ \A n \in Mutation : at'[n] = "queued" \/ n = current' => placed[n] = "queued"
        /\ \A n \in Mutation : at'[n] = "running" => placed[n] \in {"running", "queued"}
    BY <1>1, <1>5, <1>7, DrainHeld DEF QueueInv
  <2>2. Bounded(at', current')
    <3>1. \A n \in Mutation : at'[n] = "queued" \/ n = current' =>
                                n = m \/ at[n] = "queued" \/ n = current
      BY <1>4, <2>1
    <3> QED
      BY <1>1, <3>1, BoundedMore
  <2>3. \A n \in cancelled : at'[n] = "running" => at[n] = "running"
    BY <1>1, <1>4, <1>6, <2>1
  <2> QED
    BY <1>1, <2>1, <2>2, <2>3 DEF MutationsKept, QueueInv, Gone
<1>8. CASE ~(current = NoMutation /\ ~inside)
  <2>1. queue' = q /\ at' = placed /\ UNCHANGED <<current, due, depth, frames>>
    BY <1>1, <1>8
  <2>2. Bounded(at', current')
    <3>1. \A n \in Mutation : at'[n] = "queued" \/ n = current' =>
                                n = m \/ at[n] = "queued" \/ n = current
      BY <1>4, <2>1
    <3> QED
      BY <1>1, <3>1, BoundedMore
  <2>3. \A n \in cancelled : at'[n] = "running" => at[n] = "running"
    BY <1>4, <1>6, <2>1
  <2> QED
    BY <1>1, <1>5, <2>1, <2>2, <2>3 DEF MutationsKept, QueueInv, Gone
<1> QED
  BY <1>7, <1>8

LEMMA SpacingKeeps == ASSUME QueueInv, SpacingEnds PROVE MutationsKept
<1>1. due' = TRUE /\ UNCHANGED <<queue, current, depth, at, cancelled, ended, frames>>
  BY DEF SpacingEnds
<1> QED
  BY <1>1 DEF MutationsKept, QueueInv, Gone

\* A step that only moves m, which does not wait, from its place to another one and
\* changes the frames with it, and starts m only from the slot.
LEMMA PlaceKeeps ==
  ASSUME QueueInv, NEW m \in Mutation, NEW place \in {"running", "pending", "done"},
         at[m] \in {"scheduled", "running", "inline"},
         at' = [at EXCEPT ![m] = place], UNCHANGED <<queue, current, due, cancelled, ended>>,
         m = current => place # "done", m # current => place = "done",
         /\ frames' \in Seq(Mutation \cup Command) /\ Apart(frames')
         /\ \A x \in Mutation \cup Command : x # m => (x \in Elems(frames') <=> x \in Elems(frames)),
         m \in Elems(frames') <=> place = "running",
         Topmost(current, at', frames'),
         depth' = IF current # NoMutation /\ at'[current] = "running" THEN 1 ELSE 0
  PROVE  MutationsKept
<1>1. /\ at' \in [Mutation -> MutationPlace] /\ at'[m] = place
      /\ \A n \in Mutation \ {m} : at'[n] = at[n]
  BY HeldNow DEF MutationPlace
<1>2. m \notin Command
  BY CommandConstantsOK
<1>3. ASSUME NEW n \in Mutation
      PROVE  /\ n \in Elems(queue) <=> at'[n] = "queued"
             /\ n \in Elems(frames') <=> at'[n] \in {"running", "inline"}
             /\ at'[n] \in {"new", "queued"} => n \notin Gone
             /\ n = current <=> at'[n] \in Started /\ n \notin Gone
  BY <1>1, HeldNow DEF Started
<1>4. Held(queue', current', at', frames', depth', Gone)
  BY <1>1, <1>3, HeldNow DEF Held
<1>5. Bounded(at', current')
  <2>1. \A n \in Mutation : at'[n] = "queued" \/ n = current' => at[n] = "queued" \/ n = current
    BY <1>1
  <2> QED
    BY <2>1, BoundedStays
<1>6. \A n \in cancelled : at'[n] = "running" => at[n] = "running"
  <2>1. \A n \in cancelled : n \in Mutation /\ n # current
    BY HeldNow DEF QueueInv, Gone
  <2> QED
    BY <1>1, <2>1
<1> QED
  BY <1>2, <1>4, <1>5, <1>6 DEF MutationsKept, QueueInv, Gone

LEMMA RunItemKeeps == ASSUME QueueInv, NEW m \in Mutation, RunItem(m) PROVE MutationsKept
<1>1. /\ frames = <<>> /\ at[m] = "scheduled"
      /\ UNCHANGED <<queue, current, due, cancelled, ended>>
  BY DEF RunItem, Idle
<1>2. m \notin Elems(frames)
  BY <1>1, HeldNow
<1>3. CASE MayStart(m)
  <2>1. /\ at' = [at EXCEPT ![m] = "running"] /\ frames' = <<m>> \o frames
        /\ depth' = depth + 1 /\ current = m
    BY <1>3 DEF RunItem, MayStart
  <2>2. /\ frames' \in Seq(Mutation \cup Command) /\ Apart(frames') /\ frames'[1] = m
        /\ Elems(frames') = {m} \cup Elems(frames)
    BY <1>2, <2>1, HeldNow, PushParts
  <2>3. Topmost(current, at', frames')
    <3>1. \A i \in 1..Len(frames') : frames'[i] = m => i = 1
      <4>1. Len(frames') \in Nat /\ Len(frames') >= 1
        BY <1>1, <2>1
      <4> QED
        BY <2>2, <4>1 DEF Apart
    <3> QED
      BY <2>1, <3>1 DEF Topmost
  <2>4. depth' = IF current # NoMutation /\ at'[current] = "running" THEN 1 ELSE 0
    BY <1>1, <2>1, HeldNow
  <2> QED
    BY <1>1, <2>1, <2>2, <2>3, <2>4, PlaceKeeps
<1>4. CASE ~MayStart(m)
  <2>1. at' = [at EXCEPT ![m] = "done"] /\ UNCHANGED <<frames, depth>>
    BY <1>4 DEF RunItem
  <2>2. m # current
    BY <1>4, HeldNow DEF MayStart, Gone
  <2>3. \A n \in Mutation : at'[n] = "running" => at[n] = "running"
    BY <2>1, HeldNow
  <2>4. Topmost(current, at', frames')
    BY <2>1, <2>3, HeldNow, TopSame
  <2>5. depth' = IF current # NoMutation /\ at'[current] = "running" THEN 1 ELSE 0
    BY <2>1, <2>2, HeldNow
  <2> QED
    BY <1>1, <1>2, <2>1, <2>2, <2>4, <2>5, PlaceKeeps, HeldNow
<1> QED
  BY <1>3, <1>4

\* The frames that remain when the innermost function, of x, returns.
LEMMA PopParts ==
  ASSUME QueueInv, NEW x \in Mutation \cup Command, Innermost(x)
  PROVE  /\ frames # <<>> /\ x \in Elems(frames) /\ frames[1] = x /\ 1 \in 1..Len(frames)
         /\ Tail(frames) \in Seq(Mutation \cup Command)
         /\ Apart(Tail(frames)) /\ Elems(Tail(frames)) = Elems(frames) \ {x}
<1>1. frames # <<>> /\ frames[1] = x
  BY DEF Innermost, Idle
<1>2. 1 \in 1..Len(frames)
  BY <1>1, HeldNow, EmptySeq, LenProperties
<1> QED
  BY <1>1, <1>2, HeldNow, TailParts

\* Of two mutations that are being run, the one that holds the slot is the inner one.
LEMMA StaleHasNoHolder ==
  ASSUME QueueInv, NEW m \in Mutation, Innermost(m), at[m] = "running", m # current
  PROVE  ~(current # NoMutation /\ at[current] = "running")
<1> SUFFICES ASSUME current # NoMutation, at[current] = "running" PROVE FALSE
  OBVIOUS
<1>1. PICK i \in 1..Len(frames) : frames[i] = current
  BY HeldNow DEF Elems
<1>2. frames[1] = m
  BY PopParts
<1>3. Len(frames) \in Nat /\ i # 1
  BY <1>1, <1>2, HeldNow, LenProperties
<1>4. 1 \in 1..(i - 1)
  BY <1>1, <1>3
<1> QED
  BY <1>1, <1>2, <1>4, HeldNow DEF Topmost

LEMMA ReturnInlineKeeps == ASSUME QueueInv, NEW m \in Mutation, ReturnInline(m) PROVE MutationsKept
<1>1. /\ Innermost(m) /\ at[m] = "inline" /\ at' = [at EXCEPT ![m] = "done"]
      /\ frames' = Tail(frames) /\ UNCHANGED <<queue, current, due, depth, cancelled, ended>>
  BY DEF ReturnInline
<1>2. m # current
  BY <1>1, HeldNow DEF Started
<1>3. \A n \in Mutation : at'[n] = "running" => at[n] = "running"
  BY <1>1, HeldNow
<1>4. Topmost(current, at', frames')
  BY <1>1, <1>3, HeldNow, PopParts, TopTail
<1>5. depth' = IF current # NoMutation /\ at'[current] = "running" THEN 1 ELSE 0
  BY <1>1, <1>2, HeldNow
<1> QED
  BY <1>1, <1>2, <1>4, <1>5, PopParts, PlaceKeeps

LEMMA ReturnStaleKeeps == ASSUME QueueInv, NEW m \in Mutation, ReturnStale(m) PROVE MutationsKept
<1>1. /\ Innermost(m) /\ at[m] = "running" /\ at' = [at EXCEPT ![m] = "done"]
      /\ frames' = Tail(frames) /\ depth' = Outer(depth)
      /\ UNCHANGED <<queue, current, due, cancelled, ended>>
  BY DEF ReturnStale
<1>2. m # current
  BY HeldNow DEF ReturnStale, Gone
<1>3. \A n \in Mutation : at'[n] = "running" => at[n] = "running"
  BY <1>1, HeldNow
<1>4. Topmost(current, at', frames')
  BY <1>1, <1>3, HeldNow, PopParts, TopTail
<1>5. ~(current # NoMutation /\ at[current] = "running") /\ depth = 0
  BY <1>1, <1>2, StaleHasNoHolder, HeldNow
<1>6. depth' = IF current # NoMutation /\ at'[current] = "running" THEN 1 ELSE 0
  BY <1>1, <1>2, <1>5, HeldNow DEF Outer
<1> QED
  BY <1>1, <1>2, <1>4, <1>6, PopParts, PlaceKeeps

LEMMA ReturnPendingKeeps == ASSUME QueueInv, NEW m \in Mutation, ReturnPending(m) PROVE MutationsKept
<1>1. /\ Innermost(m) /\ at[m] = "running" /\ at' = [at EXCEPT ![m] = "pending"]
      /\ frames' = Tail(frames) /\ depth' = Outer(depth) /\ current = m
      /\ UNCHANGED <<queue, current, due, cancelled, ended>>
  BY DEF ReturnPending
<1>3. \A n \in Mutation : at'[n] = "running" => at[n] = "running"
  BY <1>1, HeldNow
<1>4. Topmost(current, at', frames')
  BY <1>1, <1>3, HeldNow, PopParts, TopTail
<1>5. depth' = 0 /\ at'[current] = "pending"
  BY <1>1, HeldNow DEF Outer
<1> QED
  BY <1>1, <1>4, <1>5, PopParts, PlaceKeeps

\* The holder gives the slot back and is left at a place, on the frames or not.
LEMMA GiveBackKeeps ==
  ASSUME QueueInv, NEW m \in Mutation, m = current, NEW go \in BOOLEAN,
         NEW place \in {"running", "done"}, NEW fs,
         ended' = ended \cup {m}, cancelled' = cancelled,
         fs \in Seq(Mutation \cup Command) /\ Apart(fs),
         \A x \in Mutation \cup Command : x # m => (x \in Elems(fs) <=> x \in Elems(frames)),
         m \in Elems(fs) <=> place = "running",
         place = "running" => at[m] = "running",
         Drain(queue, [at EXCEPT ![m] = place], fs, 0, go)
  PROVE  MutationsKept
<1> DEFINE placed == [at EXCEPT ![m] = place]
<1>1. /\ placed \in [Mutation -> MutationPlace] /\ placed[m] = place
      /\ \A n \in Mutation \ {m} : placed[n] = at[n]
  BY HeldNow DEF MutationPlace
<1>2. Drain(queue, placed, fs, 0, go)
  OBVIOUS
<1> HIDE DEF placed
<1>3. \A n \in Mutation : n \in ended' \cup cancelled' <=> n \in Gone \/ n = m
  BY DEF Gone
<1>4. Held(queue, NoMutation, placed, fs, 0, ended' \cup cancelled')
  <2>1. ASSUME NEW n \in Mutation
        PROVE  /\ n \in Elems(queue) <=> placed[n] = "queued"
               /\ n \in Elems(fs) <=> placed[n] \in {"running", "inline"}
               /\ placed[n] \in {"new", "queued"} => n \notin ended' \cup cancelled'
               /\ n = NoMutation <=> placed[n] \in Started /\ n \notin ended' \cup cancelled'
    BY <1>1, <1>3, HeldNow DEF Started
  <2>2. Topmost(NoMutation, placed, fs)
    BY DEF Topmost
  <2> QED
    BY <1>1, <2>1, <2>2, HeldNow DEF Held
<1>5. \A c \in Command : c \in Elems(fs) <=> c \in Elems(frames)
  BY CommandConstantsOK
<1>6. \A n \in Mutation : /\ placed[n] = "queued" => at[n] = "queued"
                          /\ placed[n] = "running" => at[n] = "running"
  BY <1>1
<1>7. ended' \subseteq Mutation /\ cancelled' \subseteq Mutation
  BY DEF QueueInv
<1> QED
  BY <1>2, <1>4, <1>5, <1>6, <1>7, DrainKeeps

LEMMA ReturnDoneKeeps == ASSUME QueueInv, NEW m \in Mutation, ReturnDone(m) PROVE MutationsKept
<1>1. /\ Innermost(m) /\ at[m] = "running" /\ current = m
      /\ ended' = ended \cup {m} /\ cancelled' = cancelled
  BY DEF ReturnDone
<1>2. Outer(depth) = 0
  BY <1>1, HeldNow DEF Outer
<1>3. PICK go \in BOOLEAN : Drain(queue, [at EXCEPT ![m] = "done"], Tail(frames), 0, go)
  BY <1>2 DEF ReturnDone
<1> QED
  BY <1>1, <1>3, PopParts, GiveBackKeeps

LEMMA FinishKeeps == ASSUME QueueInv, NEW m \in Mutation, Finish(m) PROVE MutationsKept
<1>1. /\ current = m /\ ended' = ended \cup {m} /\ cancelled' = cancelled
  BY DEF Finish, MayFinish
<1>2. CASE Idle
  <2>1. at[m] = "pending"
    BY <1>2 DEF Finish, Innermost
  <2>2. PICK go \in BOOLEAN : Drain(queue, [at EXCEPT ![m] = "done"], frames, 0, go)
    BY <1>2 DEF Finish
  <2> QED
    BY <1>1, <2>1, <2>2, HeldNow, GiveBackKeeps
<1>3. CASE ~Idle
  <2>1. at[m] = "running"
    BY <1>3 DEF Finish
  <2>2. PICK go \in BOOLEAN : Drain(queue, [at EXCEPT ![m] = "running"], frames, 0, go)
    BY <1>3 DEF Finish
  <2> QED
    BY <1>1, <2>1, <2>2, HeldNow, GiveBackKeeps
<1> QED
  BY <1>2, <1>3

LEMMA MutationStepKeeps ==
  ASSUME QueueInv, NEW inside \in BOOLEAN, MutationStep(inside)
  PROVE  MutationsKept
BY PumpKeeps, PumpTimeoutKeeps, SpacingKeeps, EnqueueInlineKeeps, EnqueueKeeps, RunItemKeeps,
   ReturnInlineKeeps, ReturnStaleKeeps, ReturnPendingKeeps, ReturnDoneKeeps, FinishKeeps
   DEF MutationStep, Return

---------------------------------------------------------------------------
(* The steps of the commands.                                              *)

\* The parts of Serving for the present state.
LEMMA ServingNow ==
  ASSUME QueueInv
  PROVE  /\ typed \in Seq(Command) /\ serving \in Command \cup {NoCommand}
         /\ cat \in [Command -> CommandPlace] /\ takenOff \subseteq Command
         /\ Apart(typed)
         /\ \A c \in Command :
              /\ c \in Elems(typed) <=> cat[c] = "queued"
              /\ c \in Elems(frames) <=> cat[c] = "running"
              /\ cat[c] \in {"new", "queued"} => c \notin takenOff
              /\ c = serving <=> cat[c] \in {"scheduled", "running"} /\ c \notin takenOff
         /\ NoCommand \notin Command
  BY CommandConstantsOK DEF QueueInv, Serving

LEMMA MutationsThenCommands ==
  ASSUME QueueInv, MutationsKept, UNCHANGED commands
  PROVE  QueueInv'
<1>1. Serving'
  BY ServingNow DEF MutationsKept, Serving, commands
<1> QED
  BY <1>1 DEF MutationsKept, QueueInv, Gone

\* A command comes to the frames or leaves them.
\* A command comes to the frames or leaves them: the mutations see no difference.
LEMMA FramesKeepHeld ==
  ASSUME QueueInv, UNCHANGED mutations,
         frames' \in Seq(Mutation \cup Command), Apart(frames'),
         \A m \in Mutation : m \in Elems(frames') <=> m \in Elems(frames),
         Topmost(current, at, frames')
  PROVE  /\ Held(queue', current', at', frames', depth', Gone')
         /\ ended' \subseteq Mutation /\ cancelled' \subseteq Mutation /\ due' \in BOOLEAN
         /\ Bounded(at', current')
<1>1. UNCHANGED <<queue, current, due, depth, at, cancelled, ended>>
  BY DEF mutations
<1>2. Held(queue, current, at, frames', depth, Gone)
  BY HeldNow DEF Held
<1> QED
  BY <1>1, <1>2 DEF QueueInv, Gone

LEMMA CommandPushed ==
  ASSUME QueueInv, UNCHANGED mutations, NEW c \in Command, cat[c] # "running",
         frames' = <<c>> \o frames
  PROVE  /\ Held(queue', current', at', frames', depth', Gone')
         /\ ended' \subseteq Mutation /\ cancelled' \subseteq Mutation /\ due' \in BOOLEAN
         /\ Bounded(at', current')
         /\ Elems(frames') = Elems(frames) \cup {c}
<1>1. c \notin Elems(frames)
  BY ServingNow
<1>2. /\ frames' \in Seq(Mutation \cup Command) /\ Apart(frames')
      /\ Elems(frames') = {c} \cup Elems(frames)
  BY <1>1, HeldNow, PushParts
<1>3. c \notin Mutation
  BY CommandConstantsOK
<1>4. Topmost(current, at, frames')
  <2>1. CASE current = NoMutation
    BY <2>1 DEF Topmost
  <2>2. CASE current # NoMutation
    <3>1. c # current
      BY <1>3, <2>2, HeldNow
    <3> QED
      BY <1>3, <3>1, HeldNow, TopPush
  <2> QED
    BY <2>1, <2>2
<1>5. \A m \in Mutation : m \in Elems(frames') <=> m \in Elems(frames)
  BY <1>2, <1>3
<1> QED
  BY <1>2, <1>4, <1>5, FramesKeepHeld

LEMMA CommandPopped ==
  ASSUME QueueInv, UNCHANGED mutations, NEW c \in Command, Innermost(c), frames' = Tail(frames)
  PROVE  /\ Held(queue', current', at', frames', depth', Gone')
         /\ ended' \subseteq Mutation /\ cancelled' \subseteq Mutation /\ due' \in BOOLEAN
         /\ Bounded(at', current')
         /\ Elems(frames') = Elems(frames) \ {c}
<1>1. /\ frames # <<>> /\ frames' \in Seq(Mutation \cup Command) /\ Apart(frames')
      /\ Elems(frames') = Elems(frames) \ {c}
  BY PopParts
<1>2. c \notin Mutation
  BY CommandConstantsOK
<1>3. Topmost(current, at, frames')
  BY <1>1, HeldNow, TopTail
<1>4. \A m \in Mutation : m \in Elems(frames') <=> m \in Elems(frames)
  BY <1>1, <1>2
<1> QED
  BY <1>1, <1>3, <1>4, FramesKeepHeld

LEMMA CommandsOnly ==
  ASSUME QueueInv, UNCHANGED mutations, frames' = frames
  PROVE  /\ Held(queue', current', at', frames', depth', Gone')
         /\ ended' \subseteq Mutation /\ cancelled' \subseteq Mutation /\ due' \in BOOLEAN
         /\ Bounded(at', current')
  BY HeldNow, FramesKeepHeld

LEMMA TypeKeeps == ASSUME QueueInv, NEW c \in Command, Type(c) PROVE QueueInv'
<1>1. /\ cat[c] = "new" /\ typed' = Append(typed, c) /\ cat' = [cat EXCEPT ![c] = "queued"]
      /\ UNCHANGED <<mutations, frames, serving, takenOff>>
  BY DEF Type
<1>2. typed' \in Seq(Command) /\ Apart(typed') /\ Elems(typed') = Elems(typed) \cup {c}
  BY <1>1, ServingNow, AppendParts
<1>3. /\ cat' \in [Command -> CommandPlace] /\ cat'[c] = "queued"
      /\ \A d \in Command \ {c} : cat'[d] = cat[d]
  BY <1>1, ServingNow DEF CommandPlace
<1>4. Serving'
  BY <1>1, <1>2, <1>3, ServingNow DEF Serving
<1> QED
  BY <1>1, <1>4, CommandsOnly DEF QueueInv

\* The next command takes the free slot, of which gone are those taken off by now.
LEMMA ServeNextKeeps ==
  ASSUME QueueInv, ServeNext, UNCHANGED mutations,
         takenOff' = takenOff \cup ({serving} \ {NoCommand})
  PROVE  QueueInv'
<1>1. \A c \in Command : c \in takenOff' <=> c \in takenOff \/ c = serving
  BY ServingNow
<1>2. takenOff' \subseteq Command
  BY ServingNow
<1>3. CASE typed = <<>>
  <2>1. serving' = NoCommand /\ UNCHANGED <<typed, cat, frames>>
    BY <1>3 DEF ServeNext
  <2>2. Serving'
    BY <1>1, <1>2, <2>1, ServingNow DEF Serving
  <2> QED
    BY <2>1, <2>2, CommandsOnly DEF QueueInv
<1>4. CASE typed # <<>>
  <2> DEFINE c == Head(typed)
  <2>1. /\ c \in Command /\ c \in Elems(typed) /\ Tail(typed) \in Seq(Command)
        /\ Apart(Tail(typed)) /\ Elems(Tail(typed)) = Elems(typed) \ {c}
    BY <1>4, ServingNow, TailParts
  <2>2. /\ serving' = c /\ typed' = Tail(typed)
        /\ \/ cat' = [cat EXCEPT ![c] = "scheduled"] /\ frames' = frames
           \/ cat' = [cat EXCEPT ![c] = "running"] /\ frames' = <<c>> \o frames
    BY <1>4 DEF ServeNext, Serve
  <2>3. cat[c] = "queued" /\ c \notin takenOff /\ c # serving
    BY <2>1, ServingNow
  <2> HIDE DEF c
  <2>4. CASE cat' = [cat EXCEPT ![c] = "scheduled"] /\ frames' = frames
    <3>1. /\ cat' \in [Command -> CommandPlace] /\ cat'[c] = "scheduled"
          /\ \A d \in Command \ {c} : cat'[d] = cat[d]
      BY <2>1, <2>4, ServingNow DEF CommandPlace
    <3>2. Serving'
      BY <1>1, <1>2, <2>1, <2>2, <2>3, <2>4, <3>1, ServingNow DEF Serving
    <3> QED
      BY <2>4, <3>2, CommandsOnly DEF QueueInv
  <2>5. CASE cat' = [cat EXCEPT ![c] = "running"] /\ frames' = <<c>> \o frames
    <3>1. /\ cat' \in [Command -> CommandPlace] /\ cat'[c] = "running"
          /\ \A d \in Command \ {c} : cat'[d] = cat[d]
      BY <2>1, <2>5, ServingNow DEF CommandPlace
    <3>2. /\ Held(queue', current', at', frames', depth', Gone')
          /\ ended' \subseteq Mutation /\ cancelled' \subseteq Mutation /\ due' \in BOOLEAN
          /\ Bounded(at', current')
          /\ Elems(frames') = Elems(frames) \cup {c}
      BY <2>1, <2>3, <2>5, CommandPushed
    <3>3. Serving'
      BY <1>1, <1>2, <2>1, <2>2, <2>3, <3>1, <3>2, ServingNow DEF Serving
    <3> QED
      BY <3>2, <3>3 DEF QueueInv
  <2> QED
    BY <2>2, <2>4, <2>5
<1> QED
  BY <1>3, <1>4

LEMMA ServePumpHolds == ASSUME QueueInv, ServePump PROVE QueueInv'
<1>1. takenOff' = takenOff \cup ({serving} \ {NoCommand})
  BY DEF ServePump
<1> QED
  BY <1>1, ServeNextKeeps DEF ServePump

LEMMA ServeTimeoutHolds == ASSUME QueueInv, ServeTimeout PROVE QueueInv'
<1>1. takenOff' = takenOff \cup ({serving} \ {NoCommand})
  BY DEF ServeTimeout
<1> QED
  BY <1>1, ServeNextKeeps DEF ServeTimeout

LEMMA ServeItemKeeps == ASSUME QueueInv, NEW c \in Command, ServeItem(c) PROVE QueueInv'
<1>1. /\ cat[c] = "scheduled" /\ cat' = [cat EXCEPT ![c] = "running"]
      /\ frames' = <<c>> \o frames /\ UNCHANGED <<mutations, typed, serving, takenOff>>
  BY DEF ServeItem
<1>2. /\ cat' \in [Command -> CommandPlace] /\ cat'[c] = "running"
      /\ \A d \in Command \ {c} : cat'[d] = cat[d]
  BY <1>1, ServingNow DEF CommandPlace
<1>3. /\ Held(queue', current', at', frames', depth', Gone')
      /\ ended' \subseteq Mutation /\ cancelled' \subseteq Mutation /\ due' \in BOOLEAN
      /\ Bounded(at', current')
      /\ Elems(frames') = Elems(frames) \cup {c}
  BY <1>1, CommandPushed
<1>4. Serving'
  BY <1>1, <1>2, <1>3, ServingNow DEF Serving
<1> QED
  BY <1>3, <1>4 DEF QueueInv

LEMMA ServedKeeps == ASSUME QueueInv, NEW c \in Command, Served(c) PROVE QueueInv'
<1>1. /\ Innermost(c) /\ cat' = [cat EXCEPT ![c] = "done"] /\ frames' = Tail(frames)
      /\ serving' = IF MayFree(c) THEN NoCommand ELSE serving
      /\ UNCHANGED <<mutations, typed, takenOff>>
  BY DEF Served
<1>2. /\ cat' \in [Command -> CommandPlace] /\ cat'[c] = "done"
      /\ \A d \in Command \ {c} : cat'[d] = cat[d]
  BY <1>1, ServingNow DEF CommandPlace
<1>3. /\ Held(queue', current', at', frames', depth', Gone')
      /\ ended' \subseteq Mutation /\ cancelled' \subseteq Mutation /\ due' \in BOOLEAN
      /\ Bounded(at', current')
      /\ Elems(frames') = Elems(frames) \ {c}
  BY <1>1, CommandPopped
<1>4. c \in Elems(frames) /\ cat[c] = "running"
  BY <1>1, PopParts, ServingNow
<1>5. serving' \in Command \cup {NoCommand} /\ serving' # c
      /\ \A d \in Command \ {c} : d = serving' <=> d = serving
  BY <1>1, ServingNow DEF MayFree
<1>6. Serving'
  BY <1>1, <1>2, <1>3, <1>4, <1>5, ServingNow DEF Serving
<1> QED
  BY <1>3, <1>6 DEF QueueInv

---------------------------------------------------------------------------
LEMMA QueueStart == Init => QueueInv
<1> SUFFICES ASSUME Init PROVE QueueInv
  OBVIOUS
<1>1. /\ queue = <<>> /\ current = NoMutation /\ due = TRUE /\ depth = 0 /\ frames = <<>>
      /\ at = [m \in Mutation |-> "new"] /\ cancelled = {} /\ ended = {}
      /\ typed = <<>> /\ serving = NoCommand /\ cat = [c \in Command |-> "new"]
      /\ takenOff = {}
  BY DEF Init, MutationInit
<1>2. Held(queue, current, at, frames, depth, Gone)
  BY <1>1, NoElems, MutationConstantsOK DEF Held, Topmost, Started, MutationPlace, Gone
<1>3. Serving
  BY <1>1, NoElems, CommandConstantsOK DEF Serving, CommandPlace
<1>4. Bounded(at, current)
  <2>1. \A p \in Player : Load(p, at, current) = {}
    BY <1>1, MutationConstantsOK DEF Load
  <2> QED
    BY <2>1, FS_EmptySet, MutationConstantsOK DEF Bounded
<1> QED
  BY <1>1, <1>2, <1>3, <1>4 DEF QueueInv

LEMMA QueueStep == QueueInv /\ [Next]_vars => QueueInv'
<1> SUFFICES ASSUME QueueInv, [Next]_vars PROVE QueueInv'
  OBVIOUS
<1>1. CASE MutationStep(serving # NoCommand) /\ UNCHANGED commands
  BY <1>1, MutationStepKeeps, MutationsThenCommands
<1>2. CASE ServePump \/ ServeTimeout
  BY <1>2, ServePumpHolds, ServeTimeoutHolds
<1>3. ASSUME NEW c \in Command, Type(c) \/ ServeItem(c) \/ Served(c) PROVE QueueInv'
  BY <1>3, TypeKeeps, ServeItemKeeps, ServedKeeps
<1>4. CASE UNCHANGED vars
  <2>1. UNCHANGED mutations /\ frames' = frames /\ UNCHANGED commands
    BY <1>4 DEF vars
  <2>2. Serving'
    BY <2>1, ServingNow DEF Serving, commands
  <2> QED
    BY <2>1, <2>2, CommandsOnly DEF QueueInv
<1> QED
  BY <1>1, <1>2, <1>3, <1>4 DEF Next

\* The variables of both queues keep their types.
THEOREM QueuesTyped == Spec => []TypeOK
<1>1. QueueInv => TypeOK
  BY HeldNow, ServingNow DEF QueueInv, TypeOK, MutationTypeOK
<1> QED
  BY <1>1, QueueStart, QueueStep, PTL DEF Spec

\* However the time limit, late callbacks (finishMutationQueueAsync) and nested
\* mutations meet, the slot MUTATION_QUEUE_CURRENT is held by the one mutation that was
\* started and has neither ended nor been cancelled.
THEOREM SlotHeld == Spec => []SlotIsHeld
<1>1. QueueInv => SlotIsHeld
  <2> SUFFICES ASSUME QueueInv PROVE Unfinished = {current} \ {NoMutation}
    BY DEF SlotIsHeld
  <2>1. \A m \in Mutation : m \in Unfinished <=> m = current
    BY HeldNow DEF Unfinished, Started, Gone
  <2>2. Unfinished \subseteq Mutation
    BY DEF Unfinished
  <2> QED
    BY <2>1, <2>2, HeldNow
<1> QED
  BY <1>1, QueueStart, QueueStep, PTL DEF Spec

\* MUTATION_QUEUE_REENTRANT_DEPTH says whether the holder of the slot is being run: a
\* mutation that has lost its turn lets nothing that it enqueues run at once.
THEOREM NestedHeld == Spec => []NestedInHolder
<1>1. QueueInv => NestedInHolder
  BY HeldNow DEF NestedInHolder
<1> QED
  BY <1>1, QueueStart, QueueStep, PTL DEF Spec

\* MUTATION_QUEUE_PLAYER_MAX bounds what one player has waiting and in the slot.
THEOREM PlayerLimited == Spec => []PlayerLimit
<1>1. QueueInv => PlayerLimit
  <2> SUFFICES ASSUME QueueInv, NEW p \in Player
               PROVE  Cardinality({m \in Mutation : Owner[m] = p /\ (at[m] = "queued" \/ m = current)})
                        <= PlayerMax
    BY DEF PlayerLimit
  <2>1. {m \in Mutation : Owner[m] = p /\ (at[m] = "queued" \/ m = current)} = Load(p, at, current)
    BY DEF Load
  <2> QED
    BY <2>1 DEF QueueInv, Bounded
<1> QED
  BY <1>1, QueueStart, QueueStep, PTL DEF Spec

\* The end of a command that was taken off by its time limit does not free the slot
\* PLAYER_COMMAND_QUEUE_CURRENT of the next one.
THEOREM CommandSlotHeld == Spec => []CommandSlotIsHeld
<1>1. QueueInv => CommandSlotIsHeld
  <2> SUFFICES ASSUME QueueInv
               PROVE  {c \in Command : cat[c] \in {"scheduled", "running"}} \ takenOff
                        = {serving} \ {NoCommand}
    BY DEF CommandSlotIsHeld
  <2> QED
    BY ServingNow
<1> QED
  BY <1>1, QueueStart, QueueStep, PTL DEF Spec

\* A mutation that PumpTimeout has cancelled is never started, whatever the game thread
\* still holds of it.
THEOREM CancelledStays == Spec => CancelledNeverStarts
<1> DEFINE Stays == \A m \in cancelled : at'[m] = "running" => at[m] = "running"
<1>1. QueueInv /\ [Next]_vars => [Stays]_<<mutations, frames>>
  <2> SUFFICES ASSUME QueueInv, [Next]_vars, ~UNCHANGED <<mutations, frames>> PROVE Stays
    OBVIOUS
  <2>1. CASE MutationStep(serving # NoCommand)
    BY <2>1, MutationStepKeeps DEF MutationsKept
  <2>2. CASE UNCHANGED mutations
    BY <2>2 DEF mutations
  <2> QED
    BY <2>1, <2>2 DEF Next, vars, ServePump, ServeTimeout, Type, ServeItem, Served
<1> QED
  BY <1>1, QueueStart, QueueStep, PTL DEF Spec, CancelledNeverStarts

=============================================================================
