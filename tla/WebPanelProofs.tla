---------------------------- MODULE WebPanelProofs ----------------------------
(***************************************************************************)
(* Theorems about five parts of the web panel: the words of the players'   *)
(* commands, the welcome pack, the translation of the page, the panel's    *)
(* copies of the logs and the rules of the shop modules; then about all    *)
(* the parts together, with what the two modules it extends prove of the   *)
(* editors and the answers.                                                *)
(***************************************************************************)
EXTENDS MCWebPanel, PanelEditorsProofs, PanelAnswersProofs

---------------------------------------------------------------------------
(* The words of the commands.                                              *)

AliasesTyped ==
  /\ words \in [enabled : BOOLEAN, bang : BOOLEAN, list : [Command -> SUBSET Alias]]
  /\ stage \in {"draft", "kept", "running"} /\ checked \in BOOLEAN

\* A checked configuration is kept as the panel wrote it: it is accepted, and no alias
\* begins with a slash, which the three programs would read differently.
AliasInv ==
  /\ AliasesTyped
  /\ checked =>
       /\ stage # "draft"
       /\ ServerAccepts(words)
       /\ \A c \in Command : \A a \in words.list[c] : a.sign \in {"", "!"}

\* What WithBang adds to a set of aliases.
LEMMA BangElements ==
  ASSUME NEW set, NEW bang \in BOOLEAN, NEW x
  PROVE  x \in WithBang(set, bang) <=>
           \/ x \in set
           \/ bang /\ \E b \in set : b.sign # "!" /\ x = [sign |-> "!", word |-> b.word]
  BY DEF WithBang, WithSign

LEMMA SignElements ==
  ASSUME NEW sign, NEW set, NEW x
  PROVE  x \in WithSign(sign, set) <=> \E w \in set : x = [sign |-> sign, word |-> w]
  BY DEF WithSign

\* The default words, with both signs.
LEMMA DefaultWords ==
  ASSUME NEW c \in Command
  PROVE  DefaultAliases(c) = WithSign("/", Default[c]) \cup WithSign("!", Default[c])
<1>1. ASSUME NEW x PROVE x \in DefaultAliases(c) <=>
        x \in WithSign("/", Default[c]) \cup WithSign("!", Default[c])
  <2>1. x \in DefaultAliases(c) <=>
          \/ x \in WithSign("/", Default[c])
          \/ \E b \in WithSign("/", Default[c]) :
               b.sign # "!" /\ x = [sign |-> "!", word |-> b.word]
    BY BangElements DEF DefaultAliases
  <2>2. (\E b \in WithSign("/", Default[c]) :
           b.sign # "!" /\ x = [sign |-> "!", word |-> b.word])
          <=> x \in WithSign("!", Default[c])
    <3>1. \A b : b \in WithSign("/", Default[c]) <=> \E w \in Default[c] : b = [sign |-> "/", word |-> w]
      BY SignElements
    <3>2. x \in WithSign("!", Default[c]) <=> \E w \in Default[c] : x = [sign |-> "!", word |-> w]
      BY SignElements
    <3>3. ASSUME NEW w \in Default[c]
          PROVE  LET b == [sign |-> "/", word |-> w]
                 IN  b.sign # "!" /\ b.word = w
      OBVIOUS
    <3>4. ASSUME NEW w \in Default[c], x = [sign |-> "!", word |-> w]
          PROVE  \E b \in WithSign("/", Default[c]) :
                   b.sign # "!" /\ x = [sign |-> "!", word |-> b.word]
      <4> DEFINE b == [sign |-> "/", word |-> w]
      <4>1. b \in WithSign("/", Default[c]) /\ b.sign # "!" /\ b.word = w
        BY <3>1, <3>3
      <4> HIDE DEF b
      <4> QED
        BY <3>4, <4>1
    <3>5. ASSUME NEW b \in WithSign("/", Default[c]) PROVE \E w \in Default[c] : b.word = w
      BY <3>1, <3>3
    <3> QED
      BY <3>2, <3>4, <3>5
  <2> QED
    BY <2>1, <2>2
<1> QED
  BY <1>1

\* The bridge reads of a well-formed configuration what the panel shows.
LEMMA ReadsAreShown ==
  ASSUME AliasesTyped, NEW c \in Command
  PROVE  BridgeReads(words, c) = Shown(c)
<1> DEFINE list == words.list[c]
           read == {BridgeAlias(a) : a \in list}
           slash == {a.word : a \in {b \in list : b.sign # "!"}}
           bang == {a.word : a \in {b \in list : b.sign = "!"}}
<1>t. /\ list \subseteq Alias /\ words.bang \in BOOLEAN /\ words.enabled \in BOOLEAN
  BY DEF AliasesTyped
<1>1. ASSUME NEW a \in list
      PROVE  BridgeAlias(a) = [sign |-> IF a.sign = "!" THEN "!" ELSE "/", word |-> a.word]
  BY <1>t DEF BridgeAlias, Alias
<1>2. list = {} <=> WithBang(read, words.bang) = {}
  <2>1. list = {} => read = {}
    OBVIOUS
  <2>2. ASSUME NEW a \in list PROVE BridgeAlias(a) \in WithBang(read, words.bang)
    BY <1>t, BangElements
  <2>3. read = {} => WithBang(read, words.bang) = {}
    BY <1>t, BangElements
  <2> QED
    BY <2>1, <2>2, <2>3
<1>3. ASSUME NEW x PROVE x \in read <=> x \in WithSign("/", slash) \cup WithSign("!", bang)
  <2>1. x \in WithSign("/", slash) <=> \E a \in list : a.sign # "!" /\ x = [sign |-> "/", word |-> a.word]
    BY SignElements
  <2>2. x \in WithSign("!", bang) <=> \E a \in list : a.sign = "!" /\ x = [sign |-> "!", word |-> a.word]
    BY SignElements
  <2> QED
    BY <1>1, <2>1, <2>2
<1>4. ASSUME NEW x
      PROVE  (\E b \in read : b.sign # "!" /\ x = [sign |-> "!", word |-> b.word])
               <=> x \in WithSign("!", slash)
  <2>1. x \in WithSign("!", slash) <=> \E a \in list : a.sign # "!" /\ x = [sign |-> "!", word |-> a.word]
    BY SignElements
  <2>2. (\E b \in read : b.sign # "!" /\ x = [sign |-> "!", word |-> b.word])
          <=> \E a \in list : BridgeAlias(a).sign # "!" /\ x = [sign |-> "!", word |-> BridgeAlias(a).word]
    OBVIOUS
  <2> QED
    BY <1>1, <2>1, <2>2
<1>5. ASSUME NEW x
      PROVE  x \in WithBang(read, words.bang) <=>
               x \in WithSign("/", slash) \cup WithSign("!", IF words.bang THEN bang \cup slash ELSE bang)
  <2>1. x \in WithBang(read, words.bang) <=>
          \/ x \in WithSign("/", slash) \cup WithSign("!", bang)
          \/ words.bang /\ x \in WithSign("!", slash)
    BY <1>t, <1>3, <1>4, BangElements
  <2>2. x \in WithSign("!", bang \cup slash) <=> x \in WithSign("!", bang) \/ x \in WithSign("!", slash)
    BY SignElements
  <2> QED
    BY <2>1, <2>2, <1>t
<1>6. WithBang(read, words.bang) =
        WithSign("/", slash) \cup WithSign("!", IF words.bang THEN bang \cup slash ELSE bang)
  BY <1>5
<1> QED
  BY <1>t, <1>2, <1>6, DefaultWords DEF BridgeReads, Shown

\* Without an alias that begins with a slash the panel's server reads the same.
LEMMA ServerReadsTheSame ==
  ASSUME AliasesTyped, words.enabled, NEW c \in Command,
         \A a \in words.list[c] : a.sign \in {"", "!"}
  PROVE  ServerReads(words, c) = BridgeReads(words, c)
<1>1. \A a \in words.list[c] : ServerAlias(a) = BridgeAlias(a)
  BY DEF AliasesTyped, Alias, ServerAlias, BridgeAlias
<1>2. {ServerAlias(a) : a \in words.list[c]} = {BridgeAlias(a) : a \in words.list[c]}
  BY <1>1
<1> QED
  BY <1>2 DEF ServerReads, BridgeReads

\* The words that the bridge reads of two commands of a checked configuration differ.
LEMMA CheckedAreApart ==
  ASSUME AliasInv, checked, NEW c \in Command, NEW d \in Command, c # d
  PROVE  BridgeReads(words, c) \cap BridgeReads(words, d) = {}
<1>1. CASE words.enabled
  <2>1. ServerReads(words, c) \cap ServerReads(words, d) = {}
    BY <1>1 DEF AliasInv, ServerAccepts
  <2> QED
    BY <1>1, <2>1, ServerReadsTheSame DEF AliasInv
<1>2. CASE ~words.enabled
  <2>1. /\ BridgeReads(words, c) = DefaultAliases(c) /\ BridgeReads(words, d) = DefaultAliases(d)
    BY <1>2 DEF BridgeReads
  <2>2. Default[c] \cap Default[d] = {}
    BY AliasConstantsOK DEF Command
  <2>3. ASSUME NEW x \in DefaultAliases(c), x \in DefaultAliases(d) PROVE FALSE
    <3>1. \E w \in Default[c] : x.word = w
      BY DefaultWords, SignElements
    <3>2. \E w \in Default[d] : x.word = w
      BY <2>3, DefaultWords, SignElements
    <3> QED
      BY <3>1, <3>2, <2>2
  <2> QED
    BY <2>1, <2>3
<1> QED
  BY <1>1, <1>2

LEMMA AliasInit == AliasesInit => AliasInv
<1> SUFFICES ASSUME AliasesInit PROVE AliasInv
  OBVIOUS
<1>1. ASSUME NEW c \in Command PROVE WithSign("", Default[c]) \subseteq Alias
  <2>1. Default[c] \subseteq Word
    BY AliasConstantsOK DEF Command
  <2>2. ASSUME NEW w \in Word PROVE [sign |-> "", word |-> w] \in Alias
    BY DEF Alias
  <2>3. WithSign("", Default[c]) = {[sign |-> "", word |-> w] : w \in Default[c]}
    BY DEF WithSign
  <2> QED
    BY <2>1, <2>2, <2>3
<1> QED
  BY <1>1 DEF AliasesInit, AliasInv, AliasesTyped

LEMMA AliasStep == AliasInv /\ [AliasesNext]_aliasVars => AliasInv'
<1> SUFFICES ASSUME AliasInv, [AliasesNext]_aliasVars PROVE AliasInv'
  OBVIOUS
<1> USE DEF AliasInv, AliasesTyped
<1>c. ASSUME Changed
      PROVE  /\ words' \in [enabled : BOOLEAN, bang : BOOLEAN, list : [Command -> SUBSET Alias]]
             /\ checked' = FALSE
  <2>1. CASE Change([words EXCEPT !.enabled = ~@])
    BY <2>1 DEF Change
  <2>2. CASE Change([words EXCEPT !.bang = ~@])
    BY <2>2 DEF Change
  <2>3. ASSUME NEW c \in Command, NEW a \in Alias,
               Change([words EXCEPT !.list[c] = Toggled(@, a)])
        PROVE  /\ words' \in [enabled : BOOLEAN, bang : BOOLEAN, list : [Command -> SUBSET Alias]]
               /\ checked' = FALSE
    <3>1. Toggled(words.list[c], a) \in SUBSET Alias
      BY DEF Toggled
    <3>2. [words.list EXCEPT ![c] = Toggled(words.list[c], a)] \in [Command -> SUBSET Alias]
      BY <3>1
    <3> QED
      BY <2>3, <3>2 DEF Change
  <2> QED
    BY <1>c, <2>1, <2>2, <2>3 DEF Changed
<1>1. CASE Edit
  BY <1>1, <1>c DEF Edit
<1>2. CASE EditFile
  BY <1>2, <1>c DEF EditFile
<1>n. /\ Normalized \in [enabled : BOOLEAN, bang : BOOLEAN, list : [Command -> SUBSET Alias]]
      /\ \A c \in Command : \A a \in Normalized.list[c] : a.sign \in {"", "!"}
  <2>1. ASSUME NEW a \in Alias PROVE PanelAlias(a) \in Alias /\ PanelAlias(a).sign \in {"", "!"}
    BY DEF Alias, PanelAlias
  <2>2. \A c \in Command : words.list[c] \subseteq Alias
    OBVIOUS
  <2> DEFINE list == [c \in Command |-> {PanelAlias(a) : a \in words.list[c]}]
  <2>3. \A c \in Command : \A b \in list[c] : b \in Alias /\ b.sign \in {"", "!"}
    BY <2>1, <2>2
  <2>4. list \in [Command -> SUBSET Alias]
    BY <2>3
  <2>5. Normalized = [enabled |-> words.enabled, bang |-> words.bang, list |-> list]
    BY DEF Normalized
  <2> HIDE DEF list
  <2> QED
    BY <2>3, <2>4, <2>5
<1>3. CASE SaveByPanelServer
  BY <1>3, <1>n DEF SaveByPanelServer
<1>4. CASE SaveByNativeServer
  BY <1>4, <1>n DEF SaveByNativeServer
<1>5. CASE TurnOff
  BY <1>5 DEF TurnOff, ServerAccepts
<1>6. CASE GameStarts
  BY <1>6 DEF GameStarts, ServerAccepts
<1>7. CASE UNCHANGED aliasVars
  BY <1>7 DEF aliasVars
<1> QED
  BY <1>1, <1>2, <1>3, <1>4, <1>5, <1>6, <1>7 DEF AliasesNext

\* The lists stay within their bound.
ListsBounded ==
  \A c \in Command : IsFiniteSet(words.list[c]) /\ Cardinality(words.list[c]) <= ListMax

\* The image of a finite set under a function has no more elements.
LEMMA ImageBound ==
  ASSUME NEW S, IsFiniteSet(S), NEW f, DOMAIN f = S, f = [x \in S |-> f[x]]
  PROVE  IsFiniteSet({f[x] : x \in S}) /\ Cardinality({f[x] : x \in S}) <= Cardinality(S)
<1> DEFINE T == {f[x] : x \in S}
<1>1. f \in Surjection(S, T)
  BY DEF Surjection
<1> HIDE DEF T
<1>2. IsFiniteSet(T) /\ Cardinality(T) <= Cardinality(S)
  BY <1>1, FS_Surjection
<1> QED
  BY <1>2 DEF T

LEMMA ListsStart == AliasesInit => ListsBounded
<1> SUFFICES ASSUME AliasesInit, NEW c \in Command
             PROVE  IsFiniteSet(words.list[c]) /\ Cardinality(words.list[c]) <= ListMax
  BY DEF ListsBounded
<1> DEFINE f == [w \in Default[c] |-> [sign |-> "", word |-> w]]
<1>1. words.list[c] = {f[w] : w \in Default[c]}
  BY DEF AliasesInit, WithSign
<1>2. IsFiniteSet(Default[c]) /\ Cardinality(Default[c]) <= ListMax /\ ListMax \in Nat
  BY AliasConstantsOK DEF Command
<1>3. DOMAIN f = Default[c] /\ f = [w \in Default[c] |-> f[w]]
  OBVIOUS
<1> HIDE DEF f
<1>4. IsFiniteSet(words.list[c]) /\ Cardinality(words.list[c]) <= Cardinality(Default[c])
  BY <1>1, <1>2, <1>3, ImageBound
<1>5. Cardinality(words.list[c]) \in Nat /\ Cardinality(Default[c]) \in Nat
  BY <1>2, <1>4, FS_CardinalityType
<1> QED
  BY <1>2, <1>4, <1>5

LEMMA ListsStep ==
  ASSUME AliasesTyped, ListsBounded, [AliasesNext]_aliasVars
  PROVE  ListsBounded'
<1>c. ASSUME Changed PROVE ListsBounded'
  <2>1. \A c \in Command : Cardinality(words'.list[c]) <= ListMax
    BY <1>c DEF Changed, Change
  <2>2. ASSUME NEW c \in Command PROVE IsFiniteSet(words'.list[c])
    <3>1. CASE words'.list = words.list
      BY <3>1 DEF ListsBounded
    <3>2. ASSUME NEW d \in Command, NEW a \in Alias,
                 words' = [words EXCEPT !.list[d] = Toggled(@, a)]
          PROVE  IsFiniteSet(words'.list[c])
      <4>1. words'.list[c] = IF c = d THEN Toggled(words.list[d], a) ELSE words.list[c]
        BY <3>2 DEF AliasesTyped
      <4>2. IsFiniteSet(words.list[d] \ {a}) /\ IsFiniteSet(words.list[d] \cup {a})
        BY FS_RemoveElement, FS_AddElement DEF ListsBounded
      <4> QED
        BY <4>1, <4>2 DEF ListsBounded, Toggled
    <3> QED
      BY <1>c, <3>1, <3>2 DEF Changed, Change, AliasesTyped
  <2> QED
    BY <2>1, <2>2 DEF ListsBounded
<1>n. ASSUME words' = Normalized PROVE ListsBounded'
  <2> SUFFICES ASSUME NEW c \in Command
               PROVE  IsFiniteSet(words'.list[c]) /\ Cardinality(words'.list[c]) <= ListMax
    BY DEF ListsBounded
  <2> DEFINE S == words.list[c]
             f == [a \in S |-> PanelAlias(a)]
  <2>1. words'.list[c] = {f[a] : a \in S}
    BY <1>n DEF Normalized
  <2>2. IsFiniteSet(S) /\ Cardinality(S) <= ListMax /\ ListMax \in Nat
    BY AliasConstantsOK DEF ListsBounded
  <2>3. DOMAIN f = S /\ f = [a \in S |-> f[a]]
    OBVIOUS
  <2> HIDE DEF f, S
  <2>4. IsFiniteSet(words'.list[c]) /\ Cardinality(words'.list[c]) <= Cardinality(S)
    BY <2>1, <2>2, <2>3, ImageBound
  <2>5. Cardinality(words'.list[c]) \in Nat /\ Cardinality(S) \in Nat
    BY <2>2, <2>4, FS_CardinalityType
  <2> QED
    BY <2>2, <2>4, <2>5
<1>s. ASSUME words'.list = words.list PROVE ListsBounded'
  BY <1>s DEF ListsBounded
<1>1. CASE Edit \/ EditFile
  BY <1>1, <1>c DEF Edit, EditFile
<1>2. CASE SaveByPanelServer \/ SaveByNativeServer
  BY <1>2, <1>n DEF SaveByPanelServer, SaveByNativeServer
<1>3. CASE TurnOff \/ GameStarts \/ UNCHANGED aliasVars
  <2>1. words'.list = words.list
    BY <1>3 DEF TurnOff, GameStarts, aliasVars, AliasesTyped
  <2> QED
    BY <1>s, <2>1
<1> QED
  BY <1>1, <1>2, <1>3 DEF AliasesNext

LEMMA AliasTypes == AliasesSpec => []AliasTypeOK
<1>1. AliasInv /\ ListsBounded => AliasTypeOK
  BY DEF AliasInv, AliasesTyped, ListsBounded, AliasTypeOK
<1>2. AliasInv /\ ListsBounded /\ [AliasesNext]_aliasVars => ListsBounded'
  BY ListsStep DEF AliasInv
<1> QED
  BY <1>1, <1>2, AliasInit, AliasStep, ListsStart, PTL DEF AliasesSpec

\* Every word that the panel shows of a configuration that its server has checked calls
\* its own command in the game: ValidatePlayerCommandAliases, which runs on another
\* program's reading, leaves enforceUniquePlayerCommandAliases nothing to drop.
THEOREM CheckedWordsCall == AliasesSpec => []CheckedIsCalled
<1>1. AliasInv => CheckedIsCalled
  <2> SUFFICES ASSUME AliasInv, checked, NEW c \in Command PROVE Calls(c) = Shown(c)
    BY DEF CheckedIsCalled
  <2>1. ASSUME NEW d \in 1..(c - 1) PROVE BridgeReads(words, c) \cap BridgeReads(words, d) = {}
    <3>1. d \in Command /\ d # c
      BY AliasConstantsOK DEF Command
    <3> QED
      BY <3>1, CheckedAreApart
  <2>2. Calls(c) = BridgeReads(words, c)
    BY <2>1 DEF Calls, Owned
  <2> QED
    BY <2>2, ReadsAreShown DEF AliasInv
<1> QED
  BY <1>1, AliasInit, AliasStep, PTL DEF AliasesSpec

---------------------------------------------------------------------------
(* The welcome pack.                                                       *)

WelcomeTyped ==
  /\ loading \in BOOLEAN
  /\ timers \subseteq Record /\ optimistic \subseteq Record
  /\ refreshes \in [1..RefreshMax ->
                     [stage : {"none", "sent", "served"}, rows : SUBSET Record]]
  /\ given \subseteq Record /\ claim \subseteq Record /\ reset \subseteq Record
  /\ received \subseteq Player

\* Who was given the pack is remembered beside the server's answers, and is among the
\* rows that the dialog reads.
WelcomeInv ==
  /\ WelcomeTyped
  /\ \A who \in received : /\ \E o \in optimistic : Who(o) = who
                         /\ \E r \in timers : Who(r) = who

LEMMA MatchesWho ==
  ASSUME NEW r \in Record, NEW t \in Record, RowMatches(r, t)
  PROVE  Who(r) = Who(t)
  BY WelcomeConstantsOK DEF Record, Id, Who, RowMatches

\* A merge keeps every player of what is remembered among the rows.
LEMMA MergedKeeps ==
  ASSUME NEW list \in SUBSET Record, NEW mine \in SUBSET Record, NEW o \in mine
  PROVE  /\ Merged(list, mine) \subseteq Record
         /\ \E r \in Merged(list, mine) : Who(r) = Who(o)
<1>1. CASE \E r \in list : RowMatches(r, o)
  BY <1>1, MatchesWho DEF Merged
<1>2. CASE ~\E r \in list : RowMatches(r, o)
  BY <1>2 DEF Merged
<1> QED
  BY <1>1, <1>2

LEMMA RefreshesTyped ==
  ASSUME WelcomeTyped, NEW i \in 1..RefreshMax, StartRefresh(i)
  PROVE  /\ refreshes' \in [1..RefreshMax ->
                             [stage : {"none", "sent", "served"}, rows : SUBSET Record]]
         /\ loading' = TRUE
  BY DEF WelcomeTyped, StartRefresh

LEMMA WelcomeStart == WelcomeInit => WelcomeInv
  BY DEF WelcomeInit, WelcomeInv, WelcomeTyped

LEMMA WelcomeStep == WelcomeInv /\ [WelcomeNext]_welcome => WelcomeInv'
<1> SUFFICES ASSUME WelcomeInv, [WelcomeNext]_welcome PROVE WelcomeInv'
  OBVIOUS
<1> USE DEF WelcomeInv, WelcomeTyped
<1>1. ASSUME NEW i \in 1..RefreshMax, Refresh(i) PROVE WelcomeInv'
  BY <1>1, RefreshesTyped DEF Refresh
<1>2. ASSUME NEW i \in 1..RefreshMax, ServeRefresh(i) PROVE WelcomeInv'
  <2>1. PICK list \in {given, {}} :
          refreshes' = [refreshes EXCEPT ![i] = [stage |-> "served", rows |-> list]]
    BY <1>2 DEF ServeRefresh
  <2>2. refreshes' \in [1..RefreshMax ->
                        [stage : {"none", "sent", "served"}, rows : SUBSET Record]]
    BY <2>1
  <2> QED
    BY <1>2, <2>2 DEF ServeRefresh
<1>3. ASSUME NEW i \in 1..RefreshMax, RefreshAnswered(i) PROVE WelcomeInv'
  <2>1. timers' = Merged(refreshes[i].rows, optimistic) /\ refreshes[i].rows \subseteq Record
    BY <1>3 DEF RefreshAnswered
  <2>2. timers' \subseteq Record
    BY <2>1 DEF Merged
  <2>3. ASSUME NEW who \in received PROVE \E r \in timers' : Who(r) = who
    BY <2>1, MergedKeeps
  <2>4. refreshes' \in [1..RefreshMax ->
                        [stage : {"none", "sent", "served"}, rows : SUBSET Record]]
    BY <1>3 DEF RefreshAnswered
  <2> QED
    BY <1>3, <2>2, <2>3, <2>4 DEF RefreshAnswered
<1>4. ASSUME NEW t \in Record, Claim(t) PROVE WelcomeInv'
  BY <1>4 DEF Claim
<1>5. ASSUME NEW t \in Record, ClaimRefused(t) PROVE WelcomeInv'
  BY <1>5 DEF ClaimRefused
<1>6. ASSUME NEW t \in Record, Reset(t) PROVE WelcomeInv'
  BY <1>6 DEF Reset
<1>7. ASSUME NEW t \in Record, NEW i \in 1..RefreshMax, ClaimAnswered(t, i) PROVE WelcomeInv'
  <2>1. /\ optimistic' = {o \in optimistic : ~RowMatches(o, t)} \cup {t}
        /\ timers' = Merged(timers, optimistic')
        /\ received' = received \cup {Who(t)}
    BY <1>7 DEF ClaimAnswered
  <2>2. optimistic' \subseteq Record /\ timers' \subseteq Record
    BY <2>1 DEF Merged
  <2>3. ASSUME NEW who \in received' PROVE \E o \in optimistic' : Who(o) = who
    <3>1. CASE who = Who(t)
      BY <2>1, <3>1
    <3>2. CASE who # Who(t)
      <4>1. PICK o \in optimistic : Who(o) = who
        BY <2>1, <3>2
      <4> QED
        BY <2>1, <3>2, <4>1, MatchesWho
    <3> QED
      BY <3>1, <3>2
  <2>4. ASSUME NEW who \in received' PROVE \E r \in timers' : Who(r) = who
    <3>1. PICK o \in optimistic' : Who(o) = who
      BY <2>3
    <3>2. \E r \in Merged(timers, optimistic') : Who(r) = Who(o)
      BY <2>2, <3>1, MergedKeeps
    <3> QED
      BY <2>1, <3>1, <3>2
  <2>5. Who(t) \in Player
    <3>1. t \in claim /\ \A r \in Record : Who(r) \in Player
      BY <1>7, WelcomeConstantsOK DEF ClaimAnswered, Record, Id, Who
    <3> QED
      BY <3>1
  <2>6. /\ refreshes' \in [1..RefreshMax ->
                           [stage : {"none", "sent", "served"}, rows : SUBSET Record]]
        /\ loading' = TRUE
    BY <1>7, RefreshesTyped DEF ClaimAnswered
  <2>7. /\ given' \subseteq Record
        /\ claim' = {} /\ reset' = reset
    BY <1>7 DEF ClaimAnswered
  <2> QED
    BY <2>1, <2>2, <2>3, <2>4, <2>5, <2>6, <2>7
<1>8. ASSUME NEW t \in Record, NEW i \in 1..RefreshMax, ResetAnswered(t, i) PROVE WelcomeInv'
  <2>1. /\ optimistic' = {o \in optimistic : ~RowMatches(o, t)}
        /\ timers' = {r \in timers : ~RowMatches(r, t)}
        /\ received' = received \ {Who(t)}
    BY <1>8 DEF ResetAnswered
  <2>2. ASSUME NEW who \in received'
        PROVE  /\ \E o \in optimistic' : Who(o) = who
               /\ \E r \in timers' : Who(r) = who
    <3>1. who \in received /\ who # Who(t)
      BY <2>1
    <3>2. PICK o \in optimistic, r \in timers : Who(o) = who /\ Who(r) = who
      BY <3>1
    <3> QED
      BY <2>1, <3>1, <3>2, MatchesWho
  <2>3. /\ refreshes' \in [1..RefreshMax ->
                           [stage : {"none", "sent", "served"}, rows : SUBSET Record]]
        /\ loading' = TRUE
    BY <1>8, RefreshesTyped DEF ResetAnswered
  <2>4. /\ given' \subseteq Record
        /\ reset' = {} /\ claim' = claim
    BY <1>8 DEF ResetAnswered
  <2> QED
    BY <2>1, <2>2, <2>3, <2>4
<1>9. CASE UNCHANGED welcome
  BY <1>9 DEF welcome
<1> QED
  BY <1>1, <1>2, <1>3, <1>4, <1>5, <1>6, <1>7, <1>8, <1>9 DEF WelcomeNext

\* A player whom this panel has given the pack is not offered it again, whatever old or
\* failed answer of refreshWelcomeTimers arrives: the merge with the optimistic rows
\* never loses him.
THEOREM PackIsGivenOnce == WelcomeSpec => []GivenIsNotOffered
<1>1. WelcomeInv => GivenIsNotOffered
  <2> SUFFICES ASSUME WelcomeInv, NEW who \in received PROVE Received([steam |-> who, name |-> who])
    BY DEF GivenIsNotOffered, MayClaim
  <2>1. PICK r \in timers : Who(r) = who
    BY DEF WelcomeInv
  <2>2. r.steam = who \/ r.name = who
    BY <2>1 DEF Who
  <2>3. who # None
    BY WelcomeConstantsOK DEF WelcomeInv, WelcomeTyped
  <2> QED
    BY <2>2, <2>3 DEF Received, RowMatches
<1> QED
  BY <1>1, WelcomeStart, WelcomeStep, PTL DEF WelcomeSpec

LEMMA WelcomeTypes == WelcomeSpec => []WelcomeTypeOK
<1>1. WelcomeInv => WelcomeTypeOK
  BY DEF WelcomeInv, WelcomeTyped, WelcomeTypeOK
<1> QED
  BY <1>1, WelcomeStart, WelcomeStep, PTL DEF WelcomeSpec

---------------------------------------------------------------------------
(* The translation of the page.                                            *)

English(l) == TranslatePanelText(Russian(l), "en")
Of(l) == {Russian(l), English(l)}

\* Every text node and result block shows the label it was last given in one of the
\* two languages, and takes one of the two for its original; in English it shows the
\* translation, or a scan is queued, or the observer has records that will queue one.
TranslationInv ==
  /\ language \in {"ru", "en"}
  /\ written \in [Place -> Label]
  /\ shown = [x \in Place |-> shown[x]] /\ original = [x \in Place |-> original[x]]
  /\ observing = (language = "en") /\ queued \in BOOLEAN /\ changed \in BOOLEAN
  /\ \A x \in Node \cup Result : /\ shown[x] \in Of(written[x])
                                 /\ original[x] \in Of(written[x]) \cup {Unseen}
  /\ language = "en" =>
       /\ \A x \in Result : shown[x] = English(written[x])
       /\ queued \/ changed \/ \A x \in Node : shown[x] = English(written[x])

LEMMA Translated ==
  ASSUME NEW l \in Label, NEW x \in Of(l)
  PROVE  TranslatePanelText(x, "en") = English(l) /\ TranslatePanelText(x, "ru") = x
<1>1. English(l) = IF l \in Dictionary THEN [label |-> l, lang |-> "en"] ELSE Russian(l)
  BY DEF English, TranslatePanelText, Russian
<1>2. x = Russian(l) \/ x = English(l)
  BY DEF Of
<1>3. TranslatePanelText(x, "en") = English(l)
  <2>1. CASE x = Russian(l)
    BY <2>1 DEF English
  <2>2. CASE x # Russian(l)
    <3>1. l \in Dictionary /\ x = [label |-> l, lang |-> "en"]
      BY <1>1, <1>2, <2>2
    <3>2. [x EXCEPT !.lang = "en"] = x /\ x.label = l
      BY <3>1
    <3> QED
      BY <1>1, <3>1, <3>2 DEF TranslatePanelText
  <2> QED
    BY <2>1, <2>2
<1> QED
  BY <1>3 DEF TranslatePanelText

LEMMA TranslationStart == TranslationInit => TranslationInv
<1> SUFFICES ASSUME TranslationInit PROVE TranslationInv
  OBVIOUS
<1>1. PICK f \in [Place -> Label] :
        /\ written = f
        /\ shown = [x \in Place |-> IF x \in Result
                                    THEN TranslatePanelText(Russian(f[x]), language)
                                    ELSE Russian(f[x])]
        /\ original = [x \in Place |-> IF x \in Result THEN Russian(f[x]) ELSE Unseen]
  BY DEF TranslationInit
<1>2. /\ language \in {"ru", "en"} /\ queued = TRUE
      /\ observing = (language = "en") /\ changed = FALSE
  BY DEF TranslationInit
<1>3. \A x \in Node \cup Result : Russian(f[x]) \in Of(f[x]) /\ x \in Place
  BY DEF Of, Place
<1>4. \A x \in Result : /\ language = "en" => shown[x] = English(f[x])
                        /\ language = "ru" => shown[x] = Russian(f[x])
  BY <1>1, <1>3, Translated DEF English
<1>5. \A x \in Node \cup Result : /\ shown[x] \in Of(written[x])
                                  /\ original[x] \in Of(written[x]) \cup {Unseen}
  <2>1. ASSUME NEW x \in Result PROVE shown[x] \in Of(written[x]) /\ original[x] \in Of(written[x])
    BY <1>1, <1>2, <1>3, <1>4 DEF Of
  <2>2. ASSUME NEW x \in Node, x \notin Result
        PROVE  shown[x] \in Of(written[x]) /\ original[x] = Unseen
    BY <1>1, <1>3, <2>2
  <2> QED
    BY <2>1, <2>2
<1> QED
  BY <1>1, <1>2, <1>4, <1>5 DEF TranslationInv

LEMMA TranslationStep == TranslationInv /\ [TranslationNext]_translation => TranslationInv'
<1> SUFFICES ASSUME TranslationInv, [TranslationNext]_translation PROVE TranslationInv'
  OBVIOUS
<1> USE DEF TranslationInv
<1>p. Node \cup Result \subseteq Place /\ Node \cap Result = {} /\ Attr \cap (Node \cup Result) = {}
  BY TranslationConstantsOK DEF Place
<1>1. ASSUME NEW x \in Node, NEW l \in Label, RenderNode(x, l) PROVE TranslationInv'
  BY <1>1, <1>p DEF RenderNode, PageChanges, Of
<1>2. ASSUME NEW x \in Attr, NEW l \in Label, SetAttr(x, l) PROVE TranslationInv'
  <2>1. \A y \in Node \cup Result : y # x /\ shown'[y] = shown[y] /\ written'[y] = written[y]
    BY <1>2, <1>p DEF SetAttr
  <2> QED
    BY <1>2, <1>p, <2>1 DEF SetAttr, PageChanges, Place
<1>3. ASSUME NEW x \in Result, NEW l \in Label, ShowResult(x, l) PROVE TranslationInv'
  <2>1. Russian(l) \in Of(l)
    BY DEF Of
  <2>2. TranslatePanelText(Russian(l), language) \in Of(l)
    BY <2>1, Translated DEF Of
  <2>3. language = "en" => TranslatePanelText(Russian(l), language) = English(l)
    BY DEF English
  <2> QED
    BY <1>3, <1>p, <2>1, <2>2, <2>3 DEF ShowResult, PageChanges
<1>4. CASE Observe
  BY <1>4 DEF Observe, QueueScan, scan
<1>5. CASE Frame
  <2>1. CASE UNCHANGED <<shown, original, changed>> /\ language # "en"
    BY <1>5, <2>1 DEF Frame
  <2>2. CASE Scan
    <3>1. ASSUME NEW x \in Node
          PROVE  /\ NodeOriginal(x) \in Of(written[x])
                 /\ original'[x] = NodeOriginal(x)
                 /\ shown'[x] = TranslatePanelText(NodeOriginal(x), language)
      <4>1. NodeOriginal(x) \in {shown[x], original[x]} /\ (NodeOriginal(x) = original[x] => original[x] # Unseen \/ shown[x] = Unseen)
        BY DEF NodeOriginal
      <4>2. original'[x] = NodeOriginal(x) /\ shown'[x] = TranslatePanelText(NodeOriginal(x), language)
        BY <2>2, <1>p DEF Scan, ScanOriginal
      <4> QED
        BY <4>1, <4>2
    <3>2. ASSUME NEW x \in Node
          PROVE  /\ shown'[x] \in Of(written[x]) /\ original'[x] \in Of(written[x])
                 /\ language = "en" => shown'[x] = English(written[x])
      BY <1>p, <3>1, Translated DEF Of
    <3>3. ASSUME NEW x \in Result PROVE shown'[x] = shown[x] /\ original'[x] = original[x]
      BY <2>2, <1>p DEF Scan
    <3>4. shown' = [x \in Place |-> shown'[x]] /\ original' = [x \in Place |-> original'[x]]
      BY <2>2 DEF Scan
    <3>5. changed' \in BOOLEAN /\ queued' = FALSE /\ UNCHANGED <<language, written, observing>>
      BY <1>5, <2>2 DEF Scan, Frame
    <3> QED
      BY <3>2, <3>3, <3>4, <3>5
  <2> QED
    BY <1>5, <2>1, <2>2 DEF Frame
<1>6. ASSUME NEW lang \in {"ru", "en"}, SetPanelLanguage(lang) PROVE TranslationInv'
  <2>1. ASSUME NEW x \in Result
        PROVE  /\ ResultOriginal(x, lang) \in Of(written[x])
               /\ original'[x] = ResultOriginal(x, lang)
               /\ shown'[x] = TranslatePanelText(ResultOriginal(x, lang), lang)
    BY <1>6, <1>p DEF SetPanelLanguage, ResultOriginal
  <2>2. ASSUME NEW x \in Result
        PROVE  /\ shown'[x] \in Of(written[x]) /\ original'[x] \in Of(written[x])
               /\ lang = "en" => shown'[x] = English(written[x])
    BY <1>p, <2>1, Translated DEF Of
  <2>3. ASSUME NEW x \in Node PROVE shown'[x] = shown[x] /\ original'[x] = original[x]
    BY <1>6, <1>p DEF SetPanelLanguage
  <2>4. shown' = [x \in Place |-> shown'[x]] /\ original' = [x \in Place |-> original'[x]]
    BY <1>6 DEF SetPanelLanguage
  <2>5. /\ queued' = TRUE /\ changed' = FALSE /\ language' = lang
        /\ observing' = (lang = "en") /\ UNCHANGED written
    BY <1>6 DEF SetPanelLanguage, QueueScan
  <2> QED
    BY <2>2, <2>3, <2>4, <2>5
<1>7. CASE UNCHANGED translation
  BY <1>7 DEF translation
<1> QED
  BY <1>1, <1>2, <1>3, <1>4, <1>5, <1>6, <1>7 DEF TranslationNext

\* The steps of the translation without the fairness, which its safety does not need.
TranslationSteps == TranslationInit /\ [][TranslationNext]_translation

LEMMA EnglishAlways == TranslationSteps => []EnglishIsComplete
<1>1. TranslationInv => EnglishIsComplete
  <2> SUFFICES ASSUME TranslationInv, language = "en", Settled, NEW x \in Node \cup Result
               PROVE  shown[x] = English(written[x])
    BY DEF EnglishIsComplete, English
  <2>1. \A y \in Result : shown[y] = English(written[y])
    BY DEF TranslationInv
  <2>2. \A y \in Node : shown[y] = English(written[y])
    BY DEF TranslationInv, Settled
  <2> QED
    BY <2>1, <2>2
<1> QED
  BY <1>1, TranslationStart, TranslationStep, PTL DEF TranslationSteps

\* In English no change of the page is left without a scan: neither the drop of the
\* observer's records when the language changes nor the clearing of the two queue flags
\* by a frame loses one, and what a scan takes for an original translates to the same.
THEOREM EnglishComplete == TranslationSpec => []EnglishIsComplete
  BY EnglishAlways DEF TranslationSpec, TranslationSteps

LEMMA TextOfLabel ==
  ASSUME NEW lang \in {"ru", "en"}
  PROVE  /\ \A l \in Label : Russian(l) \in Text
         /\ \A x \in Text : TranslatePanelText(x, lang) \in Text
  BY DEF Russian, Text, TranslatePanelText

LEMMA TranslationTypesStart == TranslationInit => TranslationTypeOK
<1> SUFFICES ASSUME TranslationInit PROVE TranslationTypeOK
  OBVIOUS
<1>1. PICK f \in [Place -> Label] :
        /\ written = f
        /\ shown = [x \in Place |-> IF x \in Result
                                    THEN TranslatePanelText(Russian(f[x]), language)
                                    ELSE Russian(f[x])]
        /\ original = [x \in Place |-> IF x \in Result THEN Russian(f[x]) ELSE Unseen]
  BY DEF TranslationInit
<1>2. /\ language \in {"ru", "en"} /\ queued = TRUE /\ forced = TRUE
      /\ observing = (language = "en") /\ changed = FALSE
  BY DEF TranslationInit
<1>3. \A x \in Place : Russian(f[x]) \in Text /\ TranslatePanelText(Russian(f[x]), language) \in Text
  BY <1>2, TextOfLabel
<1> QED
  BY <1>1, <1>2, <1>3 DEF TranslationTypeOK

LEMMA TranslationTypesStep ==
  ASSUME TranslationTypeOK, [TranslationNext]_translation
  PROVE  TranslationTypeOK'
<1> USE DEF TranslationTypeOK
<1>p. Node \subseteq Place /\ Attr \subseteq Place /\ Result \subseteq Place
  BY DEF Place
<1>s. ASSUME NEW x \in Place, NEW lang \in {"ru", "en"}
      PROVE  NodeOriginal(x) \in Text /\ AttrOriginal(x) \in Text /\ ResultOriginal(x, lang) \in Text
  <2>1. shown[x] \in Text /\ (original[x] # Unseen => original[x] \in Text)
    OBVIOUS
  <2> QED
    BY <2>1 DEF NodeOriginal, AttrOriginal, ResultOriginal
<1>1. ASSUME NEW x \in Node, NEW l \in Label, RenderNode(x, l) PROVE TranslationTypeOK'
  BY <1>1, <1>p, TextOfLabel DEF RenderNode, PageChanges
<1>2. ASSUME NEW x \in Attr, NEW l \in Label, SetAttr(x, l) PROVE TranslationTypeOK'
  BY <1>2, <1>p, TextOfLabel DEF SetAttr, PageChanges
<1>3. ASSUME NEW x \in Result, NEW l \in Label, ShowResult(x, l) PROVE TranslationTypeOK'
  BY <1>3, <1>p, TextOfLabel DEF ShowResult, PageChanges
<1>4. CASE Observe
  BY <1>4 DEF Observe, QueueScan, scan
<1>5. CASE Frame
  <2>1. CASE Scan
    <3>1. \A x \in Place : ScanOriginal(x) \in Text
      BY <1>s DEF ScanOriginal
    <3>2. \A x \in Place : TranslatePanelText(ScanOriginal(x), language) \in Text
      BY <3>1, TextOfLabel
    <3>3. original' \in [Place -> Text \cup {Unseen}] /\ shown' \in [Place -> Text]
      BY <2>1, <3>1, <3>2 DEF Scan
    <3>4. changed' \in BOOLEAN
      BY <2>1 DEF Scan
    <3> QED
      BY <1>5, <3>3, <3>4 DEF Frame
  <2>2. CASE UNCHANGED <<shown, original, changed>>
    BY <1>5, <2>2 DEF Frame
  <2> QED
    BY <1>5, <2>1, <2>2 DEF Frame
<1>6. ASSUME NEW lang \in {"ru", "en"}, SetPanelLanguage(lang) PROVE TranslationTypeOK'
  <2>1. \A x \in Place : /\ ResultOriginal(x, lang) \in Text
                         /\ TranslatePanelText(ResultOriginal(x, lang), lang) \in Text
    BY <1>s, TextOfLabel
  <2>2. original' \in [Place -> Text \cup {Unseen}] /\ shown' \in [Place -> Text]
    BY <1>6, <2>1 DEF SetPanelLanguage
  <2> QED
    BY <1>6, <2>2 DEF SetPanelLanguage, QueueScan, scan
<1>7. CASE UNCHANGED translation
  BY <1>7 DEF translation
<1> QED
  BY <1>1, <1>2, <1>3, <1>4, <1>5, <1>6, <1>7 DEF TranslationNext

LEMMA TranslationTypes == TranslationSteps => []TranslationTypeOK
  BY TranslationTypesStart, TranslationTypesStep, PTL DEF TranslationSteps

---------------------------------------------------------------------------
(* The copies of the logs.                                                 *)

ReadRecord == [stage : {"none", "sent", "served"}, by : {"alone", "chat", "channel"},
               log : Log, rows : SUBSET Row, overtaken : BOOLEAN]

LogsTyped ==
  /\ server \in [Log -> SUBSET Row] /\ logged \in Nat
  /\ channel \in Log /\ copies \in [Log -> SUBSET Row]
  /\ reads \in [Read -> ReadRecord]
  /\ clearing \in [stage : {"none", "sent", "served"}, by : {"chat", "kills"},
                   log : Log, rows : SUBSET Row]
  /\ told \in [Log -> SUBSET Row] /\ raced \subseteq Log

\* Rows that the administrator was told are gone are not on the server, nor in an
\* answer that no clear has overtaken; rows still to be logged are not told of.
LogsInv ==
  /\ LogsTyped
  /\ \A l \in Log : /\ \A x \in server[l] \cup told[l] : x <= logged
                    /\ told[l] \cap server[l] = {}
                    /\ l \notin raced => copies[l] \cap told[l] = {}
  /\ \A r \in Read :
       reads[r].stage = "served" =>
         /\ \A x \in reads[r].rows : x <= logged
         /\ ~reads[r].overtaken => reads[r].rows \cap told[reads[r].log] = {}
  /\ clearing.stage = "served" =>
       /\ \A x \in clearing.rows : x <= logged
       /\ clearing.rows \cap server[clearing.log] = {}

LEMMA LogsStart == LogsInit => LogsInv
  BY LogsConstantsOK DEF LogsInit, LogsInv, LogsTyped, NoRead, NoClear, ReadRecord, Log

LEMMA SentTyped ==
  ASSUME NEW by \in {"alone", "chat", "channel"}, NEW l \in Log
  PROVE  /\ Sent(by, l) \in ReadRecord /\ Sent(by, l).stage = "sent"
         /\ NoRead \in ReadRecord /\ NoRead.stage = "none"
  BY DEF Sent, NoRead, ReadRecord, Log

\* A step that leaves the rows alone and replaces one read by one that is not served.
LEMMA ReadReplaced ==
  ASSUME LogsInv, NEW r \in Read, NEW new \in ReadRecord, new.stage # "served",
         reads' = [reads EXCEPT ![r] = new], channel' \in Log,
         UNCHANGED <<server, logged, copies, clearing, told, raced>>
  PROVE  LogsInv'
  BY DEF LogsInv, LogsTyped

\* LoadAux starts a read or forgets the one that asked.
LEMMA LoadAuxReads ==
  ASSUME NEW r \in Read, NEW l \in Log, LoadAux(r, l)
  PROVE  \E new \in ReadRecord : new.stage # "served" /\ reads' = [reads EXCEPT ![r] = new]
<1>1. CASE l \in Aux /\ auxLoading[l] = 0
  BY <1>1, SentTyped DEF LoadAux
<1>2. CASE ~(l \in Aux /\ auxLoading[l] = 0)
  BY <1>2, SentTyped DEF LoadAux
<1> QED
  BY <1>1, <1>2

\* An answer becomes the copy of its log.
LEMMA AnswerCopied ==
  ASSUME LogsInv, NEW r \in Read, reads[r].stage = "served", Copied(r),
         NEW new \in ReadRecord, new.stage # "served", reads' = [reads EXCEPT ![r] = new],
         UNCHANGED <<server, logged, channel, clearing, told>>
  PROVE  LogsInv'
<1> USE DEF LogsInv, LogsTyped
<1> DEFINE l == reads[r].log
<1>1. reads[r] \in ReadRecord /\ l \in Log /\ reads[r].rows \subseteq Row
  BY DEF ReadRecord
<1>2. copies' \in [Log -> SUBSET Row] /\ raced' \subseteq Log
  BY <1>1 DEF Copied
<1>3. ASSUME NEW k \in Log, k \notin raced' PROVE copies'[k] \cap told[k] = {}
  BY <1>1, <1>3 DEF Copied
<1>4. \A other \in Read : reads'[other].stage = "served" => reads'[other] = reads[other]
  OBVIOUS
<1> QED
  BY <1>2, <1>3, <1>4

LEMMA LogsStep ==
  ASSUME LogsInv, [LogsNext]_logsVars
  PROVE  LogsInv'
<1> USE DEF LogsInv, LogsTyped
<1>1. ASSUME NEW l \in Log, LogRow(l) PROVE LogsInv'
  <2>1. logged' = logged + 1 /\ logged' \in Row
    BY <1>1, LogsConstantsOK DEF LogRow, Row
  <2>2. server' = [server EXCEPT ![l] = @ \cup {logged'}]
    BY <1>1 DEF LogRow
  <2>3. server' \in [Log -> SUBSET Row]
    BY <2>1, <2>2
  <2>4. UNCHANGED <<channel, copies, reads, clearing, told, raced>>
    BY <1>1 DEF LogRow
  <2>5. \A x \in Row : x <= logged => x <= logged' /\ x # logged'
    BY <2>1 DEF Row
  <2>6. ASSUME NEW k \in Log
        PROVE  /\ \A x \in server'[k] \cup told[k] : x <= logged'
               /\ told[k] \cap server'[k] = {}
    BY <2>1, <2>2, <2>5 DEF Row
  <2>7. ASSUME NEW r \in Read, reads[r].stage = "served"
        PROVE  \A x \in reads[r].rows : x <= logged'
    BY <2>5, <2>7 DEF ReadRecord
  <2>8. ASSUME clearing.stage = "served"
        PROVE  /\ \A x \in clearing.rows : x <= logged'
               /\ clearing.rows \cap server'[clearing.log] = {}
    BY <2>2, <2>5, <2>8
  <2> QED
    BY <2>1, <2>3, <2>4, <2>6, <2>7, <2>8
<1>2. ASSUME NEW r \in Read, NEW by \in {"chat", "alone"}, NEW l \in Log, RefreshLog(r, by, l)
      PROVE  LogsInv'
  BY <1>2, SentTyped, ReadReplaced DEF RefreshLog
<1>3. ASSUME NEW r \in Read, NEW l \in Log, ChooseChannel(r, l) PROVE LogsInv'
  <2>1. CASE UNCHANGED reads
    BY <1>3, <2>1 DEF ChooseChannel
  <2>2. CASE LoadAux(r, l)
    BY <1>3, <2>2, LoadAuxReads, ReadReplaced DEF ChooseChannel
  <2> QED
    BY <1>3, <2>1, <2>2 DEF ChooseChannel
<1>4. ASSUME NEW r \in Read, ServeRead(r) PROVE LogsInv'
  <2>1. reads[r] \in ReadRecord /\ reads[r].log \in Log
    BY DEF ReadRecord
  <2>2. reads' = [reads EXCEPT ![r].stage = "served", ![r].rows = server[reads[r].log]]
    BY <1>4 DEF ServeRead
  <2>3. /\ reads'[r] \in ReadRecord /\ reads'[r].rows = server[reads[r].log]
        /\ reads'[r].log = reads[r].log
    BY <2>1, <2>2 DEF ReadRecord
  <2>4. \A other \in Read : other # r => reads'[other] = reads[other]
    BY <2>2
  <2>5. reads' \in [Read -> ReadRecord]
    <3>1. reads' = [other \in Read |-> reads'[other]]
      BY <2>2
    <3> QED
      BY <2>3, <2>4, <3>1
  <2>6. UNCHANGED <<server, logged, channel, copies, clearing, told, raced>>
    BY <1>4 DEF ServeRead
  <2> QED
    BY <2>1, <2>3, <2>4, <2>5, <2>6
<1>5. ASSUME NEW r \in Read, ChatAnswered(r) PROVE LogsInv'
  BY <1>5, LoadAuxReads, AnswerCopied DEF ChatAnswered
<1>6. ASSUME NEW r \in Read, LogAnswered(r) PROVE LogsInv'
  BY <1>6, SentTyped, AnswerCopied DEF LogAnswered, Released, Log
<1>7. ASSUME NEW r \in Read, ReadFailed(r) PROVE LogsInv'
  BY <1>7, SentTyped, ReadReplaced DEF ReadFailed, Released, Log
<1>8. ASSUME NEW by \in {"chat", "kills"}, NEW l \in Log, Clear(by, l) PROVE LogsInv'
  BY <1>8 DEF Clear, NoClear
<1>9. CASE ServeClear
  BY <1>9 DEF ServeClear
<1>10. CASE ClearAnswered
  <2> DEFINE l == clearing.log
  <2>1. /\ clearing.stage = "served" /\ l \in Log /\ clearing.rows \subseteq Row
        /\ copies' = [copies EXCEPT ![l] = {}]
        /\ told' = [told EXCEPT ![l] = @ \cup clearing.rows]
        /\ raced' = raced \ {l} /\ clearing' = NoClear
        /\ UNCHANGED <<server, logged, channel>>
    BY <1>10 DEF ClearAnswered, ResetLocalLogState
  <2>2. reads' = [r \in Read |-> [reads[r] EXCEPT !.overtaken =
                    @ \/ (reads[r].stage = "served" /\ reads[r].log = l)]]
    BY <1>10 DEF ClearAnswered
  <2>3. ASSUME NEW r \in Read
        PROVE  /\ reads'[r] \in ReadRecord
               /\ reads'[r].stage = reads[r].stage /\ reads'[r].log = reads[r].log
               /\ reads'[r].rows = reads[r].rows
               /\ reads[r].overtaken => reads'[r].overtaken
               /\ reads[r].stage = "served" /\ reads[r].log = l => reads'[r].overtaken
    <3> DEFINE o == reads[r].overtaken \/ (reads[r].stage = "served" /\ reads[r].log = l)
    <3>1. o \in BOOLEAN /\ reads'[r] = [reads[r] EXCEPT !.overtaken = o]
      BY <2>2 DEF ReadRecord
    <3>2. reads[r] \in ReadRecord
      OBVIOUS
    <3>3. /\ reads[r].overtaken => o
          /\ reads[r].stage = "served" /\ reads[r].log = l => o
      OBVIOUS
    <3> HIDE DEF o
    <3> QED
      BY <3>1, <3>2, <3>3 DEF ReadRecord
  <2>4. reads' \in [Read -> ReadRecord]
    BY <2>2, <2>3
  <2>5. told' \in [Log -> SUBSET Row] /\ copies' \in [Log -> SUBSET Row]
    BY <2>1
  <2>6. clearing' \in [stage : {"none", "sent", "served"}, by : {"chat", "kills"},
                       log : Log, rows : SUBSET Row] /\ clearing'.stage = "none"
    BY <2>1 DEF NoClear, Log
  <2>7. ASSUME NEW k \in Log
        PROVE  /\ \A x \in server[k] \cup told'[k] : x <= logged
               /\ told'[k] \cap server[k] = {}
               /\ k \notin raced' => copies'[k] \cap told'[k] = {}
    BY <2>1
  <2>8. ASSUME NEW r \in Read, reads[r].stage = "served", ~reads'[r].overtaken
        PROVE  reads[r].rows \cap told'[reads[r].log] = {}
    BY <2>1, <2>3, <2>8 DEF ReadRecord
  <2> QED
    BY <2>1, <2>3, <2>4, <2>5, <2>6, <2>7, <2>8
<1>11. CASE ClearFailed
  BY <1>11 DEF ClearFailed, NoClear, Log
<1>12. CASE UNCHANGED logsVars
  BY <1>12 DEF logsVars
<1> QED
  BY <1>1, <1>2, <1>3, <1>4, <1>5, <1>6, <1>7, <1>8, <1>9, <1>10, <1>11, <1>12 DEF LogsNext

\* Rows of a log that the administrator was told are cleared come back into the panel's
\* copy only by an answer that the clear has overtaken, however the reads of refreshChat,
\* refreshKills and refreshChatAuxChannel overlap.
THEOREM ClearedStays ==
  LogsSpec => []ClearedStaysCleared
<1>1. LogsInit => LogsInv
  BY LogsStart
<1>2. LogsInv /\ [LogsNext]_logsVars => LogsInv'
  BY LogsStep
<1>3. LogsInv => ClearedStaysCleared
  BY DEF LogsInv, ClearedStaysCleared
<1> QED
  BY <1>1, <1>2, <1>3, PTL DEF LogsSpec

\* What LogsTyped leaves out: the rows logged, and the state of the channels of their own.
AuxTyped ==
  /\ logged \in 0..LastRow
  /\ auxLoaded \in [Aux -> BOOLEAN] /\ auxLoading \in [Aux -> 0..ReadMax]

LEMMA AuxStep ==
  ASSUME LogsTyped, AuxTyped, [LogsNext]_logsVars
  PROVE  AuxTyped'
<1> USE LogsConstantsOK DEF AuxTyped, Read
<1>l. ASSUME NEW r \in Read, NEW l \in Log, LoadAux(r, l)
      PROVE  auxLoading' \in [Aux -> 0..ReadMax]
  BY <1>l DEF LoadAux
<1>1. ASSUME NEW l \in Log, LogRow(l) PROVE AuxTyped'
  BY <1>1 DEF LogRow, auxiliary
<1>2. ASSUME NEW r \in Read, NEW by \in {"chat", "alone"}, NEW l \in Log, RefreshLog(r, by, l)
      PROVE  AuxTyped'
  BY <1>2 DEF RefreshLog, auxiliary
<1>3. ASSUME NEW r \in Read, NEW l \in Log, ChooseChannel(r, l) PROVE AuxTyped'
  BY <1>3, <1>l DEF ChooseChannel
<1>4. ASSUME NEW r \in Read, ServeRead(r) PROVE AuxTyped'
  BY <1>4 DEF ServeRead, auxiliary
<1>5. ASSUME NEW r \in Read, ChatAnswered(r) PROVE AuxTyped'
  BY <1>5, <1>l DEF ChatAnswered, LogsTyped
<1>6. ASSUME NEW r \in Read, LogAnswered(r) \/ ReadFailed(r) PROVE AuxTyped'
  <2>1. auxLoading' \in [Aux -> 0..ReadMax]
    BY <1>6 DEF LogAnswered, ReadFailed, Released
  <2> QED
    BY <1>6, <2>1 DEF LogAnswered, ReadFailed
<1>7. ASSUME NEW by \in {"chat", "kills"}, NEW l \in Log, Clear(by, l) PROVE AuxTyped'
  BY <1>7 DEF Clear, auxiliary
<1>8. CASE ServeClear \/ ClearFailed \/ UNCHANGED logsVars
  BY <1>8 DEF ServeClear, ClearFailed, logsVars, auxiliary
<1>9. CASE ClearAnswered
  BY <1>9 DEF ClearAnswered, ResetLocalLogState
<1> QED
  BY <1>1, <1>2, <1>3, <1>4, <1>5, <1>6, <1>7, <1>8, <1>9 DEF LogsNext

LEMMA LogsTypes == LogsSpec => []LogsTypeOK
<1>1. LogsInit => AuxTyped
  BY LogsConstantsOK DEF LogsInit, AuxTyped
<1>2. LogsInv /\ AuxTyped /\ [LogsNext]_logsVars => AuxTyped'
  BY AuxStep DEF LogsInv
<1>3. LogsInv /\ [LogsNext]_logsVars => LogsInv'
  BY LogsStep
<1>4. LogsInv /\ AuxTyped => LogsTypeOK
  BY DEF LogsInv, LogsTyped, AuxTyped, LogsTypeOK, ReadRecord
<1> QED
  BY <1>1, <1>2, <1>3, <1>4, LogsStart, PTL DEF LogsSpec

---------------------------------------------------------------------------
(* The rules of the shop modules.                                          *)

\* A kept rule names its object in the field that is matched first, and its type once.
NormalForm ==
  /\ rule.ui = Missing /\ rule.mode \in Offered
  /\ Filled(ShownId(rule)) =>
       IF shop = "GameStores" /\ Filled(rule.product)
       THEN rule.product = ShownId(rule) ELSE rule.item = ShownId(rule)

ShopInv ==
  /\ shop \in {"GameStores", "Wargm"} /\ rule \in Rule /\ edited \in BOOLEAN
  /\ bySave /\ ~edited => NormalForm
  /\ order # NoOrder =>
       /\ ~edited
       /\ order.runtime \in Runtimes /\ order.id \in ObjectId
       /\ order.matched <=> /\ Filled(RuleId(order.runtime, rule))
                            /\ RuleId(order.runtime, rule) = order.id
       /\ order.gave \in IF order.matched THEN Answers(order.runtime, rule) ELSE {Nothing}

LEMMA ShopStart == ShopInit => ShopInv
  BY DEF ShopInit, ShopInv

LEMMA SavedIsNormal ==
  ASSUME shop \in {"GameStores", "Wargm"}, rule \in Rule, Save
  PROVE  rule' \in Rule /\ NormalForm'
<1> DEFINE x == ShownId(rule)
<1>1. /\ x = FirstFilled(rule.item, rule.object, rule.product)
      /\ rule.item \in Field /\ rule.object \in Field /\ rule.product \in Field
      /\ rule.mode \in Offered \cup {"ChangeFame"} /\ rule.ui \in {Missing, "Fame"}
      /\ rule.command \in BOOLEAN
  BY DEF ShownId, Rule
<1>2. x \in Field
  BY <1>1 DEF FirstFilled, Field
<1> DEFINE item == IF Filled(x) /\ ~(shop = "GameStores" /\ Filled(rule.product)) THEN x ELSE rule.item
           product == IF Filled(x) /\ shop = "GameStores" /\ Filled(rule.product) THEN x ELSE rule.product
           mode == IF ShownMode(rule) = "Fame" THEN "Fame" ELSE rule.mode
           command == IF ShownMode(rule) = "Fame" THEN FALSE ELSE rule.command
<1>3. KeptId(rule) = [rule EXCEPT !.item = item, !.product = product]
  BY DEF KeptId, Rule
<1>4. rule' = [item |-> item, object |-> rule.object, product |-> product,
               mode |-> mode, ui |-> Missing, command |-> command]
  <2>1. rule' = KeptMode(KeptId(rule))
    BY DEF Save
  <2>2. ShownMode(KeptId(rule)) = ShownMode(rule)
    BY <1>3 DEF ShownMode, Rule
  <2> QED
    BY <1>3, <2>1, <2>2 DEF KeptMode, Rule
<1>5. mode \in Offered /\ command \in BOOLEAN
  BY <1>1 DEF ShownMode, Offered
<1>6. item \in Field /\ product \in Field
  BY <1>1, <1>2
<1>7. ShownId(rule') = FirstFilled(item, rule.object, product)
  BY <1>4 DEF ShownId
<1>8. shop' = shop
  BY DEF Save
<1>9. Filled(ShownId(rule')) =>
        IF shop = "GameStores" /\ Filled(product) THEN product = ShownId(rule')
                                                  ELSE item = ShownId(rule')
  BY <1>1, <1>7 DEF FirstFilled, Filled
<1> HIDE DEF item, product, mode, command
<1> QED
  BY <1>1, <1>4, <1>5, <1>6, <1>8, <1>9 DEF NormalForm, Rule

LEMMA ShopStep ==
  ASSUME ShopInv, [ShopNext]_shopVars
  PROVE  ShopInv'
<1> USE DEF ShopInv
<1>c. ASSUME NEW r \in Rule, ChangeRule(r) PROVE ShopInv'
  BY <1>c DEF ChangeRule
<1>1. CASE AddRule
  <2>1. NewRule \in Rule
    BY DEF NewRule, Rule, Field, Offered
  <2> QED
    BY <1>1, <1>c, <2>1 DEF AddRule
<1>2. ASSUME NEW x \in ObjectId \cup {Blank}, EditId(x) PROVE ShopInv'
  <2>1. [rule EXCEPT !.item = x] \in Rule /\ [rule EXCEPT !.product = x] \in Rule
    BY DEF Rule, Field
  <2> QED
    BY <1>2, <1>c, <2>1 DEF EditId
<1>3. ASSUME NEW m \in Offered, SetMode(m) PROVE ShopInv'
  <2> DEFINE u == IF m = "Fame" THEN "Fame" ELSE Missing
  <2>1. [rule EXCEPT !.mode = m, !.ui = u] \in Rule
    BY DEF Rule
  <2> QED
    BY <1>3, <1>c, <2>1 DEF SetMode
<1>4. ASSUME NEW filled \in BOOLEAN, EditCommand(filled) PROVE ShopInv'
  <2>1. [rule EXCEPT !.command = filled] \in Rule
    BY DEF Rule
  <2> QED
    BY <1>4, <1>c, <2>1 DEF EditCommand
<1>5. CASE Save
  BY <1>5, SavedIsNormal DEF Save
<1>6. ASSUME NEW runtime \in Runtimes, NEW x \in ObjectId, Order(runtime, x) PROVE ShopInv'
  <2> DEFINE m == Filled(RuleId(runtime, rule)) /\ RuleId(runtime, rule) = x
  <2>1. PICK gave \in (IF m THEN Answers(runtime, rule) ELSE {Nothing}) :
          order' = [runtime |-> runtime, id |-> x, matched |-> m, gave |-> gave]
    BY <1>6 DEF Order
  <2>2. /\ order'.runtime = runtime /\ order'.id = x /\ order'.matched = m
        /\ order'.gave = gave
    BY <2>1
  <2>3. ~edited /\ UNCHANGED <<shop, rule, edited, bySave>>
    BY <1>6 DEF Order
  <2>4. NormalForm' <=> NormalForm
    BY <2>3 DEF NormalForm
  <2>5. order'.matched <=> m
    BY <2>2
  <2>6. order'.gave \in IF m THEN Answers(runtime, rule) ELSE {Nothing}
    BY <2>1, <2>2
  <2>7. /\ (RuleId(order.runtime, rule))' = RuleId(runtime, rule)
        /\ (Answers(order.runtime, rule))' = Answers(runtime, rule)
    BY <2>2, <2>3 DEF RuleId, Answers, AsItems
  <2> HIDE DEF m
  <2>8. (/\ Filled(RuleId(order.runtime, rule))
         /\ RuleId(order.runtime, rule) = order.id)' <=> m
    BY <2>2, <2>7 DEF m, Filled
  <2>9. (order.gave \in IF order.matched THEN Answers(order.runtime, rule) ELSE {Nothing})'
    BY <2>5, <2>6, <2>7
  <2> QED
    BY <2>2, <2>3, <2>4, <2>5, <2>8, <2>9
<1>7. CASE UNCHANGED shopVars
  BY <1>7 DEF shopVars, NormalForm, RuleId, Answers, AsItems
<1> QED
  BY <1>1, <1>2, <1>3, <1>4, <1>5, <1>6, <1>7 DEF ShopNext

\* A rule as normalizeWargmConfigForSave leaves it is matched and answered, by MatchRule
\* and BuildPendingRow of either program, as the panel shows it.
THEOREM ShownIsServed ==
  ShopSpec => []OrderGetsWhatIsShown
<1>1. ShopInit => ShopInv
  BY ShopStart
<1>2. ShopInv /\ [ShopNext]_shopVars => ShopInv'
  BY ShopStep
<1>3. ShopInv => OrderGetsWhatIsShown
  <2> SUFFICES ASSUME ShopInv, Served
               PROVE  /\ order.matched => order.id = ShownId(rule)
                      /\ order.id = ShownId(rule)
                           /\ ~(shop = "GameStores" /\ order.runtime = "panel")
                           => order.matched
                      /\ ShownMode(rule) \notin {"Vip", "CargoDropPlayer"}
                           => order.gave \in {ShownMode(rule), Nothing}
    BY DEF OrderGetsWhatIsShown
  <2>1. /\ NormalForm /\ Filled(order.id)
        /\ order.matched <=> /\ Filled(RuleId(order.runtime, rule))
                             /\ RuleId(order.runtime, rule) = order.id
        /\ order.gave \in IF order.matched THEN Answers(order.runtime, rule) ELSE {Nothing}
    BY ShopConstantsOK DEF ShopInv, Served, Filled
  <2>2. order.runtime \in {"panel", "native"} /\ shop \in {"GameStores", "Wargm"}
    BY DEF ShopInv, Served, Runtimes
  <2>3. Filled(RuleId(order.runtime, rule)) => RuleId(order.runtime, rule) = ShownId(rule)
    BY <2>1, <2>2 DEF NormalForm, RuleId, ShownId, FirstPresent, FirstFilled, Filled
  <2>4. Filled(ShownId(rule)) /\ ~(shop = "GameStores" /\ order.runtime = "panel")
          => Filled(RuleId(order.runtime, rule))
    BY <2>1, <2>2 DEF NormalForm, RuleId, ShownId, FirstPresent, FirstFilled, Filled
  <2>5. ShownMode(rule) = rule.mode
    BY <2>1 DEF NormalForm, ShownMode
  <2>6. rule.mode \notin {"Vip", "CargoDropPlayer"} =>
          Answers(order.runtime, rule) \subseteq {rule.mode, Nothing}
    BY <2>1 DEF Answers, AsItems, NormalForm, Offered
  <2> QED
    BY <2>1, <2>3, <2>4, <2>5, <2>6
<1> QED
  BY <1>1, <1>2, <1>3, PTL DEF ShopSpec

\* What ShopInv leaves out.
OrderTyped ==
  /\ bySave \in BOOLEAN
  /\ order \in [runtime : Runtimes, id : ObjectId \cup {Blank}, matched : BOOLEAN,
                gave : Offered \cup {Nothing}]

LEMMA NoOrderTyped ==
  NoOrder \in [runtime : Runtimes, id : ObjectId \cup {Blank}, matched : BOOLEAN,
               gave : Offered \cup {Nothing}]
  BY DEF NoOrder, Runtimes

LEMMA OrderStep ==
  ASSUME OrderTyped, [ShopNext]_shopVars
  PROVE  OrderTyped'
<1> USE DEF OrderTyped
<1>c. ASSUME NEW r, ChangeRule(r) PROVE OrderTyped'
  BY <1>c, NoOrderTyped DEF ChangeRule
<1>1. CASE AddRule \/ (\E x \in ObjectId \cup {Blank} : EditId(x))
             \/ (\E m \in Offered : SetMode(m)) \/ (\E filled \in BOOLEAN : EditCommand(filled))
  BY <1>1, <1>c DEF AddRule, EditId, SetMode, EditCommand
<1>2. CASE Save
  BY <1>2, NoOrderTyped DEF Save
<1>3. ASSUME NEW runtime \in Runtimes, NEW x \in ObjectId, Order(runtime, x) PROVE OrderTyped'
  <2> DEFINE m == Filled(RuleId(runtime, rule)) /\ RuleId(runtime, rule) = x
  <2>1. PICK gave \in (IF m THEN Answers(runtime, rule) ELSE {Nothing}) :
          order' = [runtime |-> runtime, id |-> x, matched |-> m, gave |-> gave]
    BY <1>3 DEF Order
  <2>2. Answers(runtime, rule) \subseteq Offered \cup {Nothing}
    BY DEF Answers, Offered
  <2>3. gave \in Offered \cup {Nothing}
    BY <2>1, <2>2
  <2>4. m \in BOOLEAN
    OBVIOUS
  <2> HIDE DEF m
  <2> QED
    BY <1>3, <2>1, <2>3, <2>4 DEF Order
<1>4. CASE UNCHANGED shopVars
  BY <1>4 DEF shopVars
<1> QED
  BY <1>1, <1>2, <1>3, <1>4 DEF ShopNext

LEMMA ShopTypes == ShopSpec => []ShopTypeOK
<1>1. ShopInit => OrderTyped
  BY NoOrderTyped DEF ShopInit, OrderTyped
<1>2. ShopInv /\ [ShopNext]_shopVars => ShopInv'
  BY ShopStep
<1>3. OrderTyped /\ [ShopNext]_shopVars => OrderTyped'
  BY OrderStep
<1>4. ShopInv /\ OrderTyped => ShopTypeOK
  BY DEF ShopInv, OrderTyped, ShopTypeOK
<1> QED
  BY <1>1, <1>2, <1>3, <1>4, ShopStart, PTL DEF ShopSpec

-----------------------------------------------------------------------------
(* The parts of the panel together.  They share no state, so a behaviour   *)
(* of all of them is one of each: what a part keeps alone, it keeps here.  *)

LEMMA PartsStart ==
  PanelInit => /\ part \in Part
               /\ TranslationInit /\ WelcomeInit /\ AliasesInit /\ ConfigInit /\ DialogInit /\ ModuleInit
               /\ DraftInit /\ FeedInit /\ LinesInit /\ LogsInit /\ ShopInit /\ CutInit
  BY DEF PanelInit

\* A step of one part is a step of that part, and of every other one a stutter.
LEMMA PartsStep ==
  ASSUME [PanelNext]_panelVars
  PROVE  /\ UNCHANGED part
         /\ [TranslationNext]_translation /\ [WelcomeNext]_welcome /\ [AliasesNext]_aliasVars
         /\ [ConfigNext]_config /\ [DialogNext]_dialogVars /\ [ModuleNext]_moduleVars
         /\ [DraftNext]_draftVars /\ [FeedNext]_feedVars /\ [LinesNext]_linesVars
         /\ [LogsNext]_logsVars /\ [ShopNext]_shopVars /\ [CutNext]_cutVars
<1>1. CASE UNCHANGED panelVars
  BY <1>1 DEF panelVars
<1>2. CASE Only("translation") /\ TranslationNext
  BY <1>2 DEF Only
<1>3. CASE Only("welcome") /\ WelcomeNext
  BY <1>3 DEF Only
<1>4. CASE Only("aliases") /\ AliasesNext
  BY <1>4 DEF Only
<1>5. CASE Only("configs") /\ ConfigNext
  BY <1>5 DEF Only
<1>6. CASE Only("dialog") /\ DialogNext
  BY <1>6 DEF Only
<1>7. CASE Only("modules") /\ ModuleNext
  BY <1>7 DEF Only
<1>8. CASE Only("draft") /\ DraftNext
  BY <1>8 DEF Only
<1>9. CASE Only("kills") /\ FeedNext
  BY <1>9 DEF Only
<1>10. CASE Only("lines") /\ LinesNext
  BY <1>10 DEF Only
<1>11. CASE Only("logs") /\ LogsNext
  BY <1>11 DEF Only
<1>12. CASE Only("shop") /\ ShopNext
  BY <1>12 DEF Only
<1>13. CASE Only("cut") /\ CutNext
  BY <1>13 DEF Only
<1> QED
  BY <1>1, <1>2, <1>3, <1>4, <1>5, <1>6, <1>7, <1>8, <1>9, <1>10, <1>11, <1>12, <1>13 DEF PanelNext

LEMMA PartsRun ==
  PanelSpec => /\ [](part \in Part)
               /\ TranslationSteps /\ WelcomeSpec /\ AliasesSpec /\ ConfigSpec /\ DialogSpec /\ ModuleSpec
               /\ DraftSpec /\ FeedSpec /\ LinesSpec /\ LogsSpec /\ ShopSpec /\ CutSpec
<1>1. PanelInit => /\ TranslationInit /\ WelcomeInit /\ AliasesInit /\ ConfigInit /\ DialogInit /\ ModuleInit
                   /\ DraftInit /\ FeedInit /\ LinesInit /\ LogsInit /\ ShopInit /\ CutInit
  BY PartsStart
<1>2. [PanelNext]_panelVars =>
        /\ [TranslationNext]_translation /\ [WelcomeNext]_welcome /\ [AliasesNext]_aliasVars
        /\ [ConfigNext]_config /\ [DialogNext]_dialogVars /\ [ModuleNext]_moduleVars
        /\ [DraftNext]_draftVars /\ [FeedNext]_feedVars /\ [LinesNext]_linesVars
        /\ [LogsNext]_logsVars /\ [ShopNext]_shopVars /\ [CutNext]_cutVars
  BY PartsStep
<1>3. PanelInit => part \in Part
  BY PartsStart
<1>4. part \in Part /\ [PanelNext]_panelVars => (part \in Part)'
  BY PartsStep
<1>5. PanelSpec => [](part \in Part)
  BY <1>3, <1>4, PTL DEF PanelSpec
<1>6. PanelSpec => TranslationSteps /\ WelcomeSpec /\ AliasesSpec
  BY <1>1, <1>2, PTL DEF PanelSpec, TranslationSteps, WelcomeSpec, AliasesSpec
<1>7. PanelSpec => ConfigSpec /\ DialogSpec /\ ModuleSpec
  BY <1>1, <1>2, PTL DEF PanelSpec, ConfigSpec, DialogSpec, ModuleSpec
<1>8. PanelSpec => DraftSpec /\ FeedSpec /\ LinesSpec
  BY <1>1, <1>2, PTL DEF PanelSpec, DraftSpec, FeedSpec, LinesSpec
<1>9. PanelSpec => LogsSpec /\ ShopSpec /\ CutSpec
  BY <1>1, <1>2, PTL DEF PanelSpec, LogsSpec, ShopSpec, CutSpec
<1> QED
  BY <1>5, <1>6, <1>7, <1>8, <1>9

\* Every part of the panel keeps its types in every state: whatever its requests, answers
\* and timers do, for any bounds, and for an administrator who waits for nothing.
THEOREM PanelTyped == PanelSpec => []PanelTypeOK
<1>1. PanelSpec =>
        /\ []TranslationTypeOK /\ []WelcomeTypeOK /\ []AliasTypeOK /\ []ConfigTypeOK /\ []DialogTypeOK
        /\ []ModuleTypeOK /\ []DraftTypeOK /\ []FeedTypeOK /\ []LinesTypeOK /\ []LogsTypeOK
        /\ []ShopTypeOK /\ []CutTypeOK
  BY PartsRun, TranslationTypes, WelcomeTypes, AliasTypes, ConfigTypes, DialogTypes, ModuleTypes,
     DraftTypes, FeedTypes, LinesTypes, LogsTypes, ShopTypes, CutTypes
<1>2. /\ part \in Part
      /\ TranslationTypeOK /\ WelcomeTypeOK /\ AliasTypeOK /\ ConfigTypeOK /\ DialogTypeOK
      /\ ModuleTypeOK /\ DraftTypeOK /\ FeedTypeOK /\ LinesTypeOK /\ LogsTypeOK /\ ShopTypeOK /\ CutTypeOK
      => PanelTypeOK
  BY Zenon DEF PanelTypeOK, Part
<1> QED
  BY <1>1, <1>2, PartsRun, PTL

\* What the run checks of all the parts holds of any instance of them, whatever the
\* administrator does while requests are under way: no module gets another one's
\* settings, no dialog shows or names another player, no log, kill, order or line is
\* shown or changed but as the server has it.
THEOREM PanelIsSafe ==
  PanelSpec =>
    /\ [](/\ EnglishIsComplete /\ ActionsReachTitled /\ DeletesOwnItems /\ GivenIsNotOffered
          /\ NoForeignConfig /\ OneEventPerKill /\ StatsAreTrue /\ ClearedStaysCleared
          /\ CheckedIsCalled /\ OrderGetsWhatIsShown /\ WholeRowsAreSaved)
    /\ NoLineLost
<1>1. PanelSpec =>
        /\ []EnglishIsComplete /\ []ActionsReachTitled /\ []DeletesOwnItems /\ []GivenIsNotOffered
        /\ []NoForeignConfig /\ []OneEventPerKill /\ []StatsAreTrue /\ []ClearedStaysCleared
        /\ []CheckedIsCalled /\ []OrderGetsWhatIsShown /\ []WholeRowsAreSaved /\ NoLineLost
  BY PartsRun, EnglishAlways, ActionsReach, DeletesOwn, PackIsGivenOnce, ConfigsStayOwn, KillsAreShownOnce,
     StatsAreRight, ClearedStays, CheckedWordsCall, ShownIsServed, RowsAreSaved, LinesAreKept
<1> QED
  BY <1>1, PTL

\* What the two editors do with the edits of an administrator who waits for the requests
\* under way before he acts again: the panel does not make him wait, and without it none
\* of the three holds.
COROLLARY EditsAreSafe ==
  ASSUME Waits
  PROVE  PanelSpec => [](NoLostUpdate /\ IndexKeepsItsRow /\ RowsAppearOnce)
<1>1. PanelSpec => []NoLostUpdate /\ []IndexKeepsItsRow /\ []RowsAppearOnce
  BY PartsRun, SavesWhatWasSeen, IndicesKeepRows, RowsStaySingle
<1> QED
  BY <1>1, PTL
=============================================================================
