--------------------------- MODULE CommandAliases ---------------------------
(***************************************************************************)
(* The words that call the players' commands: edited and normalised in the *)
(* web panel, checked for conflicts by the panel's server (the native      *)
(* server saves without a check) or written by hand, and loaded by the Lua *)
(* bridge when the game starts.  Each of the three programs reads the      *)
(* words by rules of its own.                                              *)
(*                                                                         *)
(* An alias is a word and what is written before it.  The order of a list  *)
(* of aliases is left out: it decides only which of them the help shows.   *)
(***************************************************************************)
EXTENDS Naturals, FiniteSets

CONSTANTS
  LastCommand,               \* commands 1..LastCommand, in PLAYER_COMMAND_ALIAS_ORDER
  Word,
  Default,            \* Default[c]: the words that the programs come with
  ListMax             \* bound: aliases in a list

ASSUME AliasConstantsOK ==
  /\ {LastCommand, ListMax} \subseteq Nat
  /\ Default \in [1..LastCommand -> SUBSET Word]
  /\ \A c, d \in 1..LastCommand : c # d => Default[c] \cap Default[d] = {}
  /\ \A c \in 1..LastCommand : IsFiniteSet(Default[c]) /\ Cardinality(Default[c]) <= ListMax

VARIABLES
  words,              \* the configuration: the panel's draft, or what the server keeps
  stage,              \* draft, kept (by the server), running (loaded when the game started)
  checked             \* kept by a save that the panel's server checked (history)

aliasVars == <<words, stage, checked>>

Command == 1..LastCommand
\* "//" stands for every longer run of the two signs that begins with a slash.
Alias == [sign : {"", "/", "!", "//"}, word : Word]
WithSign(sign, set) == {[sign |-> sign, word |-> w] : w \in set}

AliasTypeOK ==
  /\ words.enabled \in BOOLEAN /\ words.bang \in BOOLEAN
  /\ words.list \in [Command -> SUBSET Alias]
  /\ \A c \in Command : Cardinality(words.list[c]) <= ListMax
  /\ stage \in {"draft", "kept", "running"} /\ checked \in BOOLEAN

\* normalizeCommandAliasToken of the panel, NormalizePlayerCommandAlias of its server,
\* normalizePlayerCommandAlias of the bridge.
PanelAlias(a) == [sign |-> IF a.sign = "!" THEN "!" ELSE "", word |-> a.word]
ServerAlias(a) == [sign |-> IF a.sign = "" THEN "/" ELSE a.sign, word |-> a.word]
BridgeAlias(a) == [sign |-> IF a.sign = "!" THEN "!" ELSE "/", word |-> a.word]

\* Every alias with a slash is known with an exclamation mark too.
WithBang(set, bang) ==
  set \cup (IF bang THEN WithSign("!", {a.word : a \in {b \in set : b.sign # "!"}}) ELSE {})
DefaultAliases(c) == WithBang(WithSign("/", Default[c]), TRUE)

\* Mutant: the server's check knows no exclamation marks that are not written.
ServerReadsWritten(w, c) ==
  LET set == {ServerAlias(a) : a \in w.list[c]}
  IN  IF set = {} THEN DefaultAliases(c) ELSE set

\* ReadConfiguredPlayerCommandAliases and ValidatePlayerCommandAliases: an empty list
\* leaves the defaults, and no alias may belong to two commands.
ServerReads(w, c) ==
  LET set == WithBang({ServerAlias(a) : a \in w.list[c]}, w.bang)
  IN  IF set = {} THEN DefaultAliases(c) ELSE set
ServerAccepts(w) ==
  w.enabled => \A c, d \in Command : c # d => ServerReads(w, c) \cap ServerReads(w, d) = {}

\* loadPlayerCommandAliases, then enforceUniquePlayerCommandAliases: the first command
\* in the order owns an alias.
BridgeReads(w, c) ==
  LET set == WithBang({BridgeAlias(a) : a \in w.list[c]}, w.bang)
  IN  IF set = {} \/ ~w.enabled THEN DefaultAliases(c) ELSE set
Owned(w, c) == BridgeReads(w, c) \ UNION {BridgeReads(w, d) : d \in 1..(c - 1)}

\* playerCommandAliases: the aliases the game has started with.
Calls(c) == Owned(words, c)

AliasesInit ==
  /\ words = [enabled |-> TRUE, bang |-> TRUE,
              list |-> [c \in Command |-> WithSign("", Default[c])]]
  /\ stage = "kept" /\ checked = FALSE

Change(w) ==
  /\ \A c \in Command : Cardinality(w.list[c]) <= ListMax
  /\ words' = w /\ checked' = FALSE
Toggled(set, a) == IF a \in set THEN set \ {a} ELSE set \cup {a}
Changed ==
  \/ Change([words EXCEPT !.enabled = ~@])
  \/ Change([words EXCEPT !.bang = ~@])
  \/ \E c \in Command, a \in Alias : Change([words EXCEPT !.list[c] = Toggled(@, a)])

\* A field of the panel's draft, or a line of the file.
Edit ==
  /\ Changed
  /\ stage' = "draft"
EditFile ==
  /\ stage # "draft"
  /\ Changed
  /\ stage' = "kept"

\* saveSelectedModule: the normalised configuration replaces the draft, also when the
\* server then refuses it.
Normalized ==
  [enabled |-> words.enabled, bang |-> words.bang,
   list |-> [c \in Command |-> {PanelAlias(a) : a \in words.list[c]}]]
SaveByPanelServer ==
  /\ stage = "draft"
  /\ words' = Normalized
  /\ IF ServerAccepts(Normalized) THEN stage' = "kept" /\ checked' = TRUE
                                  ELSE UNCHANGED <<stage, checked>>
SaveByNativeServer ==
  /\ stage = "draft"
  /\ words' = Normalized
  /\ stage' = "kept" /\ UNCHANGED checked

\* The switch of the module list turns a module off, without the check.
TurnOff ==
  /\ stage # "draft"
  /\ words' = [words EXCEPT !.enabled = FALSE]
  /\ stage' = "kept" /\ UNCHANGED checked

GameStarts ==
  /\ stage = "kept" /\ stage' = "running"
  /\ UNCHANGED <<words, checked>>

AliasesNext ==
  \/ Edit \/ EditFile
  \/ SaveByPanelServer \/ SaveByNativeServer
  \/ TurnOff
  \/ GameStarts

AliasesSpec == AliasesInit /\ [][AliasesNext]_aliasVars

-----------------------------------------------------------------------------
\* What the panel shows of a command: the words of its list, or the default words when
\* the list is empty or the module is off; with a slash unless an exclamation mark is
\* written, and with both when the switch for exclamation marks is on.
Shown(c) ==
  LET list == words.list[c]
      slash == {a.word : a \in {b \in list : b.sign # "!"}}
      bang == {a.word : a \in {b \in list : b.sign = "!"}}
  IN  IF list = {} \/ ~words.enabled
      THEN WithSign("/", Default[c]) \cup WithSign("!", Default[c])
      ELSE WithSign("/", slash) \cup WithSign("!", IF words.bang THEN bang \cup slash ELSE bang)

\* A configuration that the panel's server has checked means to the bridge what it
\* meant to the server and to the panel: every word that the panel shows calls its own
\* command, and none is dropped when the game starts.
CheckedIsCalled == stage = "running" /\ checked => \A c \in Command : Calls(c) = Shown(c)

\* Whatever the file holds, a word calls one command, the first in the order that
\* claims it, and no claimed word is without a command.
OneCommandPerWord ==
  stage = "running" =>
    \A c \in Command : \A a \in Shown(c) :
      \E d \in 1..c : a \in Calls(d) /\ \A e \in Command \ {d} : a \notin Calls(e)
=============================================================================
