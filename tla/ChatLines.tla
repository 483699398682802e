------------------------------ MODULE ChatLines ------------------------------
(***************************************************************************)
(* The editor of the chat answers /help and /info in the web panel: the    *)
(* lines of a text, added one by one or as a block, pasted over a line,    *)
(* moved, retyped and removed, under a limit that is itself a field of the *)
(* same draft, and the check of the whole draft before it is saved.        *)
(*                                                                         *)
(* A line is a number, fresh for every line typed or pasted; EmptyLine is  *)
(* one that the normalisation drops.  Bytes per line are left out.         *)
(***************************************************************************)
EXTENDS Naturals, Sequences, SequencesExt, FiniteSets, FiniteSetsExt

CONSTANTS
  LastLine,           \* bound: lines ever entered
  PasteMax,           \* bound: lines of one pasted block
  Limits              \* the values of MaxLines; out of range they are pulled into it

EmptyLine == 0
ASSUME LinesConstantsOK == LastLine \in Nat /\ PasteMax \in Nat /\ Limits \subseteq Nat

VARIABLES
  lines,              \* the text of the draft, one line per message
  maxLines,           \* the field MaxLines of the draft
  entered,            \* lines entered so far
  saved,              \* the text and the limit the server keeps
  gone                \* the lines the last step was to take away (history)

linesVars == <<lines, maxLines, entered, saved, gone>>

Line == 1..LastLine
LinesTypeOK ==
  /\ lines \in Seq(Line) /\ maxLines \in Limits /\ entered \in 0..LastLine
  /\ saved \in [lines : Seq(Line), limit : Limits]
  /\ gone \subseteq Line

\* Mutant: empty lines are kept.
KeepAllLines(s) == s

\* normalizeChatLines: the loop over the lines, of which those that are not empty are pushed.
NormalizeChatLines(s) ==
  LET kept[i \in 0..Len(s)] ==
        IF i = 0 THEN <<>>
        ELSE IF s[i] = EmptyLine THEN kept[i - 1] ELSE Append(kept[i - 1], s[i])
  IN  kept[Len(s)]
\* chatLineEditorLimits and the range that chatResponseInteger accepts
MaxOf(n) == Max({1, Min({n, 40})})
InRange(n) == n \in 1..40

\* A stored text may be longer than its limit: the server checks neither.
LinesInit ==
  /\ entered \in 0..LastLine
  /\ lines = [i \in 1..entered |-> i]
  /\ maxLines \in Limits
  /\ saved = [lines |-> lines, limit |-> maxLines]
  /\ gone = {}

\* What the administrator types or pastes: fresh lines with empty ones among them.
Incoming ==
  {s \in UNION {[1..n -> {EmptyLine} \cup (entered + 1)..LastLine] : n \in 1..PasteMax} :
     NormalizeChatLines(s) = [i \in 1..Len(NormalizeChatLines(s)) |-> entered + i]}

\* appendChatLinesForEditor: the line pasted over is taken out, and as many
\* candidates as fit go to the end.
Kept(index) == IF index \in DOMAIN lines THEN RemoveAt(lines, index) ELSE lines
\* Mutant: the line pasted over still takes its place.
AvailableBeside(index) == Max({0, MaxOf(maxLines) - Len(lines)})

Available(index) == Max({0, MaxOf(maxLines) - Len(Kept(index))})
AppendChatLines(incoming, index) ==
  LET candidates == NormalizeChatLines(incoming)
      n == Min({Available(index), Len(candidates)})
  IN  /\ candidates # <<>>
      /\ lines' = Kept(index) \o SubSeq(candidates, 1, n)
      /\ entered' = entered + Len(candidates)
      /\ gone' = Range(lines) \ Range(Kept(index))
      /\ UNCHANGED <<maxLines, saved>>

\* syncChatLinesEditorInput: a row that is emptied disappears.
Retype(i, text) ==
  /\ text = EmptyLine \/ entered < LastLine
  /\ lines' = NormalizeChatLines([lines EXCEPT ![i] = IF text = EmptyLine THEN EmptyLine ELSE entered + 1])
  /\ entered' = IF text = EmptyLine THEN entered ELSE entered + 1
  /\ gone' = {lines[i]}
  /\ UNCHANGED <<maxLines, saved>>

\* The buttons of handleChatLinesEditorClick
RemoveLine(i) ==
  /\ lines' = RemoveAt(lines, i) /\ gone' = {lines[i]}
  /\ UNCHANGED <<maxLines, entered, saved>>
MoveLine(i, j) ==
  /\ j \in DOMAIN lines /\ (j = i + 1 \/ i = j + 1)
  /\ lines' = [lines EXCEPT ![i] = lines[j], ![j] = lines[i]] /\ gone' = {}
  /\ UNCHANGED <<maxLines, entered, saved>>

SetLimit(n) ==
  /\ maxLines' = n /\ gone' = {}
  /\ UNCHANGED <<lines, entered, saved>>

\* validateChatResponseDraft, and the verified save of the module.
SaveLines ==
  /\ InRange(maxLines) /\ Len(lines) <= maxLines
  /\ saved' = [lines |-> lines, limit |-> maxLines] /\ gone' = {}
  /\ UNCHANGED <<lines, maxLines, entered>>

LinesNext ==
  \/ \E incoming \in Incoming : AppendChatLines(incoming, 0)
  \/ \E i \in DOMAIN lines :
       \/ \E incoming \in Incoming : AppendChatLines(incoming, i)
       \/ \E text \in Line \cup {EmptyLine} : Retype(i, text)
       \/ RemoveLine(i)
       \/ \E j \in {i - 1, i + 1} : MoveLine(i, j)
  \/ \E n \in Limits : SetLimit(n)
  \/ SaveLines

LinesSpec == LinesInit /\ [][LinesNext]_linesVars

\* No step loses a line but the one it was asked to take away, and a block pasted
\* over a line puts at least one line in its place while the text keeps to its
\* limit: a line is never deleted to make room for nothing.
NoLineLost ==
  [][/\ Range(lines) \ Range(lines') \subseteq gone'
     /\ entered' # entered /\ Len(lines) <= MaxOf(maxLines) => Len(lines') >= Len(lines)]_linesVars
=============================================================================
