------------------------------ MODULE CutAnswer ------------------------------
(***************************************************************************)
(* What the web panel saves of an answer with kills that was cut on its    *)
(* way: an answer that is not JSON any more is searched for whole rows.    *)
(*                                                                         *)
(* The answer is written token by token, as JSON writes a list of rows; a  *)
(* row is an object that may hold objects and strings, and a string any    *)
(* character, quotes and backslashes escaped.  "x" stands for everything   *)
(* that is neither a brace nor a quote nor a backslash.  What stands       *)
(* before the list, up to "data":[, is skipped and is left out.            *)
(***************************************************************************)
EXTENDS Naturals, Sequences

CONSTANTS LastToken, DepthMax       \* bounds: tokens of an answer, objects in objects

ASSUME CutConstantsOK == {LastToken, DepthMax} \subseteq Nat

VARIABLES
  answer,             \* the part of the answer that has arrived
  depth,              \* the writer: objects that are open,
  quoted, escaped,    \* in a string, after a backslash
  rows                \* the places <<first, last>> of the rows that are whole

cutVars == <<answer, depth, quoted, escaped, rows>>

Token == {"lbrace", "rbrace", "quote", "backslash", "x"}

CutTypeOK ==
  /\ answer \in Seq(Token) /\ Len(answer) <= LastToken
  /\ depth \in 0..DepthMax /\ quoted \in BOOLEAN /\ escaped \in BOOLEAN
  /\ rows \in Seq((1..LastToken) \X (1..LastToken))

CutInit ==
  /\ answer = <<>> /\ depth = 0 /\ quoted = FALSE /\ escaped = FALSE /\ rows = <<>>

-----------------------------------------------------------------------------
(* The writer. *)

FirstOfRow == CHOOSE i \in 1..Len(answer) :
  /\ answer[i] = "lbrace"
  /\ \A j \in 1..Len(rows) : rows[j][2] < i
  /\ \A k \in 1..(i - 1) : answer[k] = "lbrace" => \E j \in 1..Len(rows) : k <= rows[j][2]

Write(t) == Len(answer) < LastToken /\ answer' = Append(answer, t)

Open ==
  /\ ~quoted /\ depth < DepthMax
  /\ Write("lbrace") /\ depth' = depth + 1
  /\ UNCHANGED <<quoted, escaped, rows>>
Close ==
  /\ ~quoted /\ depth > 0
  /\ Write("rbrace") /\ depth' = depth - 1
  /\ rows' = IF depth = 1 THEN Append(rows, <<FirstOfRow, Len(answer) + 1>>) ELSE rows
  /\ UNCHANGED <<quoted, escaped>>
Quote ==
  /\ depth > 0 /\ ~escaped
  /\ Write("quote") /\ quoted' = ~quoted
  /\ UNCHANGED <<depth, escaped, rows>>
Escape ==
  /\ quoted /\ ~escaped
  /\ Write("backslash") /\ escaped' = TRUE
  /\ UNCHANGED <<depth, quoted, rows>>
Escaped(t) ==
  /\ escaped /\ t \in {"quote", "backslash", "x"}
  /\ Write(t) /\ escaped' = FALSE
  /\ UNCHANGED <<depth, quoted, rows>>
Other(t) ==
  /\ ~escaped /\ t \in {"x"} \cup (IF quoted THEN {"lbrace", "rbrace"} ELSE {})
  /\ Write(t)
  /\ UNCHANGED <<depth, quoted, escaped, rows>>

CutNext ==
  \/ Open \/ Close \/ Quote \/ Escape
  \/ \E t \in Token : Escaped(t) \/ Other(t)

CutSpec == CutInit /\ [][CutNext]_cutVars

-----------------------------------------------------------------------------
(* The panel. *)

\* The loop of findJsonObjectEnd: where it is, and its three variables.
ScanState == [at : Nat, open : Nat, inString : BOOLEAN, esc : BOOLEAN]
ScanFrom(i) == [at |-> i, open |-> 0, inString |-> FALSE, esc |-> FALSE]

\* Mutant: a backslash in a string does not hide the quote behind it.
AfterUnescaped(s, t) ==
  IF s.inString THEN [s EXCEPT !.at = @ + 1, !.inString = (t # "quote")]
  ELSE [s EXCEPT !.at = @ + 1, !.inString = (t = "quote"),
                 !.open = IF t = "lbrace" THEN @ + 1 ELSE IF t = "rbrace" THEN @ - 1 ELSE @]

\* One turn, for a character that does not end the loop.
After(s, t) ==
  IF s.inString
  THEN [s EXCEPT !.at = @ + 1, !.inString = (s.esc \/ t # "quote"), !.esc = (~s.esc /\ t = "backslash")]
  ELSE [s EXCEPT !.at = @ + 1, !.inString = (t = "quote"),
                 !.open = IF t = "lbrace" THEN @ + 1 ELSE IF t = "rbrace" THEN @ - 1 ELSE @]
Ends(s, t) == ~s.inString /\ t = "rbrace" /\ s.open <= 1

\* findJsonObjectEnd: the brace that closes the one at start, or 0.
ObjectEnd(text, start) ==
  LET scan[s \in {x \in ScanState : x.at <= Len(text) + 1}] ==
        IF s.at > Len(text) THEN 0
        ELSE IF Ends(s, text[s.at]) THEN (IF s.open = 1 THEN s.at ELSE 0)
        ELSE scan[After(s, text[s.at])]
  IN  scan[ScanFrom(start)]

\* salvageJsonObjects: the places of the objects it finds.  All of them parse: a cut
\* answer has no fault but its end.
Salvaged(text) ==
  LET from[cursor \in 1..(Len(text) + 1)] ==
        LET starts == {i \in cursor..Len(text) : text[i] = "lbrace"}
            start == CHOOSE i \in starts : \A j \in starts : i <= j
        IN  IF starts = {} THEN <<>>
            ELSE LET end == ObjectEnd(text, start)
                 IN  IF end = 0 THEN <<>> ELSE <<<<start, end>>>> \o from[end + 1]
  IN  from[1]

\* Wherever the answer is cut, the panel saves exactly the rows that arrived whole, in
\* their order: braces and quotes inside names do not end a row, nor begin one.
WholeRowsAreSaved == Salvaged(answer) = rows
=============================================================================
