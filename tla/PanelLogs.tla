------------------------------ MODULE PanelLogs ------------------------------
(***************************************************************************)
(* The chat and kill pages of the web panel: its copies of the project's   *)
(* three logs, read by the refresh button, a timer and the choice of a     *)
(* channel, which share one read per channel, and the button that clears a *)
(* log on the server and then the panel's copy.                            *)
(***************************************************************************)
EXTENDS Naturals, FiniteSets

CONSTANTS
  Aux,                \* the logs that are channels of their own: kills, and action-log
  LastRow,            \* bound: rows ever logged
  ReadMax             \* bound: reads under way

ASSUME LogsConstantsOK ==
  "kills" \in Aux /\ Aux \subseteq {"kills", "action-log"} /\ {LastRow, ReadMax} \subseteq Nat

VARIABLES
  server,             \* the rows of each log on the server
  logged,             \* rows logged so far
  channel,            \* chatChannel
  copies,             \* state.chat, state.kills and state.actionLog
  auxLoaded,          \* state.chatAuxLoaded
  auxLoading,         \* the read of state.chatAuxLoading, or 0
  reads,              \* the reads under way
  clearing,           \* the log being cleared, and what the server has removed of it
  told,               \* rows the administrator was told are gone (history)
  raced               \* logs whose copy is of a read that a clear overtook (history)

auxiliary == <<auxLoaded, auxLoading>>
logsVars == <<server, logged, channel, copies, auxiliary, reads, clearing, told, raced>>

Log == {"chat"} \cup Aux
Row == 1..LastRow
Read == 1..ReadMax
NoRead == [stage |-> "none", by |-> "alone", log |-> "chat", rows |-> {}, overtaken |-> FALSE]
NoClear == [stage |-> "none", by |-> "chat", log |-> "chat", rows |-> {}]

LogsTypeOK ==
  /\ server \in [Log -> SUBSET Row] /\ logged \in 0..LastRow
  /\ channel \in Log /\ copies \in [Log -> SUBSET Row]
  /\ auxLoaded \in [Aux -> BOOLEAN] /\ auxLoading \in [Aux -> 0..ReadMax]
  /\ \A r \in Read : /\ reads[r].stage \in {"none", "sent", "served"}
                     /\ reads[r].by \in {"alone", "chat", "channel"} /\ reads[r].log \in Log
  /\ clearing.stage \in {"none", "sent", "served"} /\ clearing.log \in Log
  /\ told \in [Log -> SUBSET Row] /\ raced \subseteq Log

LogsInit ==
  /\ server = [l \in Log |-> {}] /\ logged = 0
  /\ channel = "chat" /\ copies = server
  /\ auxLoaded = [l \in Aux |-> FALSE] /\ auxLoading = [l \in Aux |-> 0]
  /\ reads = [r \in Read |-> NoRead]
  /\ clearing = NoClear
  /\ told = server /\ raced = {}

LogRow(l) ==
  /\ logged < LastRow
  /\ logged' = logged + 1
  /\ server' = [server EXCEPT ![l] = @ \cup {logged'}]
  /\ UNCHANGED <<channel, copies, auxiliary, reads, clearing, told, raced>>

Sent(by, l) == [NoRead EXCEPT !.stage = "sent", !.by = by, !.log = l]

\* refreshChat, by its button or the timer; and the reads that nobody shares: refreshKills
\* of the kill page, and those of all three logs that loadPlayerStats makes for a profile.
RefreshLog(r, by, l) ==
  /\ by = "chat" => l = "chat"
  /\ reads[r].stage = "none"
  /\ reads' = [reads EXCEPT ![r] = Sent(by, l)]
  /\ UNCHANGED <<server, logged, channel, copies, auxiliary, clearing, told, raced>>

\* refreshChatAuxChannel, with a free read r: who asks while a read is under way
\* waits for that one.
LoadAux(r, l) ==
  IF l \in Aux /\ auxLoading[l] = 0
  THEN reads' = [reads EXCEPT ![r] = Sent("channel", l)] /\ auxLoading' = [auxLoading EXCEPT ![l] = r]
  ELSE reads' = [reads EXCEPT ![r] = NoRead] /\ UNCHANGED auxLoading
ChooseChannel(r, l) ==
  /\ l # channel /\ reads[r].stage = "none"
  /\ channel' = l
  /\ IF l \in Aux /\ auxLoaded[l] THEN UNCHANGED <<reads, auxLoading>> ELSE LoadAux(r, l)
  /\ UNCHANGED <<server, logged, copies, auxLoaded, clearing, told, raced>>

ServeRead(r) ==
  /\ reads[r].stage = "sent"
  /\ reads' = [reads EXCEPT ![r].stage = "served", ![r].rows = server[reads[r].log]]
  /\ UNCHANGED <<server, logged, channel, copies, auxiliary, clearing, told, raced>>

Copied(r) ==
  /\ copies' = [copies EXCEPT ![reads[r].log] = reads[r].rows]
  /\ raced' = IF reads[r].overtaken THEN raced \cup {reads[r].log} ELSE raced \ {reads[r].log}
\* The chat is followed by the channel chosen by now.
ChatAnswered(r) ==
  /\ reads[r].stage = "served" /\ reads[r].by = "chat"
  /\ Copied(r) /\ LoadAux(r, channel)
  /\ UNCHANGED <<server, logged, channel, auxLoaded, clearing, told>>
\* The end of a read forgets the one that state.chatAuxLoading holds, be it another.
Released(r) ==
  /\ auxLoading' = IF reads[r].by = "channel" THEN [auxLoading EXCEPT ![reads[r].log] = 0] ELSE auxLoading
  /\ reads' = [reads EXCEPT ![r] = NoRead]
LogAnswered(r) ==
  /\ reads[r].stage = "served" /\ reads[r].by # "chat"
  /\ Copied(r) /\ Released(r)
  /\ auxLoaded' = IF reads[r].by = "channel" THEN [auxLoaded EXCEPT ![reads[r].log] = TRUE] ELSE auxLoaded
  /\ UNCHANGED <<server, logged, channel, clearing, told>>
ReadFailed(r) ==
  /\ reads[r].stage = "sent" /\ Released(r)
  /\ UNCHANGED <<server, logged, channel, copies, auxLoaded, clearing, told, raced>>

\* logClearTargetForChatChannel names the log of the channel; the kill page has its own button.
Clear(by, l) ==
  /\ clearing.stage = "none"
  /\ \/ by = "chat" /\ l = channel
     \/ by = "kills" /\ l = "kills"
  /\ clearing' = [NoClear EXCEPT !.stage = "sent", !.by = by, !.log = l]
  /\ UNCHANGED <<server, logged, channel, copies, auxiliary, reads, told, raced>>
ServeClear ==
  /\ clearing.stage = "sent"
  /\ clearing' = [clearing EXCEPT !.stage = "served", !.rows = server[clearing.log]]
  /\ server' = [server EXCEPT ![clearing.log] = {}]
  /\ UNCHANGED <<logged, channel, copies, auxiliary, reads, told, raced>>
\* Mutant: the copy of the log is left.
KeepLocalLogState(l) ==
  /\ UNCHANGED copies
  /\ auxLoaded' = IF l \in Aux THEN [auxLoaded EXCEPT ![l] = TRUE] ELSE auxLoaded

\* resetLocalLogState; the button of the chat page also forgets the reads under way.
ResetLocalLogState(l) ==
  /\ copies' = [copies EXCEPT ![l] = {}]
  /\ auxLoaded' = IF l \in Aux THEN [auxLoaded EXCEPT ![l] = TRUE] ELSE auxLoaded
ClearAnswered ==
  /\ clearing.stage = "served"
  /\ ResetLocalLogState(clearing.log)
  /\ auxLoading' = IF clearing.by = "chat" THEN [l \in Aux |-> 0] ELSE auxLoading
  /\ told' = [told EXCEPT ![clearing.log] = @ \cup clearing.rows]
  /\ reads' = [r \in Read |-> [reads[r] EXCEPT !.overtaken =
                 @ \/ (reads[r].stage = "served" /\ reads[r].log = clearing.log)]]
  /\ raced' = raced \ {clearing.log}
  /\ clearing' = NoClear
  /\ UNCHANGED <<server, logged, channel>>
ClearFailed ==
  /\ clearing.stage \in {"sent", "served"}
  /\ clearing' = NoClear
  /\ UNCHANGED <<server, logged, channel, copies, auxiliary, reads, told, raced>>

LogsNext ==
  \/ \E l \in Log : LogRow(l)
  \/ \E r \in Read : \/ \E by \in {"chat", "alone"}, l \in Log : RefreshLog(r, by, l)
                     \/ \E l \in Log : ChooseChannel(r, l)
                     \/ ServeRead(r) \/ ChatAnswered(r) \/ LogAnswered(r) \/ ReadFailed(r)
  \/ \E by \in {"chat", "kills"}, l \in Log : Clear(by, l)
  \/ ServeClear \/ ClearAnswered \/ ClearFailed

LogsSpec == LogsInit /\ [][LogsNext]_logsVars

\* Rows the administrator was told are cleared come back only through a read that
\* the server had answered before the panel learnt of the clear.
ClearedStaysCleared == \A l \in Log \ raced : copies[l] \cap told[l] = {}
=============================================================================
