----------------------------- MODULE ModuleDraft -----------------------------
(***************************************************************************)
(* The rows of a module's draft in the web panel: the jobs of the          *)
(* scheduler, edited in place, or the items of another module, edited as a *)
(* copy that is committed.  The editor knows its row by the index in the   *)
(* draft, while saves, reloads and the buttons of the list below the       *)
(* editor change the draft.                                                *)
(*                                                                         *)
(* A row is its identity, a number that is fresh for every row added.  The *)
(* first element has index 1, and index 0 stands for null and for -1.      *)
(***************************************************************************)
EXTENDS Naturals, Sequences, SequencesExt, PanelCommon

CONSTANTS
  LastDraftRow        \* bound: rows ever added

ASSUME DraftConstantsOK == LastDraftRow \in Nat /\ None \notin Nat

VARIABLES
  kind,               \* "jobs" or "items"
  serverRows,         \* the rows the server keeps
  loadedRows,         \* the rows in state.modules
  draftRows,          \* the rows in state.moduleDraft
  added,              \* rows added so far
  rowEditor,          \* index, isNew, and the row it was opened for
  draftSave,          \* a call of saveSelectedModule and what its caller does after it
  reload,             \* what a refresh under way has read, or None
  ran                 \* the job whose button was clicked and the one the server ran (history)

draftVars == <<kind, serverRows, loadedRows, draftRows, added, rowEditor, draftSave, reload, ran>>

DraftRow == 1..LastDraftRow
Closed == [index |-> 0, isNew |-> FALSE, row |-> None]
NoDraftSave == [stage |-> "none", after |-> "nothing", index |-> 0, clicked |-> None, rows |-> <<>>]

DraftTypeOK ==
  /\ kind \in {"jobs", "items"}
  /\ {serverRows, loadedRows, draftRows} \subseteq Seq(DraftRow) /\ added \in 0..LastDraftRow
  /\ rowEditor \in [index : Nat, isNew : BOOLEAN, row : DraftRow \cup {None}]
  /\ draftSave.stage \in {"none", "checking", "posting", "refreshing"}
  /\ draftSave.after \in {"nothing", "finish", "run"}
  /\ reload = None \/ reload \in Seq(DraftRow)
  /\ ran \in [clicked : DraftRow \cup {None}, job : DraftRow \cup {None}]

DraftInit ==
  /\ kind \in {"jobs", "items"}
  /\ added \in 0..LastDraftRow /\ serverRows = [i \in 1..added |-> i]
  /\ loadedRows = serverRows /\ draftRows = serverRows
  /\ rowEditor = Closed /\ draftSave = NoDraftSave /\ reload = None
  /\ ran = [clicked |-> None, job |-> None]

DraftQuiet == draftSave.stage = "none" /\ reload = None
MayEdit == Waits => DraftQuiet
IsOpen == rowEditor.row # None
At(s, i) == IF i \in DOMAIN s THEN s[i] ELSE None

\* The button of the list: a job is put into the draft and opened, an item is
\* opened as a copy of the default.
Add ==
  /\ MayEdit /\ added < LastDraftRow
  /\ added' = added + 1
  /\ IF kind = "jobs"
     THEN /\ draftRows' = Append(draftRows, added')
          /\ rowEditor' = [index |-> Len(draftRows'), isNew |-> TRUE, row |-> added']
     ELSE /\ rowEditor' = [index |-> 0, isNew |-> TRUE, row |-> added']
          /\ UNCHANGED draftRows
  /\ UNCHANGED <<kind, serverRows, loadedRows, draftSave, reload, ran>>

OpenEditor(i) ==
  /\ MayEdit /\ ~IsOpen /\ i \in DOMAIN draftRows
  /\ rowEditor' = [index |-> i, isNew |-> FALSE, row |-> draftRows[i]]
  /\ UNCHANGED <<kind, serverRows, loadedRows, draftRows, added, draftSave, reload, ran>>

\* Mutant: the rows behind the one that is removed do not move up.
EditorStays(i) == IF rowEditor.index = i THEN Closed ELSE rowEditor

\* The button of the row below the editor, which is still reached by the keyboard.
EditorAfterRemove(i) ==
  CASE rowEditor.index = i -> Closed
    [] rowEditor.index > i -> [rowEditor EXCEPT !.index = @ - 1]
    [] OTHER -> rowEditor
TakeOut(i) ==
  /\ MayEdit /\ i \in DOMAIN draftRows
  /\ draftRows' = RemoveAt(draftRows, i)
  /\ rowEditor' = EditorAfterRemove(i)
  /\ UNCHANGED <<kind, serverRows, loadedRows, added, draftSave, reload, ran>>

\* closeSchedulerJobEditor takes a new job out of the draft again,
\* resetSimpleModuleItemEditor drops the copy.
Discarded ==
  IF kind = "jobs" /\ rowEditor.isNew /\ rowEditor.index \in DOMAIN draftRows
  THEN RemoveAt(draftRows, rowEditor.index) ELSE draftRows
CloseEditor ==
  /\ MayEdit /\ IsOpen
  /\ draftRows' = Discarded
  /\ rowEditor' = Closed
  /\ UNCHANGED <<kind, serverRows, loadedRows, added, draftSave, reload, ran>>

\* Another module is selected and this one again: renderModules.
LeaveAndReturn ==
  /\ MayEdit
  /\ rowEditor' = Closed /\ draftRows' = loadedRows
  /\ UNCHANGED <<kind, serverRows, loadedRows, added, draftSave, reload, ran>>

\* commitSimpleModuleItemDraft: a new item is appended and is then the row at its index.
CommittedRows ==
  IF kind = "jobs" \/ ~IsOpen THEN draftRows
  ELSE IF rowEditor.isNew THEN Append(draftRows, rowEditor.row)
  ELSE IF rowEditor.index \in DOMAIN draftRows THEN [draftRows EXCEPT ![rowEditor.index] = rowEditor.row]
  ELSE draftRows
\* Mutant: the committed item still counts as new.
EditorStaysNew == rowEditor

CommittedEditor ==
  IF kind = "items" /\ rowEditor.isNew
  THEN [rowEditor EXCEPT !.index = Len(CommittedRows), !.isNew = FALSE] ELSE rowEditor

StartSave(after, i) ==
  draftSave' = [NoDraftSave EXCEPT !.stage = "checking", !.after = after, !.index = i, !.clicked = At(draftRows, i)]

SaveModule ==
  /\ MayEdit /\ draftSave.stage = "none"
  /\ StartSave("nothing", 0)
  /\ UNCHANGED <<kind, serverRows, loadedRows, draftRows, added, rowEditor, reload, ran>>
\* The button of the editor: saveSimpleModuleItemEditor commits first.
SaveEditor ==
  /\ MayEdit /\ draftSave.stage = "none" /\ IsOpen
  /\ IF kind = "jobs"
     THEN StartSave("finish", 0) /\ UNCHANGED <<draftRows, rowEditor>>
     ELSE StartSave("nothing", 0) /\ draftRows' = CommittedRows /\ rowEditor' = Closed
  /\ UNCHANGED <<kind, serverRows, loadedRows, added, reload, ran>>
\* The button of a job or of its editor: the draft is saved, then the job is run.
Run(i) ==
  /\ MayEdit /\ draftSave.stage = "none" /\ kind = "jobs" /\ i \in DOMAIN draftRows
  /\ IsOpen => rowEditor.index = i
  /\ StartSave("run", i)
  /\ UNCHANGED <<kind, serverRows, loadedRows, draftRows, added, rowEditor, reload, ran>>

\* The check has passed: flushOpenModuleEditorsForSave, and the draft is sent.
DraftCheckPassed ==
  /\ draftSave.stage = "checking"
  /\ draftRows' = CommittedRows /\ rowEditor' = CommittedEditor
  /\ draftSave' = [draftSave EXCEPT !.stage = "posting", !.rows = draftRows']
  /\ UNCHANGED <<kind, serverRows, loadedRows, added, reload, ran>>
\* A step of the save fails; showActionResult shows the error and the caller goes on,
\* but nothing is run.
DraftSaveFailed ==
  /\ draftSave.stage # "none"
  /\ serverRows' \in IF draftSave.stage = "posting" THEN {serverRows, draftSave.rows} ELSE {serverRows}
  /\ rowEditor' = IF draftSave.after = "finish" THEN Closed ELSE rowEditor
  /\ draftSave' = NoDraftSave
  /\ UNCHANGED <<kind, loadedRows, draftRows, added, reload, ran>>
Posted ==
  /\ draftSave.stage = "posting"
  /\ serverRows' = draftSave.rows
  /\ draftSave' = [draftSave EXCEPT !.stage = "refreshing"]
  /\ UNCHANGED <<kind, loadedRows, draftRows, added, rowEditor, reload, ran>>
\* refreshModules ends the save; the run is asked for by index.
Saved ==
  /\ draftSave.stage = "refreshing"
  /\ loadedRows' = serverRows /\ draftRows' = serverRows
  /\ rowEditor' = IF draftSave.after = "finish" THEN Closed ELSE rowEditor
  /\ ran' = IF draftSave.after = "run" THEN [clicked |-> draftSave.clicked, job |-> At(serverRows, draftSave.index)]
            ELSE ran
  /\ draftSave' = NoDraftSave
  /\ UNCHANGED <<kind, serverRows, added, reload>>

\* The reload button; the editor stays as it is, and one who waits closes it first.
ReloadDraft ==
  /\ MayEdit /\ reload = None /\ (Waits => ~IsOpen)
  /\ reload' = serverRows
  /\ UNCHANGED <<kind, serverRows, loadedRows, draftRows, added, rowEditor, draftSave, ran>>
Reloaded ==
  /\ reload # None
  /\ loadedRows' = reload /\ draftRows' = reload
  /\ reload' = None
  /\ UNCHANGED <<kind, serverRows, added, rowEditor, draftSave, ran>>
ReloadFailed ==
  /\ reload # None
  /\ reload' = None
  /\ UNCHANGED <<kind, serverRows, loadedRows, draftRows, added, rowEditor, draftSave, ran>>

DraftNext ==
  \/ Add \/ CloseEditor \/ LeaveAndReturn
  \/ \E i \in DraftRow : OpenEditor(i) \/ TakeOut(i) \/ Run(i)
  \/ SaveModule \/ SaveEditor
  \/ DraftCheckPassed \/ DraftSaveFailed \/ Posted \/ Saved
  \/ ReloadDraft \/ Reloaded \/ ReloadFailed

DraftSpec == DraftInit /\ [][DraftNext]_draftVars

\* An index that the panel keeps means the row it was taken for, through removals,
\* failed saves and the refresh that ends a save: an editor that commits overwrites
\* no other row, one that closes takes no other job out of the draft, and the job that
\* the server runs is the one whose button was clicked.
IndexKeepsItsRow ==
  /\ IsOpen /\ rowEditor.index # 0 => At(draftRows, rowEditor.index) = rowEditor.row
  /\ ran.job = ran.clicked

\* No row is in the draft or on the server twice: an item that a save has already
\* committed from its open editor is not appended again when the editor commits.
RowsAppearOnce == IsInjective(draftRows) /\ IsInjective(serverRows)
=============================================================================
