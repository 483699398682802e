---------------------------- MODULE ModuleConfigs ----------------------------
(***************************************************************************)
(* The module page of the web panel: the configurations of the server's    *)
(* modules, read by overlapping refreshes, the draft of the selected one,  *)
(* and the verified save, which reads the configuration again before it    *)
(* writes the draft.                                                       *)
(*                                                                         *)
(* Nothing keeps the administrator from selecting another module, editing  *)
(* or saving again while a save or a refresh is under way.                 *)
(*                                                                         *)
(* A configuration is a record: of, the modules whose settings it holds,   *)
(* and their value, which an edit changes to any other and which a         *)
(* fingerprint stands for; the value Fallback is the configuration the     *)
(* panel carries for a module that the server does not list.  The          *)
(* normalisation of a saved draft keeps its value.                         *)
(***************************************************************************)
EXTENDS Naturals, PanelCommon

CONSTANTS
  Listed,             \* the modules that /api/plugins names
  Builtin,            \* hydrateKeys: read one by one, with a fallback each
  Setting,            \* the values that the settings of a module may have
  Fallback,           \* the value of the panel's own configuration of a module
  ModuleRefreshMax,   \* bound: refreshes under way
  SaveMax             \* bound: saves under way

Module == Listed \cup Builtin
Config == [of : SUBSET Module, value : Setting \cup {Fallback}]
\* A configuration made for the module m.
ConfigOf(m, v) == [of |-> {m}, value |-> v]

ASSUME ModuleConstantsOK ==
  /\ Builtin # {} /\ None \notin Config \cup Module
  /\ None \notin [config : Config, synthetic : BOOLEAN]
  /\ Setting # {} /\ Fallback \notin Setting
  /\ {ModuleRefreshMax, SaveMax} \subseteq Nat

VARIABLES
  serverModules,      \* the configuration the server keeps for each module
  modules,            \* state.modules: config and whether it is synthetic, None before the first read
  baselines,          \* state.moduleConfigBaselines, None where there is no fingerprint
  selectedModule,     \* state.selectedModule
  moduleDraft,        \* state.moduleDraft and the text of moduleConfig
  moduleEditor,       \* the module for which an editor of a row or setting is open, or None
  moduleListing,      \* the read of ensureModulesLoaded
  moduleRefreshes, moduleSaves

editedModule == <<selectedModule, moduleDraft, moduleEditor>>
moduleVars == <<serverModules, modules, baselines, editedModule, moduleListing,
                moduleRefreshes, moduleSaves>>

NoRefresh == [stage |-> "none", read |-> [m \in Module |-> None], left |-> {}]
NoConfigSave == [stage |-> "none", name |-> None, key |-> None, baseline |-> None, config |-> None]

ModuleTypeOK ==
  /\ serverModules \in [Module -> Config]
  /\ \A m \in Module : modules[m] = None \/ modules[m] \in [config : Config, synthetic : BOOLEAN]
  /\ baselines \in [Module -> Config \cup {None}]
  /\ {selectedModule, moduleEditor} \subseteq Module \cup {None} /\ moduleDraft \in Config \cup {None}
  /\ moduleListing.stage \in {"none", "sent", "served"}
  /\ \A i \in 1..ModuleRefreshMax :
       /\ moduleRefreshes[i].stage \in {"none", "sent", "listed"}
       /\ moduleRefreshes[i].left \subseteq Builtin
  /\ \A i \in 1..SaveMax :
       moduleSaves[i].stage \in {"none", "checking", "checked", "posting", "posted"}

ModuleInit ==
  /\ \E v \in Setting : serverModules = [m \in Module |-> ConfigOf(m, v)]
  /\ modules = [m \in Module |-> None]
  /\ baselines = [m \in Module |-> None]
  /\ selectedModule = None /\ moduleDraft = None /\ moduleEditor = None
  /\ moduleListing = NoRefresh
  /\ moduleRefreshes = [i \in 1..ModuleRefreshMax |-> NoRefresh]
  /\ moduleSaves = [i \in 1..SaveMax |-> NoConfigSave]

Loaded == \A m \in Module : modules[m] # None

\* ensurePanelModules: what the list does not name gets its fallback.
Ensured(read) ==
  [m \in Module |-> IF read[m] = None THEN [config |-> ConfigOf(m, Fallback), synthetic |-> TRUE]
                    ELSE [config |-> read[m], synthetic |-> FALSE]]
\* rememberModuleConfigBaselines
Baselines(list) == [m \in Module |-> IF list[m].synthetic THEN None ELSE list[m].config]

\* renderModules puts the configuration of the selected module into the draft.
RenderModule(list, m) ==
  /\ selectedModule' = m
  /\ moduleDraft' = list[m].config

ListFrom(s) == [m \in Module |-> IF m \in Listed THEN s[m] ELSE None]

\* ensureModulesLoaded, for the other pages: no baselines, nothing rendered.  One such read
\* at a time (bound).
EnsureModulesLoaded ==
  /\ ~Loaded /\ moduleListing.stage = "none"
  /\ moduleListing' = [NoRefresh EXCEPT !.stage = "sent"]
  /\ UNCHANGED <<serverModules, modules, baselines, editedModule, moduleRefreshes, moduleSaves>>
ServeEnsure ==
  /\ moduleListing.stage = "sent"
  /\ moduleListing' = [moduleListing EXCEPT !.stage = "served", !.read = ListFrom(serverModules)]
  /\ UNCHANGED <<serverModules, modules, baselines, editedModule, moduleRefreshes, moduleSaves>>
EnsureAnswered ==
  /\ moduleListing.stage = "served"
  /\ modules' = Ensured(moduleListing.read)
  /\ moduleListing' = NoRefresh
  /\ UNCHANGED <<serverModules, baselines, editedModule, moduleRefreshes, moduleSaves>>

EnsureFailed ==
  /\ moduleListing.stage = "sent"
  /\ moduleListing' = NoRefresh
  /\ UNCHANGED <<serverModules, modules, baselines, editedModule, moduleRefreshes, moduleSaves>>

\* refreshModules: the list, then the builtin modules one by one, each of which may
\* fail and keep what the list says of it.
SendRefresh(i) ==
  /\ moduleRefreshes[i].stage = "none"
  /\ moduleRefreshes' = [moduleRefreshes EXCEPT ![i].stage = "sent"]
RefreshModules(i) ==
  /\ SendRefresh(i)
  /\ UNCHANGED <<serverModules, modules, baselines, editedModule, moduleListing, moduleSaves>>
ServeList(i) ==
  /\ moduleRefreshes[i].stage = "sent"
  /\ moduleRefreshes' = [moduleRefreshes EXCEPT ![i].stage = "listed", ![i].read = ListFrom(serverModules),
                                    ![i].left = Builtin]
  /\ UNCHANGED <<serverModules, modules, baselines, editedModule, moduleListing, moduleSaves>>
ListFailed(i) ==
  /\ moduleRefreshes[i].stage = "sent"
  /\ moduleRefreshes' = [moduleRefreshes EXCEPT ![i] = NoRefresh]
  /\ UNCHANGED <<serverModules, modules, baselines, editedModule, moduleListing, moduleSaves>>
Hydrate(i, m) ==
  /\ m \in moduleRefreshes[i].left
  /\ \E read \in {serverModules[m], moduleRefreshes[i].read[m]} :
       moduleRefreshes' = [moduleRefreshes EXCEPT ![i].read[m] = read, ![i].left = @ \ {m}]
  /\ UNCHANGED <<serverModules, modules, baselines, editedModule, moduleListing, moduleSaves>>
ModulesAnswered(i) ==
  /\ moduleRefreshes[i].stage = "listed" /\ moduleRefreshes[i].left = {}
  /\ modules' = Ensured(moduleRefreshes[i].read)
  /\ baselines' = Baselines(modules')
  /\ RenderModule(modules', IF selectedModule = None THEN CHOOSE m \in Module : TRUE ELSE selectedModule)
  /\ moduleRefreshes' = [moduleRefreshes EXCEPT ![i] = NoRefresh]
  /\ UNCHANGED <<serverModules, moduleEditor, moduleListing, moduleSaves>>

\* The cards of the list: the editors are closed when the card is another module's.
SelectModule(m) ==
  /\ Loaded
  /\ RenderModule(modules, m)
  /\ moduleEditor' = IF m = selectedModule THEN moduleEditor ELSE None
  /\ UNCHANGED <<serverModules, modules, baselines, moduleListing, moduleRefreshes, moduleSaves>>
EditDraft ==
  /\ moduleDraft # None
  /\ \E v \in Setting : moduleDraft' = [moduleDraft EXCEPT !.value = v]
  /\ UNCHANGED <<serverModules, modules, baselines, selectedModule, moduleEditor, moduleListing,
                 moduleRefreshes, moduleSaves>>
\* A row or a setting of the draft is opened in an editor of its own, or that is closed.
OpenSetting ==
  /\ moduleDraft # None /\ moduleEditor' = selectedModule
  /\ UNCHANGED <<serverModules, modules, baselines, selectedModule, moduleDraft, moduleListing,
                 moduleRefreshes, moduleSaves>>
CloseSetting ==
  /\ moduleEditor' = None
  /\ UNCHANGED <<serverModules, modules, baselines, selectedModule, moduleDraft, moduleListing,
                 moduleRefreshes, moduleSaves>>
\* What an open editor holds goes into the draft, whatever that is by now; it stays open.
FlushEditor ==
  IF moduleEditor = None THEN UNCHANGED moduleDraft
  ELSE \E v \in Setting : moduleDraft' = [of |-> moduleDraft.of \cup {moduleEditor}, value |-> v]

\* saveSelectedModule up to its first request.  A refusal changes nothing.
SaveSelectedModule(i) ==
  /\ moduleSaves[i].stage = "none"
  /\ selectedModule # None /\ ~modules[selectedModule].synthetic /\ baselines[selectedModule] # None
  /\ moduleSaves' = [moduleSaves EXCEPT ![i] = [NoConfigSave EXCEPT !.stage = "checking", !.key = selectedModule,
                                                  !.baseline = baselines[selectedModule]]]
  /\ UNCHANGED <<serverModules, modules, baselines, editedModule, moduleListing, moduleRefreshes>>
\* The server's configuration is compared with the baseline of the beginning: the save
\* ends when it has changed, or when the request fails.
ServeModuleCheck(i) ==
  /\ moduleSaves[i].stage = "checking" /\ serverModules[moduleSaves[i].key] = moduleSaves[i].baseline
  /\ moduleSaves' = [moduleSaves EXCEPT ![i].stage = "checked", ![i].baseline = None]
  /\ UNCHANGED <<serverModules, modules, baselines, editedModule, moduleListing, moduleRefreshes>>
Refused(i) ==
  /\ moduleSaves[i].stage = "checking"
  /\ moduleSaves' = [moduleSaves EXCEPT ![i] = NoConfigSave]
  /\ UNCHANGED <<serverModules, modules, baselines, editedModule, moduleListing, moduleRefreshes>>
\* Mutant: the write goes to the module that was checked.
CheckedName(i) == moduleSaves[i].key

\* The answer to the check: the draft of the module selected by now is sent under its
\* name, unless it is not valid.  Whether that module was loaded is not asked again.
SavedName(i) == selectedModule
ConfigCheckPassed(i) ==
  /\ moduleSaves[i].stage = "checked"
  /\ FlushEditor
  /\ \E valid \in BOOLEAN :
       moduleSaves' = [moduleSaves EXCEPT ![i] =
         IF valid THEN [@ EXCEPT !.stage = "posting", !.name = SavedName(i), !.config = moduleDraft']
         ELSE NoConfigSave]
  /\ UNCHANGED <<serverModules, modules, baselines, selectedModule, moduleEditor, moduleListing, moduleRefreshes>>
\* The answer to the write may be lost, whether the server wrote or not: the save ends so.
ServePost(i) ==
  /\ moduleSaves[i].stage = "posting"
  /\ \E wrote, answers \in BOOLEAN :
       /\ answers => wrote
       /\ serverModules' = IF wrote THEN [serverModules EXCEPT ![moduleSaves[i].name] = moduleSaves[i].config]
                           ELSE serverModules
       /\ moduleSaves' = [moduleSaves EXCEPT ![i] = IF answers THEN [@ EXCEPT !.stage = "posted"] ELSE NoConfigSave]
  /\ UNCHANGED <<modules, baselines, editedModule, moduleListing, moduleRefreshes>>
PostAnswered(i, r) ==
  /\ moduleSaves[i].stage = "posted"
  /\ baselines' = [baselines EXCEPT ![moduleSaves[i].key] = moduleSaves[i].config]
  /\ moduleSaves' = [moduleSaves EXCEPT ![i] = NoConfigSave]
  /\ SendRefresh(r)
  /\ UNCHANGED <<serverModules, modules, editedModule, moduleListing>>

\* Another administrator, a player's command or the server itself.
ServerChanges(m) ==
  /\ \E v \in Setting : serverModules' = [serverModules EXCEPT ![m] = ConfigOf(m, v)]
  /\ UNCHANGED <<modules, baselines, editedModule, moduleListing, moduleRefreshes, moduleSaves>>

ModuleNext ==
  \/ EnsureModulesLoaded \/ ServeEnsure \/ EnsureAnswered \/ EnsureFailed
  \/ EditDraft \/ OpenSetting \/ CloseSetting
  \/ \E i \in 1..ModuleRefreshMax : RefreshModules(i) \/ ServeList(i) \/ ListFailed(i) \/ ModulesAnswered(i)
  \/ \E i \in 1..ModuleRefreshMax, m \in Builtin : Hydrate(i, m)
  \/ \E m \in Module : SelectModule(m) \/ ServerChanges(m)
  \/ \E i \in 1..SaveMax : \/ SaveSelectedModule(i) \/ ServeModuleCheck(i) \/ ConfigCheckPassed(i)
                           \/ Refused(i) \/ ServePost(i) \/ \E r \in 1..ModuleRefreshMax : PostAnswered(i, r)

ModuleSpec == ModuleInit /\ [][ModuleNext]_moduleVars

\* Whatever is selected, edited, refreshed or saved while other saves and refreshes are
\* under way, and whatever editor was left open, the server never keeps under the name of
\* a module settings that were made for another one: the name of a write and what it
\* writes are taken at the same moment, after the check of an earlier one.
NoForeignConfig == \A m \in Module : serverModules[m].of = {m}

\* What the panel says when it refuses a save: a module whose configuration was not loaded
\* from the server is not saved, and so the panel's own fallback never replaces what the
\* server keeps.  saveSelectedModule asks it of the module selected when it begins.
LoadedBeforeSaved ==
  [][\A i \in 1..SaveMax :
       moduleSaves[i].stage = "checked" /\ moduleSaves'[i].stage = "posting" =>
         /\ ~modules[moduleSaves'[i].name].synthetic
         /\ baselines[moduleSaves'[i].name] # None]_moduleVars
=============================================================================
