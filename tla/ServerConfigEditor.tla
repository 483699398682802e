------------------------- MODULE ServerConfigEditor -------------------------
(***************************************************************************)
(* The editor of the server's configuration files in the web panel: the    *)
(* list, the one text area, loading a file into it, and saving, which      *)
(* reads the file again and writes only if it is still what was loaded.    *)
(* Requests of the panel are served and answered in any order; other       *)
(* writers (a second panel, the administrator) change the files too.       *)
(*                                                                         *)
(* A content is a number, 0 the empty text; every edit makes a new one.    *)
(***************************************************************************)
EXTENDS Naturals, FiniteSets, PanelCommon

CONSTANTS
  File,
  Preferred,          \* serversettings.ini
  NoFile,
  FirstContent,       \* FirstContent[f]: the content of f at the start
  LastContent,        \* bound: contents 0..LastContent
  LastLoad            \* bound: loads 1..LastLoad

ASSUME ConfigConstantsOK ==
  /\ Preferred \in File /\ NoFile \notin File
  /\ FirstContent \in [File -> 0..LastContent]
  /\ {LastContent, LastLoad} \subseteq Nat

VARIABLES
  file,               \* file[f]: the content on the server
  newest,             \* the last content anybody has made
  listed,             \* state.serverConfigs
  configListing,      \* 1 when an answer of the list is under way
  selectedConfig,     \* state.selectedServerConfig
  configLoading,      \* state.serverConfigLoading
  version,            \* state.serverConfigLoadVersion
  loadedConfig,       \* serverConfigLoadedName and serverConfigLoadedContent
  text,               \* the text area: its content, the load that filled it, and
                      \* the file and content it was edited from (history)
  configLoads,        \* loads under way
  configSaves         \* saves under way

configEditor == <<listed, configListing, selectedConfig, configLoading, version, loadedConfig, text>>
config == <<file, newest, configEditor, configLoads, configSaves>>

Content == 0..LastContent
Base == (File \cup {NoFile}) \X Content
NothingLoaded == [name |-> NoFile, content |-> 0]
Unserved == LastContent + 1

ConfigTypeOK ==
  /\ file \in [File -> Content] /\ newest \in Content
  /\ listed \subseteq File /\ configListing \in 0..1
  /\ selectedConfig \in File \cup {NoFile}
  /\ configLoading \in BOOLEAN /\ version \in 0..LastLoad
  /\ loadedConfig \in [name : File \cup {NoFile}, content : Content]
  /\ text \in [content : Content, load : 0..LastLoad, base : Base]
  /\ configLoads \subseteq [version : 1..LastLoad, name : File, content : 0..Unserved]
  /\ configSaves \subseteq [name : File, content : Content, load : 0..LastLoad, base : Base,
                      stage : {"check", "checked", "write", "written"}, seen : Content]

ConfigInit ==
  /\ file = FirstContent
  /\ newest \in {FirstContent[f] : f \in File}
  /\ \A f \in File : newest >= FirstContent[f]
  /\ listed = {} /\ configListing = 1
  /\ selectedConfig = NoFile /\ configLoading = FALSE /\ version = 0 /\ loadedConfig = NothingLoaded
  /\ text = [content |-> 0, load |-> 0, base |-> <<NoFile, 0>>]
  /\ configLoads = {} /\ configSaves = {}

\* updateServerConfigSaveState, and the same conditions again in saveServerConfig.
MaySave ==
  /\ selectedConfig # NoFile /\ ~configLoading /\ loadedConfig.name = selectedConfig
  /\ text.content # 0

\* The first lines of loadServerConfig.
StartLoad(f) ==
  /\ version < LastLoad
  /\ version' = version + 1
  /\ selectedConfig' = f /\ configLoading' = TRUE /\ loadedConfig' = NothingLoaded
  /\ configLoads' = configLoads \cup {[version |-> version + 1, name |-> f, content |-> Unserved]}

\* Opening the page, and the end of a save, ask for the list.
OpenPage ==
  /\ configListing = 0 /\ configListing' = 1
  /\ UNCHANGED <<file, newest, listed, selectedConfig, configLoading, version, loadedConfig, text, configLoads, configSaves>>

Select(f) ==
  /\ ~Waits \/ configSaves = {}
  /\ StartLoad(f)
  /\ UNCHANGED <<file, newest, listed, configListing, text, configSaves>>

\* refreshServerConfigs: the list, or nothing when the request failed; an empty
\* editor loads the preferred file.
ListAnswered ==
  /\ configListing = 1 /\ configListing' = 0
  /\ \E files \in SUBSET File :
       /\ listed' = files
       /\ LET chosen == IF selectedConfig # NoFile \/ files = {} THEN selectedConfig
                        ELSE IF Preferred \in files THEN Preferred
                        ELSE CHOOSE f \in files : TRUE
          IN IF chosen # NoFile /\ text.content = 0 /\ loadedConfig.name = NoFile
             THEN StartLoad(chosen)
             ELSE selectedConfig' = chosen /\ UNCHANGED <<configLoading, version, loadedConfig, configLoads>>
  /\ UNCHANGED <<file, newest, text, configSaves>>

ServeLoad(r) ==
  /\ r \in configLoads /\ r.content = Unserved
  /\ configLoads' = (configLoads \ {r}) \cup {[r EXCEPT !.content = file[r.name]]}
  /\ UNCHANGED <<file, newest, configEditor, configSaves>>

\* Mutant: every answer is taken.
AnyLoad(r) == TRUE

\* The answer of a load; of one that is not the newest it changes nothing.
Current(r) == r.version = version
LoadAnswered(r) ==
  /\ r \in configLoads /\ r.content # Unserved
  /\ configLoads' = configLoads \ {r}
  /\ IF Current(r)
     THEN /\ selectedConfig' = r.name /\ configLoading' = FALSE
          /\ loadedConfig' = [name |-> r.name, content |-> r.content]
          /\ text' = [content |-> r.content, load |-> r.version, base |-> <<r.name, r.content>>]
     ELSE UNCHANGED <<selectedConfig, configLoading, loadedConfig, text>>
  /\ UNCHANGED <<file, newest, listed, configListing, version, configSaves>>

LoadFailed(r) ==
  /\ r \in configLoads
  /\ configLoads' = configLoads \ {r}
  /\ IF Current(r)
     THEN configLoading' = FALSE /\ loadedConfig' = NothingLoaded
     ELSE UNCHANGED <<configLoading, loadedConfig>>
  /\ UNCHANGED <<file, newest, listed, configListing, selectedConfig, version, text, configSaves>>

EditText ==
  /\ selectedConfig # NoFile
  /\ ~Waits \/ configSaves = {}
  /\ \/ newest < LastContent /\ newest' = newest + 1 /\ text' = [text EXCEPT !.content = newest + 1]
     \/ newest' = newest /\ text' = [text EXCEPT !.content = 0]
  /\ UNCHANGED <<file, listed, configListing, selectedConfig, configLoading, version, loadedConfig, configLoads, configSaves>>

\* saveServerConfig: it asks for the file once more ...
SaveServerConfig ==
  /\ MaySave
  /\ ~Waits \/ configSaves = {}
  /\ Cardinality(configSaves) < 2
  /\ configSaves' = configSaves \cup {[name |-> selectedConfig, content |-> text.content, load |-> text.load,
                           base |-> text.base, stage |-> "check", seen |-> 0]}
  /\ UNCHANGED <<file, newest, configEditor, configLoads>>

ServeConfigCheck(s) ==
  /\ s \in configSaves /\ s.stage = "check"
  /\ configSaves' = (configSaves \ {s}) \cup {[s EXCEPT !.stage = "checked", !.seen = file[s.name]]}
  /\ UNCHANGED <<file, newest, configEditor, configLoads>>

\* ... and writes when the answer is what the editor has loaded.
Unchanged(s) == loadedConfig.name # NoFile /\ s.seen = loadedConfig.content
CheckAnswered(s) ==
  /\ s \in configSaves /\ s.stage = "checked"
  /\ IF Unchanged(s)
     THEN configSaves' = (configSaves \ {s}) \cup {[s EXCEPT !.stage = "write"]} /\ UNCHANGED <<loadedConfig, configListing>>
     ELSE configSaves' = configSaves \ {s} /\ loadedConfig' = NothingLoaded /\ UNCHANGED configListing
  /\ UNCHANGED <<file, newest, listed, selectedConfig, configLoading, version, text, configLoads>>

ServeWrite(s) ==
  /\ s \in configSaves /\ s.stage = "write"
  /\ file' = [file EXCEPT ![s.name] = s.content]
  /\ configSaves' = (configSaves \ {s}) \cup {[s EXCEPT !.stage = "written"]}
  /\ UNCHANGED <<newest, configEditor, configLoads>>

\* The text area is edited from what it has just saved, unless a load has filled it
\* since.
WriteAnswered(s) ==
  /\ s \in configSaves /\ s.stage = "written"
  /\ configSaves' = configSaves \ {s}
  /\ loadedConfig' = [name |-> s.name, content |-> s.content]
  /\ text' = IF text.load = s.load THEN [text EXCEPT !.base = <<s.name, s.content>>] ELSE text
  /\ configListing' = 1
  /\ UNCHANGED <<file, newest, listed, selectedConfig, configLoading, version, configLoads>>

SaveConfigFailed(s) ==
  /\ s \in configSaves
  /\ configSaves' = configSaves \ {s}
  /\ configListing' = 1
  /\ UNCHANGED <<file, newest, listed, selectedConfig, configLoading, version, loadedConfig, text, configLoads>>

\* Another writer.
OtherWrites(f) ==
  /\ newest < LastContent
  /\ newest' = newest + 1
  /\ file' = [file EXCEPT ![f] = newest + 1]
  /\ UNCHANGED <<configEditor, configLoads, configSaves>>

ServerOrNetwork ==
  \/ ListAnswered
  \/ \E r \in configLoads : ServeLoad(r) \/ LoadAnswered(r) \/ LoadFailed(r)
  \/ \E s \in configSaves : \/ ServeConfigCheck(s) \/ CheckAnswered(s)
                            \/ ServeWrite(s) \/ WriteAnswered(s) \/ SaveConfigFailed(s)

ConfigNext ==
  \/ \E f \in File : Select(f) \/ OtherWrites(f)
  \/ OpenPage
  \/ EditText
  \/ SaveServerConfig
  \/ ServerOrNetwork

ConfigSpec == ConfigInit /\ [][ConfigNext]_config

\* A text on its way to a file was edited from what the check found in that file:
\* a save never replaces a version that its author has not seen (but for one that
\* is written between the check and the write, which nothing excludes).  Whenever the
\* Save button is enabled, the text area holds text of the selected file, although
\* loads are answered in any order.
NoLostUpdate ==
  /\ \A s \in configSaves : s.stage \in {"write", "written"} => s.base = <<s.name, s.seen>>
  /\ MaySave => text.base[1] = selectedConfig
=============================================================================
