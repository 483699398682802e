-------------------------- MODULE PanelEditorsProofs --------------------------
(***************************************************************************)
(* Theorems about the editors of the web panel: the dialog of a player,    *)
(* the editor of the server's configuration files, the configurations of   *)
(* the modules, the rows of a module's draft and the lines of the chat     *)
(* answers.                                                                *)
(***************************************************************************)
EXTENDS PlayerDialog, ServerConfigEditor, ModuleConfigs, ModuleDraft, ChatLines, PanelLemmas, Integers

---------------------------------------------------------------------------
(* The dialog of a player: whom its actions are sent for, and whose        *)
(* inventory it shows.                                                     *)

\* The selected identity is the player in the dialog's title, and the rows on show are
\* his; a list never names a player twice.
DialogInv ==
  /\ players \in Lists \cup {<<>>}
  /\ selectedTarget \in [id : Identity, target : PlayerId]
  /\ dialog # None => /\ field = dialog /\ selectedTarget.target = dialog
                      /\ Named(selectedTarget.id) = dialog
  /\ panel \in Person => panel = Named(selectedTarget.id)

LEMMA SameIsWho ==
  ASSUME NEW id \in Identity, NEW r \in PlayerRow, SamePlayer(id, r)
  PROVE  /\ Named(r) = Named(id) /\ Named(r) # None
         /\ Completed(id, r) \in Identity /\ Named(Completed(id, r)) = Named(id)
         /\ Completed(r, id) \in Identity /\ Named(Completed(r, id)) = Named(id)
<1>1. Named(r) = Named(id) /\ Named(r) # None
  BY DialogConstantsOK DEF Identity, PlayerRow, PlayerId, SamePlayer, Named
<1>2. /\ id.steam \in {None, Named(id)} /\ id.name \in {None, Named(id)}
      /\ r.steam \in {None, Named(id)} /\ r.name \in {None, Named(id)}
      /\ id.steam \in PlayerId /\ id.name \in PlayerId /\ r.steam \in PlayerId /\ r.name \in PlayerId
      /\ id.steam = Named(id) \/ id.name = Named(id)
      /\ r.steam = Named(id) \/ r.name = Named(id)
  BY <1>1 DEF Identity, PlayerRow, Named
<1>3. ASSUME NEW a \in {None, Named(id)}, NEW b \in {None, Named(id)}, a \in PlayerId, b \in PlayerId,
             a = Named(id) \/ b = Named(id)
      PROVE  [steam |-> a, name |-> b] \in Identity /\ Named([steam |-> a, name |-> b]) = Named(id)
  BY <1>1, <1>3 DEF Identity, Named
<1>4. Completed(id, r) \in Identity /\ Named(Completed(id, r)) = Named(id)
  <2> DEFINE a == IF r.steam # None THEN r.steam ELSE id.steam
             b == IF r.name # None THEN r.name ELSE id.name
  <2>1. /\ a \in {None, Named(id)} /\ b \in {None, Named(id)} /\ a \in PlayerId /\ b \in PlayerId
        /\ a = Named(id) \/ b = Named(id)
    BY <1>1, <1>2
  <2>2. Completed(id, r) = [steam |-> a, name |-> b]
    BY DEF Completed
  <2> QED
    BY <1>3, <2>1, <2>2
<1>5. Completed(r, id) \in Identity /\ Named(Completed(r, id)) = Named(id)
  <2> DEFINE a == IF id.steam # None THEN id.steam ELSE r.steam
             b == IF id.name # None THEN id.name ELSE r.name
  <2>1. /\ a \in {None, Named(id)} /\ b \in {None, Named(id)} /\ a \in PlayerId /\ b \in PlayerId
        /\ a = Named(id) \/ b = Named(id)
    BY <1>1, <1>2
  <2>2. Completed(r, id) = [steam |-> a, name |-> b]
    BY DEF Completed
  <2> QED
    BY <1>3, <2>1, <2>2
<1> QED
  BY <1>1, <1>4, <1>5

\* Array.find returns a row that fits: at most one row fits.
LEMMA FirstMatches ==
  ASSUME NEW rows \in Lists \cup {<<>>}, NEW id \in Identity,
         Matches(rows, id) # {}
  PROVE  /\ rows[First(Matches(rows, id))] \in PlayerRow
         /\ SamePlayer(id, rows[First(Matches(rows, id))])
<1>1. /\ rows \in Seq(PlayerRow)
      /\ \A i, j \in DOMAIN rows : i # j => Named(rows[i]) # Named(rows[j])
  <2>1. CASE rows \in Lists
    BY <2>1, DialogConstantsOK
  <2>2. CASE rows = <<>>
    BY <2>2
  <2> QED
    BY <2>1, <2>2
<1>2. PICK i \in Matches(rows, id) : TRUE
  OBVIOUS
<1>3. \A j \in Matches(rows, id) :
        j \in DOMAIN rows /\ SamePlayer(id, rows[j]) /\ rows[j] \in PlayerRow /\ j \in Nat
  BY <1>1 DEF Matches
<1>4. \A j \in Matches(rows, id) : j = i
  BY <1>1, <1>2, <1>3, SameIsWho
<1>5. \A j \in Matches(rows, id) : i <= j
  BY <1>2, <1>3, <1>4
<1>6. First(Matches(rows, id)) \in Matches(rows, id)
  BY <1>2, <1>5 DEF First
<1> QED
  BY <1>3, <1>6

LEMMA SelectedIsWho ==
  ASSUME players \in Lists \cup {<<>>}, NEW r \in PlayerRow
  PROVE  Selected(r) \in Identity /\ Named(Selected(r)) = Named(r)
<1>1. r \in Identity
  BY DEF PlayerRow
<1>2. CASE Matches(players, r) = {}
  BY <1>1, <1>2 DEF Selected
<1>3. CASE Matches(players, r) # {}
  BY <1>1, <1>3, FirstMatches, SameIsWho DEF Selected
<1> QED
  BY <1>2, <1>3

\* What the panel shows is no player but the given one.
LEMMA RenderShows ==
  ASSUME NEW id, NEW entries, Render(id, entries) \in Person
  PROVE  Render(id, entries) = Named(id)
<1>1. Render(id, entries) \in {"loading", "error", Named(id)}
  BY DEF Render
<1> QED
  BY <1>1, DialogConstantsOK

LEMMA DialogStart == DialogInit => DialogInv
<1>1. Nobody \in Identity
  BY DEF Nobody, Identity, PlayerId
<1> QED
  BY <1>1, DialogConstantsOK DEF DialogInit, DialogInv, PlayerId

LEMMA DialogStep ==
  ASSUME DialogInv, [DialogNext]_dialogVars
  PROVE  DialogInv'
<1> USE DEF DialogInv
<1>1. CASE RefreshPlayers
  BY <1>1 DEF RefreshPlayers, selection, inventory
<1>2. CASE PlayersAnswered
  <2>1. PICK rows \in Lists :
          /\ players' = rows
          /\ selectedTarget' = LET found == Matches(rows, selectedTarget.id)
                         IN  IF selectedTarget.id = Nobody \/ found = {} THEN selectedTarget
                             ELSE [selectedTarget EXCEPT !.id = Completed(@, rows[First(found)])]
    BY <1>2 DEF PlayersAnswered
  <2>2. selectedTarget.id \in Identity /\ selectedTarget.target \in PlayerId
    OBVIOUS
  <2>3. /\ selectedTarget' \in [id : Identity, target : PlayerId]
        /\ selectedTarget'.target = selectedTarget.target /\ Named(selectedTarget'.id) = Named(selectedTarget.id)
    <3>1. CASE selectedTarget.id = Nobody \/ Matches(rows, selectedTarget.id) = {}
      BY <2>1, <3>1
    <3>2. CASE ~(selectedTarget.id = Nobody \/ Matches(rows, selectedTarget.id) = {})
      <4> DEFINE c == Completed(selectedTarget.id, rows[First(Matches(rows, selectedTarget.id))])
      <4>1. c \in Identity /\ Named(c) = Named(selectedTarget.id)
        BY <2>2, <3>2, FirstMatches, SameIsWho
      <4>2. selectedTarget' = [selectedTarget EXCEPT !.id = c]
        BY <2>1, <3>2
      <4> HIDE DEF c
      <4> QED
        BY <4>1, <4>2
    <3> QED
      BY <3>1, <3>2
  <2> QED
    BY <1>2, <2>1, <2>3 DEF PlayersAnswered, inventory
<1>3. CASE PlayersFailed
  BY <1>3 DEF PlayersFailed, selection, inventory
<1>4. ASSUME NEW r \in PlayerRow, NEW tab \in {"inventory", "items"}, OpenDialog(r, tab)
      PROVE  DialogInv'
  <2>1. /\ selectedTarget' = [id |-> Selected(r), target |-> Named(r)]
        /\ field' = Named(r) /\ dialog' = Named(r) /\ players' = players
    BY <1>4 DEF OpenDialog
  <2>2. Selected(r) \in Identity /\ Named(Selected(r)) = Named(r) /\ Named(r) \in PlayerId
    BY SelectedIsWho DEF PlayerRow, Identity, Named
  <2>3. panel' \in Person => panel' = Named(selectedTarget'.id)
    <3>1. CASE tab = "inventory"
      BY <1>4, <3>1, RenderShows DEF OpenDialog, LoadInventory
    <3>2. CASE tab # "inventory"
      BY <1>4, <3>2, DialogConstantsOK DEF OpenDialog
    <3> QED
      BY <3>1, <3>2
  <2> QED
    BY <2>1, <2>2, <2>3
<1>5. CASE CloseDialog
  BY <1>5 DEF CloseDialog, inventory
<1>6. ASSUME NEW force \in BOOLEAN, ReloadInventory(force) PROVE DialogInv'
  <2>1. panel' \in Person => panel' = Named(selectedTarget'.id)
    BY <1>6, RenderShows DEF ReloadInventory, LoadInventory
  <2> QED
    BY <1>6, <2>1 DEF ReloadInventory, selection
<1>7. ASSUME NEW k \in Key, NEW ok \in BOOLEAN, InventoryAnswered(k, ok) PROVE DialogInv'
  <2>1. panel' \in Person => panel' = Named(selectedTarget.id)
    BY <1>7, RenderShows DEF InventoryAnswered
  <2> QED
    BY <1>7, <2>1 DEF InventoryAnswered, selection
<1>8. ASSUME NEW id \in PlayerRow, ReloadSoon(id) PROVE DialogInv'
  <2>1. panel' \in Person => panel' = Named(selectedTarget'.id)
    BY <1>8, RenderShows DEF ReloadSoon, LoadInventory
  <2> QED
    BY <1>8, <2>1 DEF ReloadSoon, selection
<1>9. CASE UNCHANGED dialogVars
  BY <1>9 DEF dialogVars
<1> QED
  BY <1>1, <1>2, <1>3, <1>4, <1>5, <1>6, <1>7, <1>8, <1>9 DEF DialogNext

LEMMA TargetIsSelected ==
  ASSUME DialogInv, dialog # None
  PROVE  ModalTargetBody = selectedTarget.id
  BY DEF DialogInv, ModalTargetBody

\* Whatever list of players arrives while the dialog is open, modalTargetBody names the
\* player of the dialog's title.
THEOREM ActionsReach == DialogSpec => []ActionsReachTitled
<1>1. DialogInit => DialogInv
  BY DialogStart
<1>2. DialogInv /\ [DialogNext]_dialogVars => DialogInv'
  BY DialogStep
<1>3. DialogInv => ActionsReachTitled
  BY TargetIsSelected DEF DialogInv, ActionsReachTitled
<1> QED
  BY <1>1, <1>2, <1>3, PTL DEF DialogSpec

\* However late loadPlayerInventory is answered, the rows on show, whose delete buttons
\* name an item, are of the player to whom modalTargetBody sends the deletion.
THEOREM DeletesOwn == DialogSpec => []DeletesOwnItems
<1>1. DialogInit => DialogInv
  BY DialogStart
<1>2. DialogInv /\ [DialogNext]_dialogVars => DialogInv'
  BY DialogStep
<1>3. DialogInv => DeletesOwnItems
  BY TargetIsSelected DEF DialogInv, DeletesOwnItems
<1> QED
  BY <1>1, <1>2, <1>3, PTL DEF DialogSpec

\* Before a player is selected nothing has been asked for.
DialogTyped ==
  /\ DialogTypeOK
  /\ selectedTarget.id = Nobody => \A k \in Key : cache[k] = "none" /\ inventoryLoads[k] = 0

LEMMA SomebodyIs ==
  ASSUME NEW id \in Identity, id # Nobody
  PROVE  KeyOf(id) \in Key /\ Named(id) \in Person
<1>1. id.steam \in PlayerId /\ id.name \in PlayerId /\ id = [steam |-> id.steam, name |-> id.name]
  BY DEF Identity
<1>2. id.steam # None \/ id.name # None
  BY <1>1 DEF Nobody
<1> QED
  BY <1>1, <1>2 DEF KeyOf, Key, Named, PlayerId

LEMMA RenderTyped ==
  ASSUME NEW id \in Identity, id # Nobody, NEW entries
  PROVE  Render(id, entries) \in InventoryShown
<1>1. Render(id, entries) \in {"loading", "error", Named(id)}
  BY DEF Render
<1> QED
  BY <1>1, SomebodyIs DEF InventoryShown

LEMMA NobodyIs == Named(Nobody) = None /\ \A r \in PlayerRow : r \in Identity /\ Named(r) \in Person /\ r # Nobody
  BY DEF Named, Nobody, PlayerRow, Identity, PlayerId

LEMMA LoadInventoryTyped ==
  ASSUME DialogTypeOK, NEW id \in Identity, id # Nobody, NEW force \in BOOLEAN, LoadInventory(id, force),
         selectedTarget'.id \in Identity, selectedTarget'.id # Nobody
  PROVE  /\ cache' \in [Key -> {"none", "loading", "ready", "error"}]
         /\ inventoryLoads' \in [Key -> 0..LoadMax]
         /\ panel' \in InventoryShown
<1> DEFINE k == KeyOf(id)
<1>1. k \in Key
  BY SomebodyIs
<1>2. CASE cache[k] = "ready" /\ ~force
  BY <1>2, RenderTyped DEF LoadInventory, DialogTypeOK
<1>3. CASE ~(cache[k] = "ready" /\ ~force)
  <2>1. /\ inventoryLoads[k] < LoadMax
        /\ inventoryLoads' = [inventoryLoads EXCEPT ![k] = @ + 1]
        /\ cache' = [cache EXCEPT ![k] = "loading"]
        /\ panel' = Render(selectedTarget'.id, cache')
    BY <1>3 DEF LoadInventory
  <2>2. inventoryLoads[k] + 1 \in 0..LoadMax
    BY <1>1, <2>1, DialogConstantsOK DEF DialogTypeOK
  <2> HIDE DEF k
  <2> QED
    BY <1>1, <2>1, <2>2, RenderTyped DEF DialogTypeOK
<1> QED
  BY <1>2, <1>3

LEMMA DialogTypesStep ==
  ASSUME DialogInv, DialogTyped, [DialogNext]_dialogVars
  PROVE  DialogTyped'
<1> USE DialogConstantsOK DEF DialogTyped
<1>i. DialogInv'
  BY DialogStep
<1>s. selectedTarget' \in [id : Identity, target : PlayerId]
  BY <1>i DEF DialogInv
<1>1. CASE RefreshPlayers
  BY <1>1 DEF RefreshPlayers, selection, inventory, DialogTypeOK
<1>2. CASE PlayersAnswered
  <2>1. PICK rows \in Lists :
          /\ players' = rows
          /\ selectedTarget' = LET found == Matches(rows, selectedTarget.id)
                               IN  IF selectedTarget.id = Nobody \/ found = {} THEN selectedTarget
                                   ELSE [selectedTarget EXCEPT !.id = Completed(@, rows[First(found)])]
    BY <1>2 DEF PlayersAnswered
  <2>2. players' \in Seq(PlayerRow)
    BY <2>1
  <2>3. playersListing' = FALSE /\ UNCHANGED <<field, dialog, cache, inventoryLoads, panel>>
    BY <1>2 DEF PlayersAnswered, inventory
  <2>4. selectedTarget'.id = Nobody => selectedTarget.id = Nobody
    <3>1. CASE selectedTarget.id # Nobody /\ Matches(rows, selectedTarget.id) # {}
      <4> DEFINE c == Completed(selectedTarget.id, rows[First(Matches(rows, selectedTarget.id))])
      <4>1. selectedTarget.id \in Identity /\ Named(selectedTarget.id) \in Person
        BY <3>1, SomebodyIs DEF DialogInv
      <4>2. Named(c) = Named(selectedTarget.id)
        BY <3>1, <4>1, FirstMatches, SameIsWho
      <4>3. selectedTarget'.id = c
        BY <2>1, <3>1 DEF DialogInv
      <4> HIDE DEF c
      <4> QED
        BY <4>1, <4>2, <4>3, NobodyIs
    <3> QED
      BY <2>1, <3>1
  <2> QED
    BY <1>s, <2>2, <2>3, <2>4 DEF DialogTypeOK
<1>3. CASE PlayersFailed
  BY <1>3 DEF PlayersFailed, selection, inventory, DialogTypeOK
<1>4. ASSUME NEW r \in PlayerRow, NEW tab \in {"inventory", "items"}, OpenDialog(r, tab)
      PROVE  DialogTyped'
  <2>1. /\ selectedTarget' = [id |-> Selected(r), target |-> Named(r)]
        /\ field' = Named(r) /\ dialog' = Named(r) /\ UNCHANGED <<players, playersListing>>
    BY <1>4 DEF OpenDialog
  <2>2. Selected(r) \in Identity /\ Selected(r) # Nobody /\ Named(r) \in PlayerId
    <3>1. Selected(r) \in Identity /\ Named(Selected(r)) = Named(r) /\ Named(r) \in Person
      BY SelectedIsWho, NobodyIs DEF DialogInv
    <3> QED
      BY <3>1, NobodyIs DEF PlayerId
  <2>3. selectedTarget'.id = Selected(r)
    BY <2>1
  <2>4. /\ cache' \in [Key -> {"none", "loading", "ready", "error"}]
        /\ inventoryLoads' \in [Key -> 0..LoadMax]
        /\ panel' \in InventoryShown
    <3>1. CASE tab = "inventory"
      BY <1>4, <2>2, <2>3, <3>1, LoadInventoryTyped DEF OpenDialog
    <3>2. CASE tab # "inventory"
      BY <1>4, <3>2 DEF OpenDialog, DialogTypeOK, InventoryShown
    <3> QED
      BY <3>1, <3>2
  <2> QED
    BY <1>s, <2>1, <2>2, <2>3, <2>4 DEF DialogTypeOK
<1>5. CASE CloseDialog
  BY <1>5 DEF CloseDialog, inventory, DialogTypeOK, PlayerId
<1>6. ASSUME NEW force \in BOOLEAN, ReloadInventory(force) PROVE DialogTyped'
  <2>1. /\ selectedTarget.id # Nobody /\ LoadInventory(selectedTarget.id, force)
        /\ UNCHANGED <<players, playersListing, selectedTarget, field, dialog>>
    BY <1>6 DEF ReloadInventory, selection
  <2>2. selectedTarget.id \in Identity
    BY DEF DialogInv
  <2> QED
    BY <2>1, <2>2, LoadInventoryTyped DEF DialogTypeOK
<1>7. ASSUME NEW k \in Key, NEW ok \in BOOLEAN, InventoryAnswered(k, ok) PROVE DialogTyped'
  <2>1. /\ inventoryLoads[k] > 0 /\ inventoryLoads' = [inventoryLoads EXCEPT ![k] = @ - 1]
        /\ cache' = [cache EXCEPT ![k] = IF ok THEN "ready" ELSE "error"]
        /\ panel' = Render(selectedTarget.id, cache')
        /\ UNCHANGED <<players, playersListing, selectedTarget, field, dialog>>
    BY <1>7 DEF InventoryAnswered, selection
  <2>2. selectedTarget.id \in Identity /\ selectedTarget.id # Nobody
    BY <2>1 DEF DialogInv
  <2>3. inventoryLoads[k] - 1 \in 0..LoadMax
    BY <2>1 DEF DialogTypeOK
  <2> QED
    BY <2>1, <2>2, <2>3, RenderTyped DEF DialogTypeOK
<1>8. ASSUME NEW id \in PlayerRow, ReloadSoon(id) PROVE DialogTyped'
  <2>1. /\ selectedTarget.id # Nobody /\ LoadInventory(id, TRUE)
        /\ UNCHANGED <<players, playersListing, selectedTarget, field, dialog>>
    BY <1>8 DEF ReloadSoon, selection
  <2>2. selectedTarget.id \in Identity /\ id \in Identity /\ id # Nobody
    BY NobodyIs DEF DialogInv
  <2> QED
    BY <2>1, <2>2, LoadInventoryTyped DEF DialogTypeOK
<1>9. CASE UNCHANGED dialogVars
  BY <1>9 DEF dialogVars, DialogTypeOK
<1> QED
  BY <1>1, <1>2, <1>3, <1>4, <1>5, <1>6, <1>7, <1>8, <1>9 DEF DialogNext

LEMMA DialogTypes == DialogSpec => []DialogTypeOK
<1>1. DialogInit => DialogTyped
  <2>1. Nobody \in Identity
    BY DEF Nobody, Identity, PlayerId
  <2>2. <<>> \in Seq(PlayerRow) /\ None \in PlayerId /\ "reset" \in InventoryShown /\ 0 \in 0..LoadMax
    BY DialogConstantsOK DEF PlayerId, InventoryShown
  <2> SUFFICES ASSUME DialogInit PROVE DialogTyped
    OBVIOUS
  <2>3. selectedTarget \in [id : Identity, target : PlayerId]
    BY <2>1, <2>2 DEF DialogInit
  <2>4. /\ cache \in [Key -> {"none", "loading", "ready", "error"}]
        /\ inventoryLoads \in [Key -> 0..LoadMax]
        /\ \A k \in Key : cache[k] = "none" /\ inventoryLoads[k] = 0
    BY <2>2 DEF DialogInit
  <2> QED
    BY <2>2, <2>3, <2>4 DEF DialogInit, DialogTyped, DialogTypeOK
<1>2. DialogInv /\ [DialogNext]_dialogVars => DialogInv'
  BY DialogStep
<1>3. DialogInv /\ DialogTyped /\ [DialogNext]_dialogVars => DialogTyped'
  BY DialogTypesStep
<1> QED
  BY <1>1, <1>2, <1>3, DialogStart, PTL DEF DialogSpec, DialogTyped

---------------------------------------------------------------------------
(* The editor of the server's configuration files.                         *)

\* What is loaded is what the text area was edited from, and the newest load under way
\* keeps the editor loading.
EditorInv ==
  /\ \A r \in configLoads : r.version <= version /\ (r.version = version => configLoading)
  /\ \A r, t \in configLoads : r.version = t.version => r = t
  /\ loadedConfig.name # NoFile =>
       /\ loadedConfig.name = selectedConfig /\ ~configLoading
       /\ text.base = <<loadedConfig.name, loadedConfig.content>>

\* While the one save is under way nothing is loaded or edited; until its check is
\* answered it is based on what is loaded, and then on what the check has found.
SaveInv ==
  /\ \A s, t \in configSaves : s = t
  /\ \A s \in configSaves :
       /\ s.name = selectedConfig /\ ~configLoading
       /\ s.load = text.load /\ text.content # 0
       /\ s.stage \in {"check", "checked"} => loadedConfig.name = s.name /\ s.base = text.base
       /\ s.stage \in {"write", "written"} => s.base = <<s.name, s.seen>>

ConfigInv == ConfigTypeOK /\ EditorInv /\ SaveInv

LEMMA ConfigStart == ConfigInit => ConfigInv
<1> SUFFICES ASSUME ConfigInit PROVE ConfigInv
  OBVIOUS
<1> USE ConfigConstantsOK DEF ConfigInit
<1>1. ConfigTypeOK
  <2>1. /\ file \in [File -> Content] /\ newest \in Content
        /\ 0 \in Content /\ 0 \in 0..LastLoad /\ NoFile \in File \cup {NoFile}
    BY DEF Content
  <2>2. <<NoFile, 0>> \in Base
    BY <2>1 DEF Base
  <2>3. text \in [content : Content, load : 0..LastLoad, base : Base]
    BY <2>1, <2>2
  <2>4. loadedConfig \in [name : File \cup {NoFile}, content : Content]
    BY <2>1 DEF NothingLoaded
  <2>5. /\ listed = {} /\ configListing = 1 /\ selectedConfig = NoFile /\ configLoading = FALSE
        /\ version = 0 /\ configLoads = {} /\ configSaves = {}
    OBVIOUS
  <2> HIDE DEF ConfigInit
  <2>6. listed \subseteq File /\ configListing \in 0..1 /\ version \in 0..LastLoad
    BY <2>1, <2>5
  <2>7. configLoading \in BOOLEAN /\ selectedConfig \in File \cup {NoFile}
    BY <2>5
  <2>8. /\ configLoads \subseteq [version : 1..LastLoad, name : File, content : 0..Unserved]
        /\ configSaves \subseteq [name : File, content : Content, load : 0..LastLoad, base : Base,
                                  stage : {"check", "checked", "write", "written"}, seen : Content]
    BY <2>5
  <2> QED
    BY <2>1, <2>3, <2>4, <2>6, <2>7, <2>8 DEF ConfigTypeOK
<1>2. EditorInv /\ SaveInv
  BY DEF EditorInv, SaveInv, NothingLoaded
<1> QED
  BY <1>1, <1>2 DEF ConfigInv

\* The two records that the editor makes.
LEMMA LoadTyped ==
  ASSUME version \in 0..LastLoad, version < LastLoad, NEW f \in File
  PROVE  [version |-> version + 1, name |-> f, content |-> Unserved]
           \in [version : 1..LastLoad, name : File, content : 0..Unserved]
  BY ConfigConstantsOK DEF Unserved

\* A load that starts while no save is under way.
LEMMA StartLoadKeeps ==
  ASSUME ConfigInv, configSaves = {}, NEW f \in File, StartLoad(f), configListing' \in 0..1,
         listed' \subseteq File, UNCHANGED <<file, newest, text, configSaves>>
  PROVE  ConfigInv'
<1> USE ConfigConstantsOK
<1>1. /\ version \in 0..LastLoad /\ version < LastLoad /\ version' = version + 1
      /\ selectedConfig' = f /\ configLoading' = TRUE /\ loadedConfig' = NothingLoaded
      /\ configLoads' = configLoads \cup {[version |-> version + 1, name |-> f, content |-> Unserved]}
  BY DEF ConfigInv, ConfigTypeOK, StartLoad
<1>2. ConfigTypeOK'
  <2>1. configLoads' \subseteq [version : 1..LastLoad, name : File, content : 0..Unserved]
    BY <1>1, LoadTyped DEF ConfigInv, ConfigTypeOK
  <2> QED
    BY <1>1, <2>1 DEF ConfigInv, ConfigTypeOK, NothingLoaded, Content
<1>3. EditorInv'
  <2>1. ASSUME NEW r \in configLoads' PROVE r.version <= version'
    <3>1. \A x \in configLoads : x.version \in Nat /\ x.version <= version
      BY DEF ConfigInv, ConfigTypeOK, EditorInv
    <3> QED
      BY <1>1, <3>1
  <2>2. ASSUME NEW r \in configLoads', NEW t \in configLoads', r.version = t.version PROVE r = t
    <3>1. \A x \in configLoads : x.version \in Nat /\ x.version <= version
      BY DEF ConfigInv, ConfigTypeOK, EditorInv
    <3> QED
      BY <1>1, <2>2, <3>1 DEF ConfigInv, EditorInv
  <2> QED
    BY <1>1, <2>1, <2>2 DEF EditorInv, NothingLoaded
<1>4. SaveInv'
  BY DEF SaveInv
<1> QED
  BY <1>2, <1>3, <1>4 DEF ConfigInv

\* The invariant of the editor is kept, one step for each action,
\* when the administrator waits for a save to end.
LEMMA ConfigStep ==
  ASSUME Waits, ConfigInv, [ConfigNext]_config
  PROVE  ConfigInv'
<1> USE ConfigConstantsOK DEF ConfigInv
<1>t. /\ file \in [File -> Content] /\ newest \in Content
      /\ listed \subseteq File /\ configListing \in 0..1
      /\ selectedConfig \in File \cup {NoFile}
      /\ configLoading \in BOOLEAN /\ version \in 0..LastLoad
      /\ loadedConfig \in [name : File \cup {NoFile}, content : Content]
      /\ text \in [content : Content, load : 0..LastLoad, base : Base]
      /\ configLoads \subseteq [version : 1..LastLoad, name : File, content : 0..Unserved]
      /\ configSaves \subseteq [name : File, content : Content, load : 0..LastLoad, base : Base,
                                stage : {"check", "checked", "write", "written"}, seen : Content]
  BY DEF ConfigTypeOK
<1>1. ASSUME NEW f \in File, Select(f) PROVE ConfigInv'
  BY <1>1, <1>t, StartLoadKeeps DEF Select
<1>2. ASSUME NEW f \in File, OtherWrites(f) PROVE ConfigInv'
  <2>1. file' \in [File -> Content] /\ newest' \in Content
    BY <1>2, <1>t DEF OtherWrites, Content
  <2>2. UNCHANGED <<listed, configListing, selectedConfig, configLoading, version, loadedConfig, text,
                    configLoads, configSaves>>
    BY <1>2 DEF OtherWrites, configEditor
  <2> QED
    BY <2>1, <2>2 DEF ConfigTypeOK, EditorInv, SaveInv
<1>3. CASE OpenPage
  BY <1>3 DEF OpenPage, ConfigTypeOK, EditorInv, SaveInv
<1>4. CASE EditText
  <2>1. configSaves = {} /\ text' \in [content : Content, load : 0..LastLoad, base : Base]
        /\ newest' \in Content /\ text'.base = text.base
    BY <1>4, <1>t DEF EditText, Content
  <2> QED
    BY <1>4, <2>1 DEF EditText, ConfigTypeOK, EditorInv, SaveInv
<1>5. CASE SaveServerConfig
  <2> DEFINE new == [name |-> selectedConfig, content |-> text.content, load |-> text.load,
                     base |-> text.base, stage |-> "check", seen |-> 0]
  <2>1. configSaves' = {new} /\ MaySave
    BY <1>5 DEF SaveServerConfig
  <2>2. selectedConfig \in File
    BY <1>t, <2>1 DEF MaySave
  <2>3. new \in [name : File, content : Content, load : 0..LastLoad, base : Base,
                 stage : {"check", "checked", "write", "written"}, seen : Content]
    BY <1>t, <2>2 DEF Content
  <2>4. ConfigTypeOK'
    BY <1>5, <2>1, <2>3 DEF SaveServerConfig, ConfigTypeOK, configEditor
  <2>5. EditorInv'
    BY <1>5 DEF SaveServerConfig, EditorInv, configEditor
  <2>6. SaveInv'
    BY <1>5, <2>1 DEF SaveServerConfig, MaySave, SaveInv, configEditor
  <2> QED
    BY <2>4, <2>5, <2>6
<1>6. CASE ListAnswered
  <2>1. PICK files \in SUBSET File :
          /\ listed' = files
          /\ LET chosen == IF selectedConfig # NoFile \/ files = {} THEN selectedConfig
                           ELSE IF Preferred \in files THEN Preferred
                           ELSE CHOOSE f \in files : TRUE
             IN IF chosen # NoFile /\ text.content = 0 /\ loadedConfig.name = NoFile
                THEN StartLoad(chosen)
                ELSE selectedConfig' = chosen /\ UNCHANGED <<configLoading, version, loadedConfig, configLoads>>
    BY <1>6 DEF ListAnswered
  <2> DEFINE chosen == IF selectedConfig # NoFile \/ files = {} THEN selectedConfig
                       ELSE IF Preferred \in files THEN Preferred
                       ELSE CHOOSE f \in files : TRUE
  <2>2. chosen \in File \cup {NoFile} /\ (selectedConfig # NoFile => chosen = selectedConfig)
    BY <1>t
  <2>3. configListing' = 0 /\ UNCHANGED <<file, newest, text, configSaves>>
    BY <1>6 DEF ListAnswered
  <2>4. CASE chosen # NoFile /\ text.content = 0 /\ loadedConfig.name = NoFile
    <3>1. configSaves = {}
      BY <2>4 DEF SaveInv
    <3>2. chosen \in File /\ StartLoad(chosen)
      BY <2>1, <2>2, <2>4
    <3> HIDE DEF chosen
    <3> QED
      BY <2>1, <2>3, <3>1, <3>2, StartLoadKeeps
  <2>5. CASE ~(chosen # NoFile /\ text.content = 0 /\ loadedConfig.name = NoFile)
    <3>1. selectedConfig' = chosen /\ UNCHANGED <<configLoading, version, loadedConfig, configLoads>>
      BY <2>1, <2>5
    <3>2. configSaves # {} => selectedConfig # NoFile
      BY <1>t DEF SaveInv
    <3> HIDE DEF chosen
    <3> QED
      BY <1>t, <2>1, <2>2, <2>3, <3>1, <3>2 DEF ConfigTypeOK, EditorInv, SaveInv
  <2> QED
    BY <2>4, <2>5
<1>7. ASSUME NEW r \in configLoads, ServeLoad(r) PROVE ConfigInv'
  <2> DEFINE new == [r EXCEPT !.content = file[r.name]]
  <2>1. /\ configLoads' = (configLoads \ {r}) \cup {new}
        /\ UNCHANGED <<file, newest, listed, configListing, selectedConfig, configLoading, version,
                       loadedConfig, text, configSaves>>
    BY <1>7 DEF ServeLoad, configEditor
  <2>2. /\ new \in [version : 1..LastLoad, name : File, content : 0..Unserved]
        /\ new.version = r.version
    BY <1>t DEF Content, Unserved
  <2> HIDE DEF new
  <2> QED
    BY <1>t, <2>1, <2>2 DEF ConfigTypeOK, EditorInv, SaveInv
<1>8. ASSUME NEW r \in configLoads, LoadAnswered(r) PROVE ConfigInv'
  <2>1. CASE Current(r)
    <3>1. configLoading /\ configSaves = {}
      BY <1>8, <2>1 DEF Current, EditorInv, SaveInv
    <3>2. r.content \in Content /\ r.name \in File /\ r.version \in 0..LastLoad
      BY <1>8, <1>t DEF LoadAnswered, Content, Unserved
    <3>3. <<r.name, r.content>> \in Base
      BY <3>2 DEF Base
    <3>4. ConfigTypeOK'
      <4>1. /\ selectedConfig' = r.name /\ configLoading' = FALSE
            /\ loadedConfig' = [name |-> r.name, content |-> r.content]
            /\ text' = [content |-> r.content, load |-> r.version, base |-> <<r.name, r.content>>]
        BY <1>8, <2>1 DEF LoadAnswered
      <4>2. text' \in [content : Content, load : 0..LastLoad, base : Base]
        BY <4>1, <3>2, <3>3
      <4>3. loadedConfig' \in [name : File \cup {NoFile}, content : Content]
        BY <4>1, <3>2
      <4> QED
        BY <1>8, <1>t, <3>2, <4>1, <4>2, <4>3 DEF LoadAnswered, ConfigTypeOK
    <3>5. EditorInv'
      BY <1>8, <1>t, <2>1, <3>2 DEF LoadAnswered, EditorInv, Current
    <3>6. SaveInv'
      BY <1>8, <3>1 DEF LoadAnswered, SaveInv
    <3> QED
      BY <3>4, <3>5, <3>6
  <2>2. CASE ~Current(r)
    BY <1>8, <2>2 DEF LoadAnswered, ConfigTypeOK, EditorInv, SaveInv
  <2> QED
    BY <2>1, <2>2
<1>9. ASSUME NEW r \in configLoads, LoadFailed(r) PROVE ConfigInv'
  <2>1. CASE Current(r)
    <3>1. configLoading /\ configSaves = {}
      BY <1>9, <2>1 DEF Current, EditorInv, SaveInv
    <3>2. NothingLoaded \in [name : File \cup {NoFile}, content : Content] /\ NothingLoaded.name = NoFile
      BY DEF NothingLoaded, Content
    <3>3. ConfigTypeOK'
      BY <1>9, <1>t, <2>1, <3>2 DEF LoadFailed, ConfigTypeOK
    <3>4. EditorInv' /\ SaveInv'
      BY <1>9, <1>t, <2>1, <3>1, <3>2 DEF LoadFailed, Current, EditorInv, SaveInv
    <3> QED
      BY <3>3, <3>4
  <2>2. CASE ~Current(r)
    BY <1>9, <2>2 DEF LoadFailed, ConfigTypeOK, EditorInv, SaveInv
  <2> QED
    BY <2>1, <2>2
<1>10. ASSUME NEW s \in configSaves, ServeConfigCheck(s) PROVE ConfigInv'
  <2> DEFINE new == [s EXCEPT !.stage = "checked", !.seen = file[s.name]]
  <2>1. /\ s.stage = "check" /\ configSaves' = (configSaves \ {s}) \cup {new}
        /\ UNCHANGED <<file, newest, listed, configListing, selectedConfig, configLoading, version,
                       loadedConfig, text, configLoads>>
    BY <1>10 DEF ServeConfigCheck, configEditor
  <2>2. /\ new \in [name : File, content : Content, load : 0..LastLoad, base : Base,
                     stage : {"check", "checked", "write", "written"}, seen : Content]
        /\ new.name = s.name /\ new.load = s.load /\ new.base = s.base /\ new.stage = "checked"
    BY <1>t
  <2> HIDE DEF new
  <2> QED
    BY <1>t, <2>1, <2>2 DEF ConfigTypeOK, EditorInv, SaveInv
<1>11. ASSUME NEW s \in configSaves, CheckAnswered(s) PROVE ConfigInv'
  <2>1. CASE Unchanged(s)
    <3> DEFINE new == [s EXCEPT !.stage = "write"]
    <3>1. /\ s.stage = "checked" /\ configSaves' = (configSaves \ {s}) \cup {new}
          /\ UNCHANGED <<file, newest, listed, configListing, selectedConfig, configLoading, version,
                         loadedConfig, text, configLoads>>
      BY <1>11, <2>1 DEF CheckAnswered
    <3>2. /\ new \in [name : File, content : Content, load : 0..LastLoad, base : Base,
                       stage : {"check", "checked", "write", "written"}, seen : Content]
          /\ new.name = s.name /\ new.load = s.load /\ new.base = s.base /\ new.stage = "write"
          /\ new.seen = s.seen
      BY <1>t
    <3>3. s.base = <<s.name, s.seen>>
      BY <2>1, <3>1 DEF Unchanged, EditorInv, SaveInv
    <3> HIDE DEF new
    <3> QED
      BY <1>t, <3>1, <3>2, <3>3 DEF ConfigTypeOK, EditorInv, SaveInv
  <2>2. CASE ~Unchanged(s)
    <3>1. /\ configSaves' = configSaves \ {s} /\ loadedConfig' = NothingLoaded
          /\ UNCHANGED <<file, newest, listed, configListing, selectedConfig, configLoading, version,
                         text, configLoads>>
      BY <1>11, <2>2 DEF CheckAnswered
    <3>2. NothingLoaded \in [name : File \cup {NoFile}, content : Content] /\ NothingLoaded.name = NoFile
      BY DEF NothingLoaded, Content
    <3>3. configSaves' = {}
      BY <3>1 DEF SaveInv
    <3> QED
      BY <1>t, <3>1, <3>2, <3>3 DEF ConfigTypeOK, EditorInv, SaveInv
  <2> QED
    BY <2>1, <2>2
<1>12. ASSUME NEW s \in configSaves, ServeWrite(s) PROVE ConfigInv'
  <2> DEFINE new == [s EXCEPT !.stage = "written"]
  <2>1. /\ s.stage = "write" /\ configSaves' = (configSaves \ {s}) \cup {new}
        /\ file' = [file EXCEPT ![s.name] = s.content]
        /\ UNCHANGED <<newest, listed, configListing, selectedConfig, configLoading, version,
                       loadedConfig, text, configLoads>>
    BY <1>12 DEF ServeWrite, configEditor
  <2>2. /\ new \in [name : File, content : Content, load : 0..LastLoad, base : Base,
                     stage : {"check", "checked", "write", "written"}, seen : Content]
        /\ new.name = s.name /\ new.load = s.load /\ new.base = s.base /\ new.stage = "written"
        /\ new.seen = s.seen
        /\ file' \in [File -> Content]
    BY <1>t, <2>1
  <2> HIDE DEF new
  <2> QED
    BY <1>t, <2>1, <2>2 DEF ConfigTypeOK, EditorInv, SaveInv
<1>13. ASSUME NEW s \in configSaves, WriteAnswered(s) PROVE ConfigInv'
  <2>1. /\ configSaves' = configSaves \ {s}
        /\ loadedConfig' = [name |-> s.name, content |-> s.content]
        /\ text' = [text EXCEPT !.base = <<s.name, s.content>>]
        /\ configListing' = 1
        /\ UNCHANGED <<file, newest, listed, selectedConfig, configLoading, version, configLoads>>
    BY <1>13 DEF WriteAnswered, SaveInv
  <2>2. configSaves' = {} /\ s.name = selectedConfig /\ ~configLoading
    BY <2>1 DEF SaveInv
  <2>3. s.name \in File /\ s.content \in Content /\ <<s.name, s.content>> \in Base
    BY <1>t DEF Base
  <2>4. ConfigTypeOK'
    BY <1>t, <2>1, <2>2, <2>3 DEF ConfigTypeOK
  <2>5. EditorInv'
    BY <1>t, <2>1, <2>2, <2>3 DEF EditorInv
  <2>6. SaveInv'
    BY <2>2 DEF SaveInv
  <2> QED
    BY <2>4, <2>5, <2>6
<1>14. ASSUME NEW s \in configSaves, SaveConfigFailed(s) PROVE ConfigInv'
  <2>1. configSaves' = {}
    BY <1>14 DEF SaveConfigFailed, SaveInv
  <2> QED
    BY <1>14, <2>1 DEF SaveConfigFailed, ConfigTypeOK, EditorInv, SaveInv
<1>15. CASE UNCHANGED config
  BY <1>15 DEF config, configEditor, ConfigTypeOK, EditorInv, SaveInv
<1> QED
  BY <1>1, <1>2, <1>3, <1>4, <1>5, <1>6, <1>7, <1>8, <1>9, <1>10, <1>11, <1>12, <1>13, <1>14, <1>15
     DEF ConfigNext, ServerOrNetwork

\* A save of a configuration file never replaces a version that its author has not seen
\* (but for what is written between the answer of the check and the write), and
\* the Save button is only enabled for text of the selected file: for any files, however
\* late saveServerConfig and loadServerConfig are answered, of an administrator who
\* waits for a save to end.
THEOREM SavesWhatWasSeen ==
  ASSUME Waits
  PROVE  ConfigSpec => []NoLostUpdate
<1>1. ConfigInit => ConfigInv
  BY ConfigStart
<1>2. ConfigInv /\ [ConfigNext]_config => ConfigInv'
  BY ConfigStep
<1>3. ConfigInv => NoLostUpdate
  BY DEF ConfigInv, EditorInv, SaveInv, NoLostUpdate, MaySave
<1> QED
  BY <1>1, <1>2, <1>3, PTL DEF ConfigSpec

\* The types are kept whether the administrator waits or not.
LEMMA ConfigTypesStep ==
  ASSUME ConfigTypeOK, [ConfigNext]_config
  PROVE  ConfigTypeOK'
<1> USE ConfigConstantsOK
<1> DEFINE Load == [version : 1..LastLoad, name : File, content : 0..Unserved]
           SaveOf == [name : File, content : Content, load : 0..LastLoad, base : Base,
                       stage : {"check", "checked", "write", "written"}, seen : Content]
<1>t. /\ file \in [File -> Content] /\ newest \in Content
      /\ listed \subseteq File /\ configListing \in 0..1
      /\ selectedConfig \in File \cup {NoFile}
      /\ configLoading \in BOOLEAN /\ version \in 0..LastLoad
      /\ loadedConfig \in [name : File \cup {NoFile}, content : Content]
      /\ text \in [content : Content, load : 0..LastLoad, base : Base]
      /\ configLoads \subseteq Load /\ configSaves \subseteq SaveOf
  BY DEF ConfigTypeOK
<1>n. NothingLoaded \in [name : File \cup {NoFile}, content : Content]
  BY DEF NothingLoaded, Content
<1>b. ASSUME NEW f \in File, NEW c \in Content PROVE <<f, c>> \in Base
  BY DEF Base
\* A load that starts.
<1>l. ASSUME NEW f \in File, StartLoad(f)
      PROVE  /\ selectedConfig' \in File \cup {NoFile} /\ configLoading' \in BOOLEAN
             /\ version' \in 0..LastLoad /\ configLoads' \subseteq Load
             /\ loadedConfig' \in [name : File \cup {NoFile}, content : Content]
  <2>1. /\ version < LastLoad /\ version' = version + 1
        /\ selectedConfig' = f /\ configLoading' = TRUE /\ loadedConfig' = NothingLoaded
        /\ configLoads' = configLoads \cup {[version |-> version + 1, name |-> f, content |-> Unserved]}
    BY <1>l DEF StartLoad
  <2>2. version + 1 \in 0..LastLoad
    BY <1>t, <2>1
  <2> QED
    BY <1>t, <1>n, <2>1, <2>2, LoadTyped
<1>1. ASSUME NEW f \in File, Select(f) PROVE ConfigTypeOK'
  <2>1. StartLoad(f) /\ UNCHANGED <<file, newest, listed, configListing, text, configSaves>>
    BY <1>1 DEF Select
  <2> QED
    BY <1>t, <1>l, <2>1 DEF ConfigTypeOK
<1>2. ASSUME NEW f \in File, OtherWrites(f) PROVE ConfigTypeOK'
  <2>1. file' \in [File -> Content] /\ newest' \in Content
    BY <1>2, <1>t DEF OtherWrites, Content
  <2> QED
    BY <1>2, <1>t, <2>1 DEF OtherWrites, configEditor, ConfigTypeOK
<1>3. CASE OpenPage
  BY <1>3, <1>t DEF OpenPage, ConfigTypeOK
<1>4. CASE EditText
  <2>1. text' \in [content : Content, load : 0..LastLoad, base : Base] /\ newest' \in Content
    BY <1>4, <1>t DEF EditText, Content
  <2> QED
    BY <1>4, <1>t, <2>1 DEF EditText, ConfigTypeOK
<1>5. CASE SaveServerConfig
  <2> DEFINE new == [name |-> selectedConfig, content |-> text.content, load |-> text.load,
                     base |-> text.base, stage |-> "check", seen |-> 0]
  <2>1. configSaves' = configSaves \cup {new} /\ selectedConfig \in File
    BY <1>5, <1>t DEF SaveServerConfig, MaySave
  <2>2. new \in SaveOf
    BY <1>t, <2>1 DEF Content
  <2> HIDE DEF new
  <2> QED
    BY <1>5, <1>t, <2>1, <2>2 DEF SaveServerConfig, configEditor, ConfigTypeOK
<1>6. CASE ListAnswered
  <2>1. PICK files \in SUBSET File :
          /\ listed' = files
          /\ LET chosen == IF selectedConfig # NoFile \/ files = {} THEN selectedConfig
                           ELSE IF Preferred \in files THEN Preferred
                           ELSE CHOOSE f \in files : TRUE
             IN IF chosen # NoFile /\ text.content = 0 /\ loadedConfig.name = NoFile
                THEN StartLoad(chosen)
                ELSE selectedConfig' = chosen /\ UNCHANGED <<configLoading, version, loadedConfig, configLoads>>
    BY <1>6 DEF ListAnswered
  <2> DEFINE chosen == IF selectedConfig # NoFile \/ files = {} THEN selectedConfig
                       ELSE IF Preferred \in files THEN Preferred
                       ELSE CHOOSE f \in files : TRUE
  <2>2. chosen \in File \cup {NoFile}
    BY <1>t
  <2>3. configListing' = 0 /\ UNCHANGED <<file, newest, text, configSaves>>
    BY <1>6 DEF ListAnswered
  <2>4. \/ chosen \in File /\ StartLoad(chosen)
        \/ selectedConfig' = chosen /\ UNCHANGED <<configLoading, version, loadedConfig, configLoads>>
    BY <2>1, <2>2
  <2> HIDE DEF chosen
  <2> QED
    BY <1>t, <1>l, <2>1, <2>2, <2>3, <2>4 DEF ConfigTypeOK
<1>7. ASSUME NEW r \in configLoads, ServeLoad(r) PROVE ConfigTypeOK'
  <2> DEFINE new == [r EXCEPT !.content = file[r.name]]
  <2>1. configLoads' = (configLoads \ {r}) \cup {new}
    BY <1>7 DEF ServeLoad
  <2>2. new \in Load
    BY <1>t DEF Content, Unserved
  <2> HIDE DEF new
  <2> QED
    BY <1>7, <1>t, <2>1, <2>2 DEF ServeLoad, configEditor, ConfigTypeOK
<1>8. ASSUME NEW r \in configLoads, LoadAnswered(r) PROVE ConfigTypeOK'
  <2>1. r.content \in Content /\ r.name \in File /\ r.version \in 0..LastLoad
    BY <1>8, <1>t DEF LoadAnswered, Content, Unserved
  <2>2. /\ [name |-> r.name, content |-> r.content] \in [name : File \cup {NoFile}, content : Content]
        /\ [content |-> r.content, load |-> r.version, base |-> <<r.name, r.content>>]
             \in [content : Content, load : 0..LastLoad, base : Base]
    BY <1>b, <2>1
  <2> QED
    BY <1>8, <1>t, <2>1, <2>2 DEF LoadAnswered, ConfigTypeOK
<1>9. ASSUME NEW r \in configLoads, LoadFailed(r) PROVE ConfigTypeOK'
  BY <1>9, <1>t, <1>n DEF LoadFailed, ConfigTypeOK
<1>10. ASSUME NEW s \in configSaves, ServeConfigCheck(s) PROVE ConfigTypeOK'
  <2> DEFINE new == [s EXCEPT !.stage = "checked", !.seen = file[s.name]]
  <2>1. configSaves' = (configSaves \ {s}) \cup {new}
    BY <1>10 DEF ServeConfigCheck
  <2>2. s \in SaveOf /\ file[s.name] \in Content
    BY <1>t
  <2>3. new \in SaveOf
    BY <2>2
  <2> HIDE DEF new
  <2> QED
    BY <1>10, <1>t, <2>1, <2>3 DEF ServeConfigCheck, configEditor, ConfigTypeOK
<1>11. ASSUME NEW s \in configSaves, CheckAnswered(s) PROVE ConfigTypeOK'
  <2> DEFINE new == [s EXCEPT !.stage = "write"]
  <2>1. /\ configSaves' \in {(configSaves \ {s}) \cup {new}, configSaves \ {s}}
        /\ loadedConfig' \in {loadedConfig, NothingLoaded}
    BY <1>11 DEF CheckAnswered
  <2>2. new \in SaveOf
    BY <1>t
  <2> HIDE DEF new
  <2> QED
    BY <1>11, <1>t, <1>n, <2>1, <2>2 DEF CheckAnswered, ConfigTypeOK
<1>12. ASSUME NEW s \in configSaves, ServeWrite(s) PROVE ConfigTypeOK'
  <2> DEFINE new == [s EXCEPT !.stage = "written"]
  <2>1. configSaves' = (configSaves \ {s}) \cup {new} /\ file' = [file EXCEPT ![s.name] = s.content]
    BY <1>12 DEF ServeWrite
  <2>2. new \in SaveOf /\ file' \in [File -> Content]
    BY <1>t, <2>1
  <2> HIDE DEF new
  <2> QED
    BY <1>12, <1>t, <2>1, <2>2 DEF ServeWrite, configEditor, ConfigTypeOK
<1>13. ASSUME NEW s \in configSaves, WriteAnswered(s) PROVE ConfigTypeOK'
  <2>1. s.name \in File /\ s.content \in Content /\ <<s.name, s.content>> \in Base
    BY <1>t, <1>b
  <2>2. /\ loadedConfig' \in [name : File \cup {NoFile}, content : Content]
        /\ text' \in [content : Content, load : 0..LastLoad, base : Base]
    BY <1>13, <1>t, <2>1 DEF WriteAnswered
  <2> QED
    BY <1>13, <1>t, <2>2 DEF WriteAnswered, ConfigTypeOK
<1>14. ASSUME NEW s \in configSaves, SaveConfigFailed(s) PROVE ConfigTypeOK'
  BY <1>14, <1>t DEF SaveConfigFailed, ConfigTypeOK
<1>15. CASE UNCHANGED config
  BY <1>15 DEF config, configEditor, ConfigTypeOK
<1> QED
  BY <1>1, <1>2, <1>3, <1>4, <1>5, <1>6, <1>7, <1>8, <1>9, <1>10, <1>11, <1>12, <1>13, <1>14, <1>15
     DEF ConfigNext, ServerOrNetwork

LEMMA ConfigTypes == ConfigSpec => []ConfigTypeOK
<1>1. ConfigInit => ConfigTypeOK
  BY ConfigStart DEF ConfigInv
<1>2. ConfigTypeOK /\ [ConfigNext]_config => ConfigTypeOK'
  BY ConfigTypesStep
<1> QED
  BY <1>1, <1>2, PTL DEF ConfigSpec

---------------------------------------------------------------------------
(* The configurations of the modules.                                      *)

\* The configurations that hold the settings of m and no others, and what a read of the
\* list or of a module finds.
OwnConfig(m) == {c \in Config : c.of = {m}}
OwnRead == {read \in [Module -> Config \cup {None}] : \A m \in Module : read[m] # None => read[m] \in OwnConfig(m)}
AnyRefresh(stages) == [stage : stages, read : OwnRead, left : SUBSET Builtin]
AnyListing == AnyRefresh({"none", "sent", "served"})
AnyRefreshing == AnyRefresh({"none", "sent", "listed"})
AnySave ==
  [stage : {"none", "checking", "checked", "posting", "posted"}, name : Module \cup {None},
   key : Module \cup {None}, baseline : Config \cup {None}, config : Config \cup {None}]

\* A save has a module, and what it writes was made for the module it names.
SaveIsOwn(r) ==
  /\ r.stage # "none" => r.key \in Module /\ selectedModule # None
  /\ r.stage \in {"posting", "posted"} => r.name \in Module /\ r.config \in OwnConfig(r.name)

\* Whatever is under way, the draft and an open editor are the selected module's.
PageIsOwn ==
  /\ selectedModule \in Module \cup {None} /\ moduleEditor \in {None, selectedModule}
  /\ IF selectedModule = None THEN moduleDraft = None ELSE moduleDraft \in OwnConfig(selectedModule)

ModulesInv ==
  /\ serverModules \in [Module -> Config] /\ \A m \in Module : serverModules[m] \in OwnConfig(m)
  /\ \A m \in Module : modules[m] = None \/ modules[m] \in [config : OwnConfig(m), synthetic : BOOLEAN]
  /\ baselines \in [Module -> Config \cup {None}]
  /\ PageIsOwn
  /\ moduleListing \in AnyListing
  /\ moduleRefreshes \in [1..ModuleRefreshMax -> AnyRefreshing]
  /\ moduleSaves \in [1..SaveMax -> AnySave]
  /\ \A i \in 1..SaveMax : SaveIsOwn(moduleSaves[i])

\* What is missing is neither a module nor a configuration, and an edit keeps what a
\* configuration was made for.
LEMMA ConfigsAreOwn ==
  /\ None \notin Module /\ None \notin Config /\ \A m \in Module : None \notin OwnConfig(m)
  /\ \A m \in Module : OwnConfig(m) \subseteq Config
  /\ \A m \in Module, v \in Setting \cup {Fallback} : ConfigOf(m, v) \in OwnConfig(m)
  /\ \A m \in Module, v \in Setting : \A c \in OwnConfig(m) :
       /\ [c EXCEPT !.value = v] \in OwnConfig(m)
       /\ [of |-> c.of \cup {m}, value |-> v] \in OwnConfig(m)
<1>1. None \notin Module /\ None \notin Config
  BY ModuleConstantsOK
<1>2. ASSUME NEW m \in Module, NEW v \in Setting \cup {Fallback} PROVE ConfigOf(m, v) \in OwnConfig(m)
  BY DEF ConfigOf, OwnConfig, Config
<1>3. ASSUME NEW m \in Module, NEW v \in Setting, NEW c \in OwnConfig(m)
      PROVE  /\ [c EXCEPT !.value = v] \in OwnConfig(m)
             /\ [of |-> c.of \cup {m}, value |-> v] \in OwnConfig(m)
  <2>1. c.of = {m} /\ c \in [of : SUBSET Module, value : Setting \cup {Fallback}]
    BY DEF OwnConfig, Config
  <2>2. c.of \cup {m} = {m}
    BY <2>1
  <2> QED
    BY <2>1, <2>2 DEF OwnConfig, Config
<1> QED
  BY <1>1, <1>2, <1>3 DEF OwnConfig

LEMMA NothingIsOwn ==
  /\ NoRefresh \in AnyListing /\ NoRefresh \in AnyRefreshing
  /\ NoConfigSave \in AnySave /\ SaveIsOwn(NoConfigSave)
<1>1. [m \in Module |-> None] \in OwnRead
  BY DEF OwnRead
<1> QED
  BY <1>1 DEF NoRefresh, NoConfigSave, AnyListing, AnyRefreshing, AnyRefresh, AnySave, SaveIsOwn

LEMMA ModulesStart == ModuleInit => ModulesInv
<1> SUFFICES ASSUME ModuleInit PROVE ModulesInv
  OBVIOUS
<1>1. PICK v \in Setting : serverModules = [m \in Module |-> ConfigOf(m, v)]
  BY DEF ModuleInit
<1>2. /\ modules = [m \in Module |-> None] /\ baselines = [m \in Module |-> None]
      /\ selectedModule = None /\ moduleDraft = None /\ moduleEditor = None
      /\ moduleListing = NoRefresh
      /\ moduleRefreshes = [i \in 1..ModuleRefreshMax |-> NoRefresh]
      /\ moduleSaves = [i \in 1..SaveMax |-> NoConfigSave]
  BY DEF ModuleInit
<1>3. serverModules \in [Module -> Config] /\ \A m \in Module : serverModules[m] \in OwnConfig(m)
  BY <1>1, ConfigsAreOwn
<1>4. \A i \in 1..SaveMax : SaveIsOwn(moduleSaves[i])
  BY <1>2, NothingIsOwn
<1> QED
  BY <1>2, <1>3, <1>4, NothingIsOwn DEF ModulesInv, PageIsOwn

\* The reads: of the list for the other pages, and of a refresh.
LEMMA ReadsAreOwn ==
  ASSUME ModulesInv
  PROVE  /\ ListFrom(serverModules) \in OwnRead
         /\ \A read \in OwnRead : \A m \in Module :
              Ensured(read)[m] \in [config : OwnConfig(m), synthetic : BOOLEAN]
<1>1. ListFrom(serverModules) \in OwnRead
  BY ConfigsAreOwn DEF ModulesInv, ListFrom, OwnRead
<1>2. ASSUME NEW read \in OwnRead, NEW m \in Module
      PROVE  Ensured(read)[m] \in [config : OwnConfig(m), synthetic : BOOLEAN]
  BY ConfigsAreOwn DEF OwnRead, Ensured
<1> QED
  BY <1>1, <1>2

LEMMA ListingKeepsOwn ==
  ASSUME ModulesInv, EnsureModulesLoaded \/ ServeEnsure \/ EnsureAnswered \/ EnsureFailed
  PROVE  ModulesInv'
<1> USE NothingIsOwn
<1>t. moduleListing \in AnyListing /\ moduleListing.read \in OwnRead
  BY DEF ModulesInv, AnyListing, AnyRefresh
<1>s. (\A i \in 1..SaveMax : SaveIsOwn(moduleSaves[i])) /\ UNCHANGED <<moduleSaves, selectedModule>>
        => (\A i \in 1..SaveMax : SaveIsOwn(moduleSaves[i]))'
  BY DEF SaveIsOwn
<1>1. CASE EnsureModulesLoaded
  <2>1. [NoRefresh EXCEPT !.stage = "sent"] \in AnyListing
    BY DEF AnyListing, AnyRefresh
  <2> QED
    BY <1>1, <1>s, <2>1 DEF EnsureModulesLoaded, editedModule, ModulesInv, PageIsOwn
<1>2. CASE ServeEnsure
  <2>1. [moduleListing EXCEPT !.stage = "served", !.read = ListFrom(serverModules)] \in AnyListing
    BY <1>t, ReadsAreOwn DEF AnyListing, AnyRefresh
  <2> QED
    BY <1>2, <1>s, <2>1 DEF ServeEnsure, editedModule, ModulesInv, PageIsOwn
<1>3. CASE EnsureAnswered
  <2>1. \A m \in Module : modules'[m] \in [config : OwnConfig(m), synthetic : BOOLEAN]
    BY <1>3, <1>t, ReadsAreOwn DEF EnsureAnswered
  <2> QED
    BY <1>3, <1>s, <2>1 DEF EnsureAnswered, editedModule, ModulesInv, PageIsOwn
<1>4. CASE EnsureFailed
  BY <1>4, <1>s DEF EnsureFailed, editedModule, ModulesInv, PageIsOwn
<1> QED
  BY <1>1, <1>2, <1>3, <1>4

LEMMA RefreshKeepsOwn ==
  ASSUME ModulesInv, NEW i \in 1..ModuleRefreshMax,
         \/ RefreshModules(i) \/ ServeList(i) \/ ListFailed(i) \/ ModulesAnswered(i)
         \/ \E m \in Builtin : Hydrate(i, m)
  PROVE  ModulesInv'
<1> USE NothingIsOwn
<1> DEFINE old == moduleRefreshes[i]
<1>t. moduleRefreshes \in [1..ModuleRefreshMax -> AnyRefreshing] /\ old \in AnyRefreshing /\ old.read \in OwnRead
  BY DEF ModulesInv, AnyRefreshing, AnyRefresh
\* What the steps before the last one have in common.
<1>a. ASSUME NEW r \in AnyRefreshing, moduleRefreshes' = [moduleRefreshes EXCEPT ![i] = r],
             UNCHANGED <<serverModules, modules, baselines, editedModule, moduleListing, moduleSaves>>
      PROVE  ModulesInv'
  <2>1. moduleRefreshes' \in [1..ModuleRefreshMax -> AnyRefreshing]
    BY <1>t, <1>a
  <2> QED
    BY <1>a, <2>1 DEF ModulesInv, PageIsOwn, SaveIsOwn, editedModule
<1>1. CASE RefreshModules(i)
  <2> DEFINE r == [old EXCEPT !.stage = "sent"]
  <2>1. r \in AnyRefreshing
    BY <1>t DEF AnyRefreshing, AnyRefresh
  <2> QED
    BY <1>1, <1>a, <1>t, <2>1 DEF RefreshModules, SendRefresh, AnyRefreshing, AnyRefresh
<1>2. CASE ServeList(i)
  <2> DEFINE r == [old EXCEPT !.stage = "listed", !.read = ListFrom(serverModules), !.left = Builtin]
  <2>1. r \in AnyRefreshing
    BY <1>t, ReadsAreOwn DEF AnyRefreshing, AnyRefresh
  <2> QED
    BY <1>2, <1>a, <1>t, <2>1 DEF ServeList, AnyRefreshing, AnyRefresh
<1>3. CASE ListFailed(i)
  BY <1>3, <1>a DEF ListFailed
<1>4. ASSUME NEW m \in Builtin, Hydrate(i, m) PROVE ModulesInv'
  <2>1. PICK read \in {serverModules[m], old.read[m]} :
          moduleRefreshes' = [moduleRefreshes EXCEPT ![i].read[m] = read, ![i].left = @ \ {m}]
    BY <1>4 DEF Hydrate
  <2>2. m \in Module /\ (read = None \/ read \in OwnConfig(m))
    BY <1>t, <2>1 DEF Module, OwnRead, ModulesInv
  <2> DEFINE reads == [old.read EXCEPT ![m] = read]
             r == [old EXCEPT !.read = reads, !.left = @ \ {m}]
  <2>3. moduleRefreshes' = [moduleRefreshes EXCEPT ![i] = r]
    BY <1>t, <2>1 DEF AnyRefreshing, AnyRefresh
  <2>4. reads \in OwnRead
    BY <1>t, <2>2, ConfigsAreOwn DEF OwnRead
  <2> HIDE DEF reads
  <2>5. r \in AnyRefreshing
    BY <1>t, <2>4 DEF AnyRefreshing, AnyRefresh
  <2> HIDE DEF r
  <2> QED
    BY <1>4, <1>a, <2>3, <2>5 DEF Hydrate
<1>5. CASE ModulesAnswered(i)
  <2> DEFINE list == Ensured(old.read)
             chosen == IF selectedModule = None THEN CHOOSE x \in Module : TRUE ELSE selectedModule
  <2>1. PICK m \in Module : m = chosen
    BY ModuleConstantsOK DEF ModulesInv, PageIsOwn, Module
  <2>2. /\ modules' = list /\ baselines' = Baselines(list)
        /\ selectedModule' = m /\ moduleDraft' = list[m].config
        /\ moduleRefreshes' = [moduleRefreshes EXCEPT ![i] = NoRefresh]
        /\ UNCHANGED <<serverModules, moduleEditor, moduleListing, moduleSaves>>
    BY <1>5, <2>1 DEF ModulesAnswered, RenderModule
  <2>3. \A x \in Module : list[x] \in [config : OwnConfig(x), synthetic : BOOLEAN]
    BY <1>t, ReadsAreOwn
  <2>4. moduleEditor \in {None, m}
    BY <2>1 DEF ModulesInv, PageIsOwn
  <2> HIDE DEF list, chosen
  <2>5. Baselines(list) \in [Module -> Config \cup {None}]
    BY <2>3, ConfigsAreOwn DEF Baselines
  <2>6. PageIsOwn'
    BY <2>2, <2>3, <2>4, ConfigsAreOwn DEF PageIsOwn
  <2>7. moduleRefreshes' \in [1..ModuleRefreshMax -> AnyRefreshing]
    BY <1>t, <2>2
  <2>8. (\A j \in 1..SaveMax : SaveIsOwn(moduleSaves[j]))'
    BY <2>2, ConfigsAreOwn DEF ModulesInv, SaveIsOwn
  <2> QED
    BY <2>2, <2>3, <2>5, <2>6, <2>7, <2>8 DEF ModulesInv
<1> QED
  BY <1>1, <1>2, <1>3, <1>4, <1>5

\* The cards of the list, the draft and its editors, and another administrator.
LEMMA PageKeepsOwn ==
  ASSUME ModulesInv, EditDraft \/ OpenSetting \/ CloseSetting \/ \E m \in Module : SelectModule(m) \/ ServerChanges(m)
  PROVE  ModulesInv'
\* What the steps on the page have in common.
<1>a. ASSUME PageIsOwn', selectedModule' # None,
             UNCHANGED <<serverModules, modules, baselines, moduleListing, moduleRefreshes, moduleSaves>>
      PROVE  ModulesInv'
  BY <1>a DEF ModulesInv, SaveIsOwn
<1>p. PageIsOwn
  BY DEF ModulesInv
<1>d. moduleDraft # None => selectedModule \in Module /\ selectedModule # None /\ moduleDraft \in OwnConfig(selectedModule)
  BY DEF ModulesInv, PageIsOwn
<1>1. CASE EditDraft
  <2>1. PICK v \in Setting : moduleDraft' = [moduleDraft EXCEPT !.value = v]
    BY <1>1 DEF EditDraft
  <2>2. moduleDraft' \in OwnConfig(selectedModule)
    BY <1>1, <1>d, <2>1, ConfigsAreOwn DEF EditDraft
  <2>3. PageIsOwn' /\ selectedModule' # None
    BY <1>1, <1>d, <2>2 DEF EditDraft, PageIsOwn, ModulesInv
  <2> QED
    BY <1>1, <1>a, <2>3 DEF EditDraft
<1>2. CASE OpenSetting
  <2>1. /\ moduleEditor' = selectedModule /\ selectedModule # None
        /\ UNCHANGED <<serverModules, modules, baselines, selectedModule, moduleDraft, moduleListing,
                       moduleRefreshes, moduleSaves>>
    BY <1>2, <1>d DEF OpenSetting
  <2>2. PageIsOwn'
    BY <1>p, <2>1 DEF PageIsOwn
  <2> QED
    BY <1>a, <2>1, <2>2
<1>3. CASE CloseSetting
  <2>1. /\ moduleEditor' = None
        /\ UNCHANGED <<serverModules, modules, baselines, selectedModule, moduleDraft, moduleListing,
                       moduleRefreshes, moduleSaves>>
    BY <1>3 DEF CloseSetting
  <2>2. PageIsOwn'
    BY <1>p, <2>1 DEF PageIsOwn
  <2> QED
    BY <2>1, <2>2 DEF ModulesInv, SaveIsOwn
<1>4. ASSUME NEW m \in Module, SelectModule(m) PROVE ModulesInv'
  <2>1. /\ selectedModule' = m /\ moduleDraft' = modules[m].config
        /\ moduleEditor' = IF m = selectedModule THEN moduleEditor ELSE None
        /\ UNCHANGED <<serverModules, modules, baselines, moduleListing, moduleRefreshes, moduleSaves>>
    BY <1>4 DEF SelectModule, RenderModule
  <2>2. modules[m].config \in OwnConfig(m)
    BY <1>4 DEF SelectModule, Loaded, ModulesInv
  <2>3. PageIsOwn' /\ selectedModule' # None
    BY <2>1, <2>2, ConfigsAreOwn DEF PageIsOwn, ModulesInv
  <2> QED
    BY <1>a, <2>1, <2>3
<1>5. ASSUME NEW m \in Module, ServerChanges(m) PROVE ModulesInv'
  <2>1. PICK v \in Setting : serverModules' = [serverModules EXCEPT ![m] = ConfigOf(m, v)]
    BY <1>5 DEF ServerChanges
  <2>2. ConfigOf(m, v) \in OwnConfig(m)
    BY ConfigsAreOwn
  <2>3. UNCHANGED <<modules, baselines, selectedModule, moduleDraft, moduleEditor, moduleListing,
                   moduleRefreshes, moduleSaves>>
    BY <1>5 DEF ServerChanges, editedModule
  <2>4. serverModules' \in [Module -> Config] /\ \A x \in Module : serverModules'[x] \in OwnConfig(x)
    BY <2>1, <2>2, ConfigsAreOwn DEF ModulesInv
  <2> QED
    BY <2>3, <2>4 DEF ModulesInv, PageIsOwn, SaveIsOwn
<1> QED
  BY <1>1, <1>2, <1>3, <1>4, <1>5

\* The steps of a save.
LEMMA SaveKeepsOwn ==
  ASSUME ModulesInv, NEW i \in 1..SaveMax,
         \/ SaveSelectedModule(i) \/ ServeModuleCheck(i) \/ ConfigCheckPassed(i) \/ Refused(i) \/ ServePost(i)
         \/ \E r \in 1..ModuleRefreshMax : PostAnswered(i, r)
  PROVE  ModulesInv'
<1> USE NothingIsOwn
<1> DEFINE old == moduleSaves[i]
<1>t. moduleSaves \in [1..SaveMax -> AnySave] /\ old \in AnySave /\ SaveIsOwn(old)
  BY DEF ModulesInv
\* What the steps have in common that leave the list and the server's configurations alone.
<1>a. ASSUME NEW r \in AnySave, moduleSaves' = [moduleSaves EXCEPT ![i] = r], SaveIsOwn(r), PageIsOwn',
             UNCHANGED <<serverModules, modules, baselines, selectedModule, moduleListing, moduleRefreshes>>
      PROVE  ModulesInv'
  <2>1. moduleSaves' \in [1..SaveMax -> AnySave]
    BY <1>t, <1>a
  <2>2. (\A j \in 1..SaveMax : SaveIsOwn(moduleSaves[j]))'
    BY <1>t, <1>a DEF ModulesInv, SaveIsOwn
  <2> QED
    BY <1>a, <2>1, <2>2 DEF ModulesInv
<1>p. UNCHANGED editedModule => PageIsOwn'
  BY DEF ModulesInv, PageIsOwn, editedModule
<1>1. CASE SaveSelectedModule(i)
  <2> DEFINE r == [NoConfigSave EXCEPT !.stage = "checking", !.key = selectedModule, !.baseline = baselines[selectedModule]]
  <2>1. selectedModule \in Module /\ selectedModule # None /\ baselines[selectedModule] \in Config \cup {None}
    BY <1>1 DEF SaveSelectedModule, ModulesInv, PageIsOwn
  <2>2. r \in AnySave /\ SaveIsOwn(r)
    BY <2>1 DEF AnySave, SaveIsOwn, NoConfigSave
  <2> QED
    BY <1>1, <1>a, <1>p, <2>2 DEF SaveSelectedModule, editedModule
<1>2. CASE ServeModuleCheck(i)
  <2> DEFINE r == [old EXCEPT !.stage = "checked", !.baseline = None]
  <2>1. r \in AnySave /\ SaveIsOwn(r)
    BY <1>2, <1>t DEF AnySave, SaveIsOwn, ServeModuleCheck
  <2>2. moduleSaves' = [moduleSaves EXCEPT ![i] = r]
    BY <1>2, <1>t DEF ServeModuleCheck, AnySave
  <2> HIDE DEF r
  <2> QED
    BY <1>2, <1>a, <1>p, <2>1, <2>2 DEF ServeModuleCheck, editedModule
<1>3. CASE Refused(i)
  BY <1>3, <1>a, <1>p DEF Refused, editedModule
<1>4. CASE ConfigCheckPassed(i)
  <2>1. /\ selectedModule \in Module /\ selectedModule # None /\ moduleDraft \in OwnConfig(selectedModule)
        /\ moduleEditor \in {None, selectedModule}
    BY <1>4, <1>t DEF ConfigCheckPassed, SaveIsOwn, ModulesInv, PageIsOwn
  <2>2. moduleDraft' \in OwnConfig(selectedModule)
    <3>1. FlushEditor
      BY <1>4 DEF ConfigCheckPassed
    <3>2. CASE moduleEditor = None
      BY <2>1, <3>1, <3>2 DEF FlushEditor
    <3>3. CASE moduleEditor # None
      <4>1. PICK v \in Setting : moduleDraft' = [of |-> moduleDraft.of \cup {selectedModule}, value |-> v]
        BY <2>1, <3>1, <3>3 DEF FlushEditor
      <4> QED
        BY <2>1, <4>1, ConfigsAreOwn
    <3> QED
      BY <3>2, <3>3
  <2>3. UNCHANGED <<serverModules, modules, baselines, selectedModule, moduleEditor, moduleListing, moduleRefreshes>>
    BY <1>4 DEF ConfigCheckPassed
  <2>4. PageIsOwn'
    BY <2>1, <2>2, <2>3 DEF PageIsOwn
  <2> DEFINE r == [old EXCEPT !.stage = "posting", !.name = selectedModule, !.config = moduleDraft']
  <2>5. r \in AnySave /\ SaveIsOwn(r)
    BY <1>4, <1>t, <2>1, <2>2, ConfigsAreOwn DEF AnySave, SaveIsOwn, ConfigCheckPassed
  <2>6. \/ moduleSaves' = [moduleSaves EXCEPT ![i] = r]
        \/ moduleSaves' = [moduleSaves EXCEPT ![i] = NoConfigSave]
    BY <1>4, <1>t DEF ConfigCheckPassed, AnySave, SavedName
  <2> HIDE DEF r
  <2> QED
    BY <1>a, <2>3, <2>4, <2>5, <2>6
<1>5. CASE ServePost(i)
  <2>1. PICK wrote \in BOOLEAN, answers \in BOOLEAN :
          /\ serverModules' = IF wrote THEN [serverModules EXCEPT ![old.name] = old.config] ELSE serverModules
          /\ moduleSaves' = [moduleSaves EXCEPT ![i] = IF answers THEN [@ EXCEPT !.stage = "posted"] ELSE NoConfigSave]
    BY <1>5 DEF ServePost
  <2> DEFINE r == IF answers THEN [old EXCEPT !.stage = "posted"] ELSE NoConfigSave
  <2>2. r \in AnySave /\ SaveIsOwn(r)
    BY <1>5, <1>t DEF AnySave, SaveIsOwn, ServePost
  <2>3. moduleSaves' = [moduleSaves EXCEPT ![i] = r]
    BY <2>1, <1>t DEF AnySave
  <2>4. old.name \in Module /\ old.config \in OwnConfig(old.name)
    BY <1>5, <1>t DEF ServePost, SaveIsOwn
  <2>5. serverModules' \in [Module -> Config] /\ \A m \in Module : serverModules'[m] \in OwnConfig(m)
    BY <2>1, <2>4, ConfigsAreOwn DEF ModulesInv
  <2>6. UNCHANGED <<modules, baselines, selectedModule, moduleDraft, moduleEditor, moduleListing, moduleRefreshes>>
    BY <1>5 DEF ServePost, editedModule
  <2> HIDE DEF r
  <2>7. moduleSaves' \in [1..SaveMax -> AnySave]
    BY <1>t, <2>2, <2>3
  <2>8. (\A j \in 1..SaveMax : SaveIsOwn(moduleSaves[j]))'
    BY <1>t, <2>2, <2>3, <2>6 DEF ModulesInv, SaveIsOwn
  <2> QED
    BY <2>5, <2>6, <2>7, <2>8 DEF ModulesInv, PageIsOwn
<1>6. ASSUME NEW q \in 1..ModuleRefreshMax, PostAnswered(i, q) PROVE ModulesInv'
  <2>1. /\ baselines' = [baselines EXCEPT ![old.key] = old.config]
        /\ moduleSaves' = [moduleSaves EXCEPT ![i] = NoConfigSave]
        /\ moduleRefreshes' = [moduleRefreshes EXCEPT ![q].stage = "sent"]
        /\ UNCHANGED <<serverModules, modules, selectedModule, moduleDraft, moduleEditor, moduleListing>>
    BY <1>6 DEF PostAnswered, SendRefresh, editedModule
  <2>2. baselines' \in [Module -> Config \cup {None}]
    BY <1>6, <1>t, <2>1 DEF PostAnswered, SaveIsOwn, ModulesInv, OwnConfig
  <2>3. moduleSaves' \in [1..SaveMax -> AnySave]
    BY <1>t, <2>1
  <2>4. (\A j \in 1..SaveMax : SaveIsOwn(moduleSaves[j]))'
    BY <1>t, <2>1 DEF ModulesInv, SaveIsOwn
  <2>5. moduleRefreshes \in [1..ModuleRefreshMax -> AnyRefreshing]
    BY DEF ModulesInv
  <2>6. [moduleRefreshes[q] EXCEPT !.stage = "sent"] \in AnyRefreshing
    BY <2>5 DEF AnyRefreshing, AnyRefresh
  <2>7. moduleRefreshes' = [moduleRefreshes EXCEPT ![q] = [moduleRefreshes[q] EXCEPT !.stage = "sent"]]
    BY <2>1, <2>5 DEF AnyRefreshing, AnyRefresh
  <2>8. moduleRefreshes' \in [1..ModuleRefreshMax -> AnyRefreshing]
    BY <2>5, <2>6, <2>7
  <2> QED
    BY <2>1, <2>2, <2>3, <2>4, <2>8 DEF ModulesInv, PageIsOwn
<1> QED
  BY <1>1, <1>2, <1>3, <1>4, <1>5, <1>6

LEMMA ModulesStep == ModulesInv /\ [ModuleNext]_moduleVars => ModulesInv'
<1> SUFFICES ASSUME ModulesInv, [ModuleNext]_moduleVars PROVE ModulesInv'
  OBVIOUS
<1>1. CASE UNCHANGED moduleVars
  BY <1>1 DEF moduleVars, editedModule, ModulesInv, PageIsOwn, SaveIsOwn
<1> QED
  <2>1. CASE EnsureModulesLoaded \/ ServeEnsure \/ EnsureAnswered \/ EnsureFailed
    BY <2>1, ListingKeepsOwn
  <2>2. CASE EditDraft \/ OpenSetting \/ CloseSetting \/ \E m \in Module : SelectModule(m) \/ ServerChanges(m)
    BY <2>2, PageKeepsOwn
  <2>3. ASSUME NEW i \in 1..ModuleRefreshMax,
               \/ RefreshModules(i) \/ ServeList(i) \/ ListFailed(i) \/ ModulesAnswered(i)
               \/ \E m \in Builtin : Hydrate(i, m)
        PROVE  ModulesInv'
    BY <2>3, RefreshKeepsOwn
  <2>4. ASSUME NEW i \in 1..SaveMax,
               \/ SaveSelectedModule(i) \/ ServeModuleCheck(i) \/ ConfigCheckPassed(i) \/ Refused(i)
               \/ ServePost(i) \/ \E r \in 1..ModuleRefreshMax : PostAnswered(i, r)
        PROVE  ModulesInv'
    BY <2>4, SaveKeepsOwn
  <2> QED
    BY <1>1, <2>1, <2>2, <2>3, <2>4 DEF ModuleNext

\* Under the name of a module the server keeps the settings of that module and of no
\* other, however many saves of saveSelectedModule and reads of refreshModules overlap, in
\* whatever order they are answered or lost, and whatever is selected, edited or left
\* open in an editor meanwhile.
THEOREM ConfigsStayOwn == ModuleSpec => []NoForeignConfig
<1>1. ModulesInv => NoForeignConfig
  BY DEF ModulesInv, NoForeignConfig, OwnConfig
<1> QED
  BY <1>1, ModulesStart, ModulesStep, PTL DEF ModuleSpec

\* The page of the modules keeps its types.
LEMMA ModuleTypes == ModuleSpec => []ModuleTypeOK
<1>1. ModulesInv => ModuleTypeOK
  <2> SUFFICES ASSUME ModulesInv PROVE ModuleTypeOK
    OBVIOUS
  <2>1. {selectedModule, moduleEditor} \subseteq Module \cup {None} /\ moduleDraft \in Config \cup {None}
    BY ConfigsAreOwn DEF ModulesInv, PageIsOwn
  <2>2. \A m \in Module : modules[m] = None \/ modules[m] \in [config : Config, synthetic : BOOLEAN]
    BY ConfigsAreOwn DEF ModulesInv
  <2> QED
    BY <2>1, <2>2 DEF ModulesInv, ModuleTypeOK, AnyListing, AnyRefreshing, AnyRefresh, AnySave
<1> QED
  BY <1>1, ModulesStart, ModulesStep, PTL DEF ModuleSpec

---------------------------------------------------------------------------
(* The rows of a module's draft.                                           *)

\* Rows that have been added, each of them once.
Distinct(s) == s \in Seq(DraftRow) /\ IsInjective(s) /\ \A j \in DOMAIN s : s[j] <= added
NewItem == IsOpen /\ kind = "items" /\ rowEditor.isNew

DraftInv ==
  /\ kind \in {"jobs", "items"} /\ added \in 0..LastDraftRow
  /\ Distinct(serverRows) /\ Distinct(loadedRows) /\ Distinct(draftRows)
  /\ reload = None \/ Distinct(reload)
  /\ rowEditor \in [index : Nat, isNew : BOOLEAN, row : DraftRow \cup {None}]
  /\ draftSave \in [stage : {"none", "checking", "posting", "refreshing"}, after : {"nothing", "finish", "run"},
                    index : Nat, clicked : DraftRow \cup {None}, rows : Seq(DraftRow)]
  /\ ran \in [clicked : DraftRow \cup {None}, job : DraftRow \cup {None}] /\ ran.job = ran.clicked
  /\ IsOpen /\ rowEditor.index # 0 => At(draftRows, rowEditor.index) = rowEditor.row
  /\ NewItem => /\ rowEditor.index = 0 /\ rowEditor.row <= added
                /\ \A j \in DOMAIN draftRows : draftRows[j] # rowEditor.row
  /\ reload # None => ~IsOpen /\ draftSave.stage = "none"
  /\ draftSave.stage \in {"posting", "refreshing"} => ~NewItem
  /\ draftSave.stage = "posting" => draftSave.rows = draftRows
  /\ draftSave.stage = "refreshing" => serverRows = draftRows
  /\ draftSave.stage # "none" /\ draftSave.after = "run" =>
       kind = "jobs" /\ draftSave.clicked = At(draftRows, draftSave.index)

LEMMA NoRowIsNone == None \notin DraftRow /\ None \notin Nat /\ DraftRow \subseteq Nat
  BY DraftConstantsOK DEF DraftRow

LEMMA RemoveAtDistinct ==
  ASSUME added \in 0..LastDraftRow, NEW s, Distinct(s), NEW i \in DOMAIN s
  PROVE  /\ Distinct(RemoveAt(s, i))
         /\ \A j \in DOMAIN RemoveAt(s, i) : \E k \in DOMAIN s : RemoveAt(s, i)[j] = s[k]
         /\ \A k \in DOMAIN s : /\ k < i => At(RemoveAt(s, i), k) = s[k]
                                /\ k > i => At(RemoveAt(s, i), k - 1) = s[k]
<1> DEFINE r == RemoveAt(s, i)
<1>1. /\ s \in Seq(DraftRow) /\ IsInjective(s) /\ \A j \in DOMAIN s : s[j] <= added
      /\ DOMAIN s = 1..Len(s) /\ Len(s) \in Nat
  BY DEF Distinct
<1>2. /\ r \in Seq(DraftRow) /\ Len(r) = Len(s) - 1
      /\ \A j \in 1..(Len(s) - 1) : r[j] = IF j < i THEN s[j] ELSE s[j + 1]
  BY <1>1, RemoveAtIs
<1> HIDE DEF r
<1>3. DOMAIN r = 1..(Len(s) - 1)
  BY <1>2
<1>4. IsInjective(r)
  <2> SUFFICES ASSUME NEW a \in DOMAIN r, NEW b \in DOMAIN r, r[a] = r[b] PROVE a = b
    BY DEF IsInjective
  <2>1. \A j, k \in DOMAIN s : s[j] = s[k] => j = k
    BY <1>1 DEF IsInjective
  <2>2. a \in Nat /\ b \in Nat /\ i \in Nat /\ {a, b, a + 1, b + 1} \subseteq DOMAIN s
    BY <1>1, <1>3
  <2>3. /\ r[a] = IF a < i THEN s[a] ELSE s[a + 1]
        /\ r[b] = IF b < i THEN s[b] ELSE s[b + 1]
    BY <1>2, <1>3
  <2> DEFINE p == IF a < i THEN a ELSE a + 1
             q == IF b < i THEN b ELSE b + 1
  <2>4. p \in DOMAIN s /\ q \in DOMAIN s /\ s[p] = r[a] /\ s[q] = r[b]
    BY <2>2, <2>3
  <2>5. p = q
    BY <2>1, <2>4
  <2> QED
    BY <2>2, <2>5
<1>5. \A j \in DOMAIN r : \E k \in DOMAIN s : r[j] = s[k]
  <2> TAKE j \in DOMAIN r
  <2>1. CASE j < i
    BY <1>1, <1>2, <1>3, <2>1
  <2>2. CASE ~(j < i)
    <3>1. j + 1 \in DOMAIN s /\ r[j] = s[j + 1]
      BY <1>1, <1>2, <1>3, <2>2
    <3> QED
      BY <3>1
  <2> QED
    BY <2>1, <2>2
<1>6. \A k \in DOMAIN s : /\ k < i => At(r, k) = s[k]
                          /\ k > i => At(r, k - 1) = s[k]
  BY <1>1, <1>2, <1>3 DEF At
<1>7. Distinct(r)
  BY <1>1, <1>2, <1>4, <1>5 DEF Distinct
<1> QED
  BY <1>5, <1>6, <1>7 DEF r

\* A row that is not there yet is appended as the last one.
LEMMA AppendDistinct ==
  ASSUME NEW s, NEW row \in DraftRow, s \in Seq(DraftRow), IsInjective(s),
         \A j \in DOMAIN s : s[j] # row
  PROVE  /\ Append(s, row) \in Seq(DraftRow) /\ IsInjective(Append(s, row))
         /\ Len(Append(s, row)) = Len(s) + 1 /\ At(Append(s, row), Len(s) + 1) = row
         /\ \A j \in DOMAIN Append(s, row) : Append(s, row)[j] = row \/ \E k \in DOMAIN s : Append(s, row)[j] = s[k]
<1>1. /\ Append(s, row) \in Seq(DraftRow) /\ Len(Append(s, row)) = Len(s) + 1 /\ Len(s) \in Nat
      /\ \A j \in 1..Len(s) : Append(s, row)[j] = s[j]
      /\ Append(s, row)[Len(s) + 1] = row
  OBVIOUS
<1>2. DOMAIN Append(s, row) = 1..(Len(s) + 1) /\ DOMAIN s = 1..Len(s)
  BY <1>1
<1> QED
  BY <1>1, <1>2 DEF IsInjective, At

LEMMA DraftStart == DraftInit => DraftInv
<1> SUFFICES ASSUME DraftInit PROVE DraftInv
  OBVIOUS
<1> USE NoRowIsNone
<1>1. /\ kind \in {"jobs", "items"} /\ added \in 0..LastDraftRow /\ serverRows = [i \in 1..added |-> i]
      /\ loadedRows = serverRows /\ draftRows = serverRows
      /\ rowEditor = Closed /\ draftSave = NoDraftSave /\ reload = None
      /\ ran = [clicked |-> None, job |-> None]
  BY DEF DraftInit
<1>2. Distinct(serverRows)
  <2>1. LastDraftRow \in Nat /\ added \in Nat /\ added <= LastDraftRow
    BY <1>1, DraftConstantsOK
  <2>2. serverRows \in Seq(DraftRow)
    BY <1>1, <2>1 DEF DraftRow
  <2> QED
    BY <1>1, <2>1, <2>2 DEF Distinct, IsInjective
<1>3. /\ Closed \in [index : Nat, isNew : BOOLEAN, row : DraftRow \cup {None}]
      /\ Closed.row = None
  BY DEF Closed
<1>4. /\ NoDraftSave \in [stage : {"none", "checking", "posting", "refreshing"},
                          after : {"nothing", "finish", "run"},
                          index : Nat, clicked : DraftRow \cup {None}, rows : Seq(DraftRow)]
      /\ NoDraftSave.stage = "none"
  BY DEF NoDraftSave
<1>5. ran \in [clicked : DraftRow \cup {None}, job : DraftRow \cup {None}] /\ ran.job = ran.clicked
  BY <1>1
<1> QED
  BY <1>1, <1>2, <1>3, <1>4, <1>5 DEF DraftInv, NewItem, IsOpen

\* What the commit of the editor makes of the draft: nothing new but a new item, once.
LEMMA Commit ==
  ASSUME DraftInv
  PROVE  /\ Distinct(CommittedRows) /\ (~NewItem => CommittedRows = draftRows)
         /\ CommittedEditor \in [index : Nat, isNew : BOOLEAN, row : DraftRow \cup {None}]
         /\ CommittedEditor.row = rowEditor.row
         /\ CommittedEditor.row # None /\ CommittedEditor.index # 0 =>
              At(CommittedRows, CommittedEditor.index) = CommittedEditor.row
         /\ ~(CommittedEditor.row # None /\ kind = "items" /\ CommittedEditor.isNew)
<1> USE NoRowIsNone
<1>t. /\ kind \in {"jobs", "items"} /\ added \in 0..LastDraftRow /\ Distinct(draftRows)
      /\ draftRows \in Seq(DraftRow) /\ IsInjective(draftRows) /\ Len(draftRows) \in Nat
      /\ DOMAIN draftRows = 1..Len(draftRows)
      /\ rowEditor \in [index : Nat, isNew : BOOLEAN, row : DraftRow \cup {None}]
      /\ rowEditor.row # None /\ rowEditor.index # 0 => At(draftRows, rowEditor.index) = rowEditor.row
  BY DEF DraftInv, Distinct, IsOpen
<1>1. CASE NewItem
  <2>1. /\ rowEditor.row \in DraftRow /\ rowEditor.index = 0 /\ rowEditor.row <= added /\ kind = "items"
        /\ rowEditor.isNew /\ \A j \in DOMAIN draftRows : draftRows[j] # rowEditor.row
        /\ IsOpen
    BY <1>1, <1>t DEF DraftInv, NewItem, IsOpen
  <2>2. CommittedRows = Append(draftRows, rowEditor.row)
    BY <2>1 DEF CommittedRows
  <2>3. /\ CommittedRows \in Seq(DraftRow) /\ IsInjective(CommittedRows)
        /\ Len(CommittedRows) = Len(draftRows) + 1 /\ At(CommittedRows, Len(CommittedRows)) = rowEditor.row
        /\ \A j \in DOMAIN CommittedRows :
             CommittedRows[j] = rowEditor.row \/ \E k \in DOMAIN draftRows : CommittedRows[j] = draftRows[k]
    <3> HIDE DEF CommittedRows
    <3> DEFINE row == rowEditor.row
    <3>1. row \in DraftRow /\ \A j \in DOMAIN draftRows : draftRows[j] # row
      BY <2>1
    <3>2. CommittedRows = Append(draftRows, row)
      BY <2>2
    <3> HIDE DEF row
    <3>3. /\ Append(draftRows, row) \in Seq(DraftRow) /\ IsInjective(Append(draftRows, row))
          /\ Len(Append(draftRows, row)) = Len(draftRows) + 1
          /\ At(Append(draftRows, row), Len(draftRows) + 1) = row
          /\ \A j \in DOMAIN Append(draftRows, row) :
               Append(draftRows, row)[j] = row \/ \E k \in DOMAIN draftRows : Append(draftRows, row)[j] = draftRows[k]
      <4>1. draftRows \in Seq(DraftRow) /\ IsInjective(draftRows)
        BY <1>t
      <4> QED
        BY <3>1, <4>1, AppendDistinct
    <3>4. row = rowEditor.row
      BY DEF row
    <3> QED
      BY <3>2, <3>3, <3>4
  <2>4. Distinct(CommittedRows)
    BY <1>t, <2>1, <2>3 DEF Distinct
  <2>5. CommittedEditor = [rowEditor EXCEPT !.index = Len(CommittedRows), !.isNew = FALSE]
    BY <2>1 DEF CommittedEditor
  <2>6. Len(CommittedRows) \in Nat
    BY <1>t, <2>3
  <2>7. /\ CommittedEditor.row = rowEditor.row /\ CommittedEditor.index = Len(CommittedRows)
        /\ CommittedEditor.isNew = FALSE
        /\ CommittedEditor \in [index : Nat, isNew : BOOLEAN, row : DraftRow \cup {None}]
    BY <1>t, <2>5, <2>6
  <2> QED
    BY <1>1, <2>3, <2>4, <2>7
<1>2. CASE ~NewItem
  <2>1. CASE kind = "jobs" \/ ~IsOpen
    <3>1. CommittedRows = draftRows
      BY <2>1 DEF CommittedRows
    <3>2. CommittedEditor = rowEditor \/ (~IsOpen /\ CommittedEditor = [rowEditor EXCEPT !.index = Len(draftRows), !.isNew = FALSE])
      BY <2>1, <3>1 DEF CommittedEditor
    <3> QED
      BY <1>2, <1>t, <2>1, <3>1, <3>2 DEF IsOpen
  <2>2. CASE kind = "items" /\ IsOpen
    <3>1. ~rowEditor.isNew
      BY <1>2, <2>2 DEF NewItem
    <3>2. CommittedRows = draftRows
      <4>1. CASE rowEditor.index \in DOMAIN draftRows
        <5>1. draftRows[rowEditor.index] = rowEditor.row
          BY <1>t, <2>2, <4>1 DEF At, IsOpen
        <5> QED
          BY <1>t, <2>2, <3>1, <4>1, <5>1 DEF CommittedRows
      <4>2. CASE rowEditor.index \notin DOMAIN draftRows
        BY <2>2, <3>1, <4>2 DEF CommittedRows
      <4> QED
        BY <4>1, <4>2
    <3> QED
      BY <1>2, <1>t, <2>2, <3>1, <3>2 DEF CommittedEditor
  <2> QED
    BY <1>t, <2>1, <2>2
<1> QED
  BY <1>1, <1>2

\* The invariant of the draft is kept, one step for each action, when the
\* administrator waits for saves and reloads.
LEMMA DraftStep ==
  ASSUME Waits, DraftInv, [DraftNext]_draftVars
  PROVE  DraftInv'
<1> USE NoRowIsNone, DraftConstantsOK
<1> DEFINE Editors == [index : Nat, isNew : BOOLEAN, row : DraftRow \cup {None}]
           Saves == [stage : {"none", "checking", "posting", "refreshing"}, after : {"nothing", "finish", "run"},
                     index : Nat, clicked : DraftRow \cup {None}, rows : Seq(DraftRow)]
<1>t. /\ kind \in {"jobs", "items"} /\ added \in 0..LastDraftRow
      /\ Distinct(serverRows) /\ Distinct(loadedRows) /\ Distinct(draftRows)
      /\ draftRows \in Seq(DraftRow) /\ DOMAIN draftRows = 1..Len(draftRows) /\ Len(draftRows) \in Nat
      /\ rowEditor \in Editors /\ draftSave \in Saves
  BY DEF DraftInv, Distinct
<1>c. Closed \in Editors /\ Closed.row = None
  BY DEF Closed
<1>n. NoDraftSave \in Saves /\ NoDraftSave.stage = "none"
  BY DEF NoDraftSave
\* What the changes to the draft and its editor have in common while nothing is under way.
<1>a. ASSUME DraftQuiet, UNCHANGED <<kind, serverRows, loadedRows, added, draftSave, reload, ran>>,
             Distinct(draftRows)', rowEditor' \in Editors,
             rowEditor'.row # None /\ rowEditor'.index # 0 => At(draftRows', rowEditor'.index) = rowEditor'.row,
             rowEditor'.row # None /\ kind = "items" /\ rowEditor'.isNew =>
               /\ rowEditor'.index = 0 /\ rowEditor'.row <= added
               /\ \A j \in DOMAIN draftRows' : draftRows'[j] # rowEditor'.row
      PROVE  DraftInv'
  BY <1>a, <1>t DEF DraftInv, DraftQuiet, Distinct, NewItem, IsOpen
<1>1. CASE Add
  <2> DEFINE row == added + 1
  <2>1. /\ DraftQuiet /\ added < LastDraftRow /\ added' = row
        /\ UNCHANGED <<kind, serverRows, loadedRows, draftSave, reload, ran>>
    BY <1>1 DEF Add, MayEdit
  <2>2. row \in DraftRow /\ added' \in 0..LastDraftRow /\ added <= added' /\ added \in Nat /\ row \in Nat
    BY <1>t, <2>1 DEF DraftRow
  <2>a. \A x \in DraftRow : x <= added => x <= added' /\ x # row
    BY <2>2
  <2>b. row <= added'
    BY <2>1, <2>2
  <2> HIDE DEF row
  <2>3. \A r : Distinct(r) => r \in Seq(DraftRow) /\ IsInjective(r) /\ \A j \in DOMAIN r : r[j] <= added /\ r[j] # row
    <3> SUFFICES ASSUME NEW r, Distinct(r), NEW j \in DOMAIN r PROVE r[j] # row
      BY DEF Distinct
    <3>1. r[j] \in DraftRow /\ r[j] <= added
      BY DEF Distinct
    <3> QED
      BY <2>a, <3>1
  <2>4. \A r : Distinct(r) => r \in Seq(DraftRow) /\ IsInjective(r) /\ \A j \in DOMAIN r : r[j] <= added'
    <3> SUFFICES ASSUME NEW r, Distinct(r), NEW j \in DOMAIN r PROVE r[j] <= added'
      BY DEF Distinct
    <3>1. r[j] \in DraftRow /\ r[j] <= added
      BY DEF Distinct
    <3> QED
      BY <2>a, <3>1
  <2>5. Distinct(serverRows)' /\ Distinct(loadedRows)'
    BY <1>t, <2>1, <2>4 DEF Distinct
  <2>6. draftSave.stage = "none" /\ reload = None
    BY <2>1 DEF DraftQuiet
  <2>7. CASE kind = "jobs"
    <3>1. draftRows' = Append(draftRows, row) /\ rowEditor' = [index |-> Len(draftRows'), isNew |-> TRUE, row |-> row]
      BY <1>1, <2>1, <2>7 DEF Add
    <3>2. /\ draftRows' \in Seq(DraftRow) /\ IsInjective(draftRows') /\ Len(draftRows') = Len(draftRows) + 1
          /\ At(draftRows', Len(draftRows')) = row
          /\ \A j \in DOMAIN draftRows' : draftRows'[j] = row \/ \E k \in DOMAIN draftRows : draftRows'[j] = draftRows[k]
      BY <1>t, <2>2, <2>3, <3>1, AppendDistinct
    <3>3. Distinct(draftRows)'
      <4>1. ASSUME NEW j \in DOMAIN draftRows' PROVE draftRows'[j] <= added'
        <5>1. \A k \in DOMAIN draftRows : draftRows[k] <= added'
          BY <1>t, <2>4
        <5> QED
          BY <2>b, <3>2, <5>1
      <4> QED
        BY <3>2, <4>1 DEF Distinct
    <3>4. rowEditor' \in Editors /\ Len(draftRows') \in Nat
      BY <1>t, <2>2, <3>1, <3>2
    <3> QED
      BY <1>t, <2>1, <2>2, <2>5, <2>6, <2>7, <3>1, <3>2, <3>3, <3>4 DEF DraftInv, NewItem, IsOpen
  <2>8. CASE kind # "jobs"
    <3>1. rowEditor' = [index |-> 0, isNew |-> TRUE, row |-> row] /\ draftRows' = draftRows
      BY <1>1, <2>1, <2>8 DEF Add
    <3>2. rowEditor' \in Editors
      BY <2>2, <3>1
    <3>3. Distinct(draftRows)'
      BY <1>t, <2>1, <2>4, <3>1 DEF Distinct
    <3>4. \A j \in DOMAIN draftRows : draftRows[j] # row
      BY <1>t, <2>3
    <3> QED
      BY <1>t, <2>1, <2>2, <2>5, <2>6, <2>8, <3>1, <3>2, <3>3, <3>4 DEF DraftInv, NewItem, IsOpen
  <2> QED
    BY <2>7, <2>8
<1>2. ASSUME NEW i \in DraftRow, OpenEditor(i) PROVE DraftInv'
  <2>1. /\ DraftQuiet /\ i \in DOMAIN draftRows /\ rowEditor' = [index |-> i, isNew |-> FALSE, row |-> draftRows[i]]
        /\ UNCHANGED <<kind, serverRows, loadedRows, draftRows, added, draftSave, reload, ran>>
    BY <1>2 DEF OpenEditor, MayEdit
  <2>2. rowEditor' \in Editors /\ At(draftRows', rowEditor'.index) = rowEditor'.row
    BY <1>t, <2>1 DEF At
  <2>3. Distinct(draftRows)'
    BY <1>t, <2>1 DEF Distinct
  <2> QED
    BY <1>a, <2>1, <2>2, <2>3
<1>3. ASSUME NEW i \in DraftRow, TakeOut(i) PROVE DraftInv'
  <2>1. /\ DraftQuiet /\ i \in DOMAIN draftRows /\ i \in Nat /\ i # 0
        /\ draftRows' = RemoveAt(draftRows, i) /\ rowEditor' = EditorAfterRemove(i)
        /\ UNCHANGED <<kind, serverRows, loadedRows, added, draftSave, reload, ran>>
    BY <1>3 DEF TakeOut, MayEdit, DraftRow
  <2>2. /\ Distinct(RemoveAt(draftRows, i))
        /\ \A j \in DOMAIN draftRows' : \E k \in DOMAIN draftRows : draftRows'[j] = draftRows[k]
        /\ \A k \in DOMAIN draftRows : /\ k < i => At(draftRows', k) = draftRows[k]
                                       /\ k > i => At(draftRows', k - 1) = draftRows[k]
    <3> DEFINE r == RemoveAt(draftRows, i)
    <3>1. /\ Distinct(r) /\ \A j \in DOMAIN r : \E k \in DOMAIN draftRows : r[j] = draftRows[k]
          /\ \A k \in DOMAIN draftRows : /\ k < i => At(r, k) = draftRows[k]
                                         /\ k > i => At(r, k - 1) = draftRows[k]
      BY <1>t, <2>1, RemoveAtDistinct
    <3> HIDE DEF r
    <3>2. r = draftRows'
      BY <2>1 DEF r
    <3> QED
      BY <3>1, <3>2 DEF r
  <2>3. Distinct(draftRows)'
    BY <2>1, <2>2 DEF Distinct
  <2>4. rowEditor.row # None /\ rowEditor.index # 0 =>
          rowEditor.index \in DOMAIN draftRows /\ draftRows[rowEditor.index] = rowEditor.row
    BY DEF DraftInv, IsOpen, At
  <2>5. rowEditor.row # None /\ kind = "items" /\ rowEditor.isNew =>
          /\ rowEditor.index = 0 /\ rowEditor.row <= added
          /\ \A j \in DOMAIN draftRows : draftRows[j] # rowEditor.row
    BY DEF DraftInv, NewItem, IsOpen
  <2>6. CASE rowEditor.index = i
    BY <1>a, <1>c, <2>1, <2>3, <2>6 DEF EditorAfterRemove
  <2>7. CASE rowEditor.index > i
    <3>1. rowEditor' = [rowEditor EXCEPT !.index = @ - 1] /\ rowEditor.index \in Nat /\ rowEditor.index # i
      BY <1>t, <2>1, <2>7 DEF EditorAfterRemove
    <3>2. /\ rowEditor' \in Editors /\ rowEditor'.index = rowEditor.index - 1 /\ rowEditor'.row = rowEditor.row
          /\ rowEditor'.isNew = rowEditor.isNew
      <4>1. rowEditor.index - 1 \in Nat
        BY <2>1, <2>7, <3>1
      <4> QED
        BY <1>t, <3>1, <4>1
    <3>3. rowEditor'.row # None => At(draftRows', rowEditor'.index) = rowEditor'.row
      BY <2>1, <2>2, <2>4, <2>7, <3>1, <3>2
    <3>4. ~(rowEditor'.row # None /\ kind = "items" /\ rowEditor'.isNew)
      BY <2>1, <2>5, <2>7, <3>2
    <3> QED
      BY <1>a, <2>1, <2>3, <3>2, <3>3, <3>4
  <2>8. CASE rowEditor.index < i
    <3>1. rowEditor' = rowEditor /\ rowEditor.index \in Nat
      BY <1>t, <2>1, <2>8 DEF EditorAfterRemove
    <3>2. rowEditor'.row # None /\ rowEditor'.index # 0 => At(draftRows', rowEditor'.index) = rowEditor'.row
      BY <2>1, <2>2, <2>4, <2>8, <3>1
    <3>3. rowEditor'.row # None /\ kind = "items" /\ rowEditor'.isNew =>
            /\ rowEditor'.index = 0 /\ rowEditor'.row <= added
            /\ \A j \in DOMAIN draftRows' : draftRows'[j] # rowEditor'.row
      BY <2>2, <2>5, <3>1
    <3> QED
      BY <1>a, <1>t, <2>1, <2>3, <3>1, <3>2, <3>3
  <2>9. rowEditor.index \in Nat
    BY <1>t
  <2> QED
    BY <2>1, <2>6, <2>7, <2>8, <2>9
<1>4. CASE CloseEditor
  <2>1. /\ DraftQuiet /\ rowEditor' = Closed
        /\ UNCHANGED <<kind, serverRows, loadedRows, added, draftSave, reload, ran>>
        /\ \/ draftRows' = draftRows
           \/ rowEditor.index \in DOMAIN draftRows /\ draftRows' = RemoveAt(draftRows, rowEditor.index)
    BY <1>4 DEF CloseEditor, MayEdit, Discarded
  <2>2. Distinct(draftRows')
    <3>1. rowEditor.index \in DOMAIN draftRows => Distinct(RemoveAt(draftRows, rowEditor.index))
      BY <1>t, RemoveAtDistinct
    <3>2. CASE draftRows' = draftRows
      BY <1>t, <3>2
    <3>3. CASE draftRows' # draftRows
      <4>1. rowEditor.index \in DOMAIN draftRows /\ draftRows' = RemoveAt(draftRows, rowEditor.index)
        BY <2>1, <3>3
      <4> QED
        BY <3>1, <4>1
    <3> QED
      BY <3>2, <3>3
  <2>3. Distinct(draftRows)'
    BY <2>1, <2>2 DEF Distinct
  <2> QED
    BY <1>a, <1>c, <2>1, <2>3
<1>5. CASE LeaveAndReturn
  <2>1. /\ DraftQuiet /\ rowEditor' = Closed /\ draftRows' = loadedRows
        /\ UNCHANGED <<kind, serverRows, loadedRows, added, draftSave, reload, ran>>
    BY <1>5 DEF LeaveAndReturn, MayEdit
  <2>2. Distinct(draftRows)'
    BY <1>t, <2>1 DEF Distinct
  <2> QED
    BY <1>a, <1>c, <2>1, <2>2
\* A save starts.
<1>s. ASSUME NEW after \in {"nothing", "finish", "run"}, NEW i \in Nat, StartSave(after, i),
             draftSave.stage = "none",
             after = "run" => kind = "jobs" /\ draftRows' = draftRows
      PROVE  /\ draftSave' \in Saves /\ draftSave'.stage = "checking"
             /\ draftSave'.stage # "none" /\ draftSave'.after = "run" =>
                  kind = "jobs" /\ draftSave'.clicked = At(draftRows', draftSave'.index)
  <2>1. At(draftRows, i) \in DraftRow \cup {None}
    BY <1>t DEF At
  <2> QED
    BY <1>n, <1>s, <2>1 DEF StartSave
<1>6. CASE SaveModule \/ \E i \in DraftRow : Run(i)
  <2>1. /\ DraftQuiet /\ UNCHANGED <<kind, serverRows, loadedRows, draftRows, added, rowEditor, reload, ran>>
        /\ \/ StartSave("nothing", 0)
           \/ kind = "jobs" /\ \E i \in DraftRow : StartSave("run", i)
    BY <1>6 DEF SaveModule, Run, MayEdit
  <2>2. /\ draftSave' \in Saves /\ draftSave'.stage = "checking"
        /\ draftSave'.stage # "none" /\ draftSave'.after = "run" =>
             kind = "jobs" /\ draftSave'.clicked = At(draftRows', draftSave'.index)
    BY <1>s, <2>1 DEF DraftQuiet
  <2> QED
    BY <1>t, <2>1, <2>2 DEF DraftInv, DraftQuiet, Distinct, NewItem, IsOpen
<1>7. CASE SaveEditor
  <2>1. DraftQuiet /\ UNCHANGED <<kind, serverRows, loadedRows, added, reload, ran>>
    BY <1>7 DEF SaveEditor, MayEdit
  <2>2. /\ draftSave' \in Saves /\ draftSave'.stage = "checking"
        /\ draftSave'.stage # "none" /\ draftSave'.after = "run" =>
             kind = "jobs" /\ draftSave'.clicked = At(draftRows', draftSave'.index)
    BY <1>7, <1>s, <2>1 DEF SaveEditor, DraftQuiet
  <2>3. CASE kind = "jobs"
    BY <1>7, <1>t, <2>1, <2>2, <2>3 DEF SaveEditor, DraftInv, DraftQuiet, Distinct, NewItem, IsOpen
  <2>4. CASE kind # "jobs"
    <3>1. draftRows' = CommittedRows /\ rowEditor' = Closed
      BY <1>7, <2>4 DEF SaveEditor
    <3>2. Distinct(draftRows)'
      BY <2>1, <3>1, Commit DEF Distinct
    <3> QED
      BY <1>c, <1>t, <2>1, <2>2, <2>4, <3>1, <3>2 DEF DraftInv, DraftQuiet, Distinct, NewItem, IsOpen
  <2> QED
    BY <2>3, <2>4
<1>8. CASE DraftCheckPassed
  <2>1. /\ draftSave.stage = "checking" /\ draftRows' = CommittedRows /\ rowEditor' = CommittedEditor
        /\ draftSave' = [draftSave EXCEPT !.stage = "posting", !.rows = draftRows']
        /\ UNCHANGED <<kind, serverRows, loadedRows, added, reload, ran>>
    BY <1>8 DEF DraftCheckPassed
  <2>2. Distinct(draftRows)' /\ draftRows' \in Seq(DraftRow)
    BY <2>1, Commit DEF Distinct
  <2>3. /\ draftSave' \in Saves /\ draftSave'.stage = "posting" /\ draftSave'.rows = draftRows'
        /\ draftSave'.after = draftSave.after /\ draftSave'.clicked = draftSave.clicked
        /\ draftSave'.index = draftSave.index
    BY <1>t, <2>1, <2>2
  <2>4. draftSave'.after = "run" => kind = "jobs" /\ draftSave'.clicked = At(draftRows', draftSave'.index)
    BY <2>1, <2>3, Commit DEF DraftInv, NewItem
  <2>5. /\ rowEditor' \in Editors /\ rowEditor'.row = rowEditor.row
        /\ rowEditor'.row # None /\ rowEditor'.index # 0 => At(draftRows', rowEditor'.index) = rowEditor'.row
        /\ ~NewItem'
    BY <2>1, Commit DEF NewItem, IsOpen
  <2>6. Distinct(serverRows)' /\ Distinct(loadedRows)' /\ reload' = None
    BY <1>t, <2>1 DEF Distinct, DraftInv
  <2> QED
    BY <1>t, <2>1, <2>2, <2>3, <2>4, <2>5, <2>6 DEF DraftInv, IsOpen
<1>9. CASE DraftSaveFailed
  <2>1. /\ draftSave.stage # "none"
        /\ serverRows' = serverRows \/ (draftSave.stage = "posting" /\ serverRows' = draftSave.rows)
        /\ rowEditor' = rowEditor \/ rowEditor' = Closed
        /\ draftSave' = NoDraftSave
        /\ UNCHANGED <<kind, loadedRows, draftRows, added, reload, ran>>
    <3>1. serverRows' = serverRows \/ (draftSave.stage = "posting" /\ serverRows' = draftSave.rows)
      <4>1. CASE draftSave.stage = "posting"
        BY <1>9, <4>1 DEF DraftSaveFailed
      <4>2. CASE draftSave.stage # "posting"
        BY <1>9, <4>2 DEF DraftSaveFailed
      <4> QED
        BY <4>1, <4>2
    <3>2. rowEditor' = rowEditor \/ rowEditor' = Closed
      BY <1>9 DEF DraftSaveFailed
    <3> QED
      BY <1>9, <3>1, <3>2 DEF DraftSaveFailed
  <2>2. Distinct(serverRows)'
    BY <1>t, <2>1 DEF Distinct, DraftInv
  <2> QED
    BY <1>c, <1>n, <1>t, <2>1, <2>2 DEF DraftInv, Distinct, NewItem, IsOpen
<1>10. CASE Posted
  <2>1. /\ draftSave.stage = "posting" /\ serverRows' = draftRows
        /\ draftSave' = [draftSave EXCEPT !.stage = "refreshing"]
        /\ UNCHANGED <<kind, loadedRows, draftRows, added, rowEditor, reload, ran>>
    BY <1>10 DEF Posted, DraftInv
  <2>2. /\ draftSave' \in Saves /\ draftSave'.stage = "refreshing"
        /\ draftSave'.after = draftSave.after /\ draftSave'.clicked = draftSave.clicked
        /\ draftSave'.index = draftSave.index
    BY <1>t, <2>1
  <2> QED
    BY <1>t, <2>1, <2>2 DEF DraftInv, Distinct, NewItem, IsOpen
<1>11. CASE Saved
  <2>1. /\ draftSave.stage = "refreshing" /\ loadedRows' = serverRows /\ draftRows' = serverRows
        /\ rowEditor' = rowEditor \/ rowEditor' = Closed
        /\ ran' = IF draftSave.after = "run" THEN [clicked |-> draftSave.clicked, job |-> At(serverRows, draftSave.index)]
                  ELSE ran
        /\ draftSave' = NoDraftSave
        /\ UNCHANGED <<kind, serverRows, added, reload>>
    BY <1>11 DEF Saved
  <2>2. serverRows = draftRows /\ (draftSave.after = "run" => draftSave.clicked = At(draftRows, draftSave.index))
    BY <2>1 DEF DraftInv
  <2>3. ran' \in [clicked : DraftRow \cup {None}, job : DraftRow \cup {None}] /\ ran'.job = ran'.clicked
    BY <1>t, <2>1, <2>2 DEF DraftInv
  <2> QED
    BY <1>c, <1>n, <1>t, <2>1, <2>2, <2>3 DEF DraftInv, Distinct, NewItem, IsOpen
<1>12. CASE ReloadDraft
  <2>1. /\ DraftQuiet /\ ~IsOpen /\ reload' = serverRows
        /\ UNCHANGED <<kind, serverRows, loadedRows, draftRows, added, rowEditor, draftSave, ran>>
    BY <1>12 DEF ReloadDraft, MayEdit
  <2> QED
    BY <1>t, <2>1 DEF DraftInv, DraftQuiet, Distinct, NewItem, IsOpen
<1>13. CASE Reloaded
  <2>1. /\ reload # None /\ loadedRows' = reload /\ draftRows' = reload /\ reload' = None
        /\ UNCHANGED <<kind, serverRows, added, rowEditor, draftSave, ran>>
    BY <1>13 DEF Reloaded
  <2>2. Distinct(reload) /\ ~IsOpen /\ draftSave.stage = "none"
    BY <2>1 DEF DraftInv
  <2> QED
    BY <1>t, <2>1, <2>2 DEF DraftInv, Distinct, NewItem, IsOpen
<1>14. CASE ReloadFailed
  BY <1>14, <1>t DEF ReloadFailed, DraftInv, Distinct, NewItem, IsOpen
<1>15. CASE UNCHANGED draftVars
  BY <1>15, <1>t DEF draftVars, DraftInv, Distinct, NewItem, IsOpen
<1> QED
  BY <1>1, <1>2, <1>3, <1>4, <1>5, <1>6, <1>7, <1>8, <1>9, <1>10, <1>11, <1>12, <1>13, <1>14, <1>15
     DEF DraftNext

\* An index that the panel keeps still means the row it was taken for, when
\* commitSimpleModuleItemDraft or closeSchedulerJobEditor uses it and when a job is
\* run by it: for any number of rows and any sequence of edits, removals, failed saves
\* and reloads of an administrator who waits for what is under way.
THEOREM IndicesKeepRows ==
  ASSUME Waits
  PROVE  DraftSpec => []IndexKeepsItsRow
<1>1. DraftInit => DraftInv
  BY DraftStart
<1>2. DraftInv /\ [DraftNext]_draftVars => DraftInv'
  BY DraftStep
<1>3. DraftInv => IndexKeepsItsRow
  BY DEF DraftInv, IndexKeepsItsRow
<1> QED
  BY <1>1, <1>2, <1>3, PTL DEF DraftSpec

\* However often flushOpenModuleEditorsForSave commits an editor that stays open, its
\* row is in the draft once, and so it is on the server.
THEOREM RowsStaySingle ==
  ASSUME Waits
  PROVE  DraftSpec => []RowsAppearOnce
<1>1. DraftInit => DraftInv
  BY DraftStart
<1>2. DraftInv /\ [DraftNext]_draftVars => DraftInv'
  BY DraftStep
<1>3. DraftInv => RowsAppearOnce
  BY DEF DraftInv, Distinct, RowsAppearOnce
<1> QED
  BY <1>1, <1>2, <1>3, PTL DEF DraftSpec

\* The types of the draft, also of an administrator who does not wait: an index then
\* may mean another row or none, but the rows stay rows.
EditorRecord == [index : Nat, isNew : BOOLEAN, row : DraftRow \cup {None}]
DraftSaveRecord ==
  [stage : {"none", "checking", "posting", "refreshing"}, after : {"nothing", "finish", "run"},
   index : Nat, clicked : DraftRow \cup {None}, rows : Seq(DraftRow)]
RanRecord == [clicked : DraftRow \cup {None}, job : DraftRow \cup {None}]
DraftTyped ==
  /\ kind \in {"jobs", "items"} /\ added \in 0..LastDraftRow
  /\ serverRows \in Seq(DraftRow) /\ loadedRows \in Seq(DraftRow) /\ draftRows \in Seq(DraftRow)
  /\ reload = None \/ reload \in Seq(DraftRow)
  /\ rowEditor \in EditorRecord /\ draftSave \in DraftSaveRecord /\ ran \in RanRecord

LEMMA RowsAreTyped ==
  /\ \A s \in Seq(DraftRow) : \A i : At(s, i) \in DraftRow \cup {None}
  /\ \A s \in Seq(DraftRow) : \A i \in DOMAIN s : RemoveAt(s, i) \in Seq(DraftRow)
  /\ \A s \in Seq(DraftRow) : \A row \in DraftRow : Append(s, row) \in Seq(DraftRow)
  /\ Closed \in EditorRecord
<1>1. \A s \in Seq(DraftRow) : \A i \in DOMAIN s : RemoveAt(s, i) \in Seq(DraftRow)
  <2> SUFFICES ASSUME NEW s \in Seq(DraftRow), NEW i \in DOMAIN s PROVE RemoveAt(s, i) \in Seq(DraftRow)
    OBVIOUS
  <2> QED
    BY RemoveAtIs
<1>2. \A s \in Seq(DraftRow) : \A i : At(s, i) \in DraftRow \cup {None}
  <2> SUFFICES ASSUME NEW s \in Seq(DraftRow), NEW i, i \in DOMAIN s PROVE s[i] \in DraftRow
    BY DEF At
  <2> QED
    OBVIOUS
<1>3. Closed \in EditorRecord
  BY DEF Closed, EditorRecord
<1> QED
  BY <1>1, <1>2, <1>3

LEMMA CommittedTyped ==
  ASSUME DraftTyped
  PROVE  CommittedRows \in Seq(DraftRow) /\ CommittedEditor \in EditorRecord
<1>1. draftRows \in Seq(DraftRow) /\ rowEditor \in EditorRecord
  BY DEF DraftTyped
<1>2. CommittedRows \in Seq(DraftRow)
  <2>1. CASE kind = "jobs" \/ ~IsOpen
    BY <1>1, <2>1 DEF CommittedRows
  <2>2. CASE ~(kind = "jobs" \/ ~IsOpen)
    <3>1. rowEditor.row \in DraftRow
      BY <1>1, <2>2 DEF EditorRecord, IsOpen
    <3>2. Append(draftRows, rowEditor.row) \in Seq(DraftRow)
      BY <1>1, <3>1
    <3>3. rowEditor.index \in DOMAIN draftRows => [draftRows EXCEPT ![rowEditor.index] = rowEditor.row] \in Seq(DraftRow)
      BY <1>1, <3>1
    <3> QED
      BY <1>1, <2>2, <3>2, <3>3 DEF CommittedRows
  <2> QED
    BY <2>1, <2>2
<1>3. CommittedEditor \in EditorRecord
  <2>1. Len(CommittedRows) \in Nat
    BY <1>2
  <2> HIDE DEF CommittedRows
  <2> QED
    BY <1>1, <2>1 DEF CommittedEditor, EditorRecord
<1> QED
  BY <1>2, <1>3

LEMMA DraftTypedStart == DraftInit => DraftTyped
<1> SUFFICES ASSUME DraftInit PROVE DraftTyped
  OBVIOUS
<1>1. DraftInv
  BY DraftStart
<1> QED
  BY <1>1 DEF DraftInv, Distinct, DraftTyped, EditorRecord, DraftSaveRecord, RanRecord

LEMMA DraftTypedStep ==
  ASSUME DraftTyped, [DraftNext]_draftVars
  PROVE  DraftTyped'
<1> USE NoRowIsNone, RowsAreTyped
<1>t. /\ kind \in {"jobs", "items"} /\ added \in 0..LastDraftRow
      /\ serverRows \in Seq(DraftRow) /\ loadedRows \in Seq(DraftRow) /\ draftRows \in Seq(DraftRow)
      /\ reload = None \/ reload \in Seq(DraftRow)
      /\ rowEditor \in EditorRecord /\ draftSave \in DraftSaveRecord /\ ran \in RanRecord
  BY DEF DraftTyped
<1>n. NoDraftSave \in DraftSaveRecord
  BY DEF NoDraftSave, DraftSaveRecord
<1>s. ASSUME NEW after \in {"nothing", "finish", "run"}, NEW i \in Nat, StartSave(after, i)
      PROVE  draftSave' \in DraftSaveRecord
  <2>1. At(draftRows, i) \in DraftRow \cup {None}
    BY <1>t
  <2> QED
    BY <1>n, <1>s, <2>1 DEF StartSave, DraftSaveRecord
<1>1. CASE Add
  <2> DEFINE row == added + 1
  <2>1. /\ added < LastDraftRow /\ added' = row
        /\ UNCHANGED <<kind, serverRows, loadedRows, draftSave, reload, ran>>
    BY <1>1 DEF Add
  <2>2. row \in DraftRow /\ row \in 0..LastDraftRow
    BY <1>t, <2>1, DraftConstantsOK DEF DraftRow
  <2> HIDE DEF row
  <2>3. CASE kind = "jobs"
    <3>1. draftRows' = Append(draftRows, row) /\ rowEditor' = [index |-> Len(draftRows'), isNew |-> TRUE, row |-> row]
      BY <1>1, <2>1, <2>3 DEF Add
    <3>2. draftRows' \in Seq(DraftRow) /\ Len(draftRows') \in Nat
      BY <1>t, <2>2, <3>1
    <3>3. rowEditor' \in EditorRecord
      BY <2>2, <3>1, <3>2 DEF EditorRecord
    <3> QED
      BY <1>t, <2>1, <2>2, <3>2, <3>3 DEF DraftTyped
  <2>4. CASE kind # "jobs"
    <3>1. draftRows' = draftRows /\ rowEditor' = [index |-> 0, isNew |-> TRUE, row |-> row]
      BY <1>1, <2>1, <2>4 DEF Add
    <3>2. rowEditor' \in EditorRecord
      BY <2>2, <3>1 DEF EditorRecord
    <3> QED
      BY <1>t, <2>1, <2>2, <3>1, <3>2 DEF DraftTyped
  <2> QED
    BY <2>3, <2>4
<1>2. ASSUME NEW i \in DraftRow, OpenEditor(i) PROVE DraftTyped'
  <2>1. i \in DOMAIN draftRows /\ draftRows[i] \in DraftRow /\ i \in Nat
    BY <1>2, <1>t DEF OpenEditor
  <2>2. rowEditor' \in EditorRecord
    BY <1>2, <2>1 DEF OpenEditor, EditorRecord
  <2> QED
    BY <1>2, <1>t, <2>2 DEF OpenEditor, DraftTyped
<1>3. ASSUME NEW i \in DraftRow, TakeOut(i) PROVE DraftTyped'
  <2>1. draftRows' \in Seq(DraftRow)
    BY <1>3, <1>t DEF TakeOut
  <2>2. i \in Nat /\ i # 0
    BY DEF DraftRow
  <2>3. rowEditor' \in EditorRecord
    <3> DEFINE before == rowEditor.index - 1
    <3>1. CASE rowEditor.index > i
      <4>1. before \in Nat /\ rowEditor.index # i
        BY <1>t, <2>2, <3>1 DEF EditorRecord
      <4>2. rowEditor' = [rowEditor EXCEPT !.index = before]
        BY <1>3, <3>1, <4>1 DEF TakeOut, EditorAfterRemove
      <4> HIDE DEF before
      <4> QED
        BY <1>t, <4>1, <4>2 DEF EditorRecord
    <3>2. CASE ~(rowEditor.index > i)
      <4>1. rowEditor' = Closed \/ rowEditor' = rowEditor
        BY <1>3, <3>2 DEF TakeOut, EditorAfterRemove
      <4> QED
        BY <1>t, <4>1
    <3> QED
      BY <3>1, <3>2
  <2> QED
    BY <1>3, <1>t, <2>1, <2>3 DEF TakeOut, DraftTyped
<1>4. CASE CloseEditor
  <2>1. Discarded \in Seq(DraftRow)
    BY <1>t DEF Discarded
  <2> QED
    BY <1>4, <1>t, <2>1 DEF CloseEditor, DraftTyped
<1>5. CASE LeaveAndReturn
  BY <1>5, <1>t DEF LeaveAndReturn, DraftTyped
<1>6. CASE SaveModule
  <2>1. draftSave' \in DraftSaveRecord
    BY <1>6, <1>s DEF SaveModule
  <2> QED
    BY <1>6, <1>t, <2>1 DEF SaveModule, DraftTyped
<1>7. CASE SaveEditor
  <2>1. draftSave' \in DraftSaveRecord
    BY <1>7, <1>s DEF SaveEditor
  <2>2. draftRows' \in Seq(DraftRow) /\ rowEditor' \in EditorRecord
    BY <1>7, <1>t, CommittedTyped DEF SaveEditor
  <2> QED
    BY <1>7, <1>t, <2>1, <2>2 DEF SaveEditor, DraftTyped
<1>8. ASSUME NEW i \in DraftRow, Run(i) PROVE DraftTyped'
  <2>1. draftSave' \in DraftSaveRecord
    BY <1>8, <1>s DEF Run
  <2> QED
    BY <1>8, <1>t, <2>1 DEF Run, DraftTyped
<1>9. CASE DraftCheckPassed
  <2>1. draftRows' \in Seq(DraftRow) /\ rowEditor' \in EditorRecord
    BY <1>9, CommittedTyped DEF DraftCheckPassed
  <2>2. draftSave' \in DraftSaveRecord
    BY <1>9, <1>t, <2>1 DEF DraftCheckPassed, DraftSaveRecord
  <2> QED
    BY <1>9, <1>t, <2>1, <2>2 DEF DraftCheckPassed, DraftTyped
<1>10. CASE DraftSaveFailed
  <2>1. draftSave.rows \in Seq(DraftRow)
    BY <1>t DEF DraftSaveRecord
  <2> QED
    BY <1>10, <1>t, <1>n, <2>1 DEF DraftSaveFailed, DraftTyped
<1>11. CASE Posted
  <2>1. draftSave.rows \in Seq(DraftRow) /\ draftSave' \in DraftSaveRecord
    BY <1>11, <1>t DEF Posted, DraftSaveRecord
  <2> QED
    BY <1>11, <1>t, <2>1 DEF Posted, DraftTyped
<1>12. CASE Saved
  <2>1. draftSave.clicked \in DraftRow \cup {None} /\ At(serverRows, draftSave.index) \in DraftRow \cup {None}
    BY <1>t DEF DraftSaveRecord
  <2>2. ran' \in RanRecord
    BY <1>12, <1>t, <2>1 DEF Saved, RanRecord
  <2> QED
    BY <1>12, <1>t, <1>n, <2>2 DEF Saved, DraftTyped
<1>13. CASE ReloadDraft
  BY <1>13, <1>t DEF ReloadDraft, DraftTyped
<1>14. CASE Reloaded
  BY <1>14, <1>t DEF Reloaded, DraftTyped
<1>15. CASE ReloadFailed
  BY <1>15, <1>t DEF ReloadFailed, DraftTyped
<1>16. CASE UNCHANGED draftVars
  BY <1>16 DEF draftVars, DraftTyped
<1> QED
  BY <1>1, <1>2, <1>3, <1>4, <1>5, <1>6, <1>7, <1>8, <1>9, <1>10, <1>11, <1>12, <1>13, <1>14, <1>15, <1>16
     DEF DraftNext

\* The rows of a draft keep their types, for an administrator who waits for nothing too.
LEMMA DraftTypes == DraftSpec => []DraftTypeOK
<1>1. DraftTyped => DraftTypeOK
  BY DEF DraftTyped, DraftTypeOK, EditorRecord, DraftSaveRecord, RanRecord
<1>2. DraftTyped /\ [DraftNext]_draftVars => DraftTyped'
  BY DraftTypedStep
<1> QED
  BY DraftTypedStart, <1>1, <1>2, PTL DEF DraftSpec

-----------------------------------------------------------------------------
(* The lines of the chat answers. *)

LEMMA MaxOfTwo ==
  ASSUME NEW a \in Int, NEW b \in Int
  PROVE  Max({a, b}) = (IF a >= b THEN a ELSE b) /\ Min({a, b}) = (IF a <= b THEN a ELSE b)
<1>1. PICK m \in {a, b} : \A y \in {a, b} : m >= y
  OBVIOUS
<1>2. PICK n \in {a, b} : \A y \in {a, b} : n <= y
  OBVIOUS
<1>3. Max({a, b}) \in {a, b} /\ \A y \in {a, b} : Max({a, b}) >= y
  BY <1>1 DEF Max
<1>4. Min({a, b}) \in {a, b} /\ \A y \in {a, b} : Min({a, b}) <= y
  BY <1>2 DEF Min
<1> QED
  BY <1>3, <1>4

LEMMA MaxOfIs ==
  ASSUME NEW n \in Nat
  PROVE  MaxOf(n) \in Nat /\ MaxOf(n) >= 1
<1>1. Min({n, 40}) \in Int
  BY MaxOfTwo
<1>2. PICK m \in Int : m = Min({n, 40})
  BY <1>1
<1>3. Max({1, m}) = (IF 1 >= m THEN 1 ELSE m)
  BY MaxOfTwo
<1> QED
  BY <1>2, <1>3 DEF MaxOf

\* The loop of normalizeChatLines ends.
LEMMA NormalizeLoop ==
  ASSUME NEW s \in Seq(Nat)
  PROVE  \E kept :
           /\ NormalizeChatLines(s) = kept[Len(s)] /\ kept[0] = <<>>
           /\ \A i \in 1..Len(s) :
                kept[i] = IF s[i] = EmptyLine THEN kept[i - 1] ELSE Append(kept[i - 1], s[i])
<1> DEFINE V == Seq(Nat)
           n == Len(s)
           g == [y \in (1..n) \X V |-> IF s[y[1]] = EmptyLine THEN y[2] ELSE Append(y[2], s[y[1]])]
<1>1. n \in Nat /\ <<>> \in V /\ \A i \in 1..n : s[i] \in Nat
  OBVIOUS
<1>2. \A r \in V, e \in Nat : Append(r, e) \in V
  OBVIOUS
<1> HIDE DEF V
<1>3. LoopBody(V, n, <<>>, g)
  BY <1>1, <1>2 DEF LoopBody
<1>4. PICK f \in [0..n -> V] : f[0] = <<>> /\ \A i \in 1..n : f[i] = g[<<i, f[i - 1]>>]
  <2> HIDE DEF n, g
  <2> QED
    BY <1>3, Loop
<1>5. ASSUME NEW i \in 1..n
      PROVE  f[i] = IF s[i] = EmptyLine THEN f[i - 1] ELSE Append(f[i - 1], s[i])
  <2>1. i - 1 \in 0..n
    BY <1>1
  <2>2. <<i, f[i - 1]>> \in (1..n) \X V
    BY <2>1
  <2> QED
    BY <1>4, <2>2
<1> DEFINE kept[i \in 0..Len(s)] ==
             IF i = 0 THEN <<>>
             ELSE IF s[i] = EmptyLine THEN kept[i - 1] ELSE Append(kept[i - 1], s[i])
<1>6. f = [i \in 0..Len(s) |->
             IF i = 0 THEN <<>> ELSE IF s[i] = EmptyLine THEN f[i - 1] ELSE Append(f[i - 1], s[i])]
  <2>1. \A i \in 0..n : i = 0 \/ i \in 1..n
    BY <1>1
  <2> QED
    BY <1>4, <1>5, <2>1
<1>7. kept = [i \in 0..Len(s) |->
             IF i = 0 THEN <<>> ELSE IF s[i] = EmptyLine THEN kept[i - 1] ELSE Append(kept[i - 1], s[i])]
  BY <1>6
<1>8. NormalizeChatLines(s) = kept[Len(s)]
  BY DEF NormalizeChatLines
<1> HIDE DEF kept
<1>9. kept[0] = <<>> /\ \A i \in 1..Len(s) :
        kept[i] = IF s[i] = EmptyLine THEN kept[i - 1] ELSE Append(kept[i - 1], s[i])
  <2>1. 0 \in 0..Len(s) /\ \A i \in 1..Len(s) : i \in 0..Len(s) /\ i # 0
    BY <1>1
  <2> QED
    BY <1>7, <2>1
<1> QED
  BY <1>8, <1>9

\* normalizeChatLines drops the empty lines and no other.
LEMMA NormalizeIs ==
  ASSUME NEW s \in Seq(Nat)
  PROVE  /\ NormalizeChatLines(s) \in Seq(Nat)
         /\ Range(NormalizeChatLines(s)) = Range(s) \ {EmptyLine}
         /\ (\A i \in 1..Len(s) : s[i] # EmptyLine) =>
              Len(NormalizeChatLines(s)) = Len(s)
<1>1. PICK kept :
        /\ NormalizeChatLines(s) = kept[Len(s)] /\ kept[0] = <<>>
        /\ \A i \in 1..Len(s) :
             kept[i] = IF s[i] = EmptyLine THEN kept[i - 1] ELSE Append(kept[i - 1], s[i])
  BY NormalizeLoop
<1> DEFINE Good(i) == /\ kept[i] \in Seq(Nat)
                      /\ Range(kept[i]) = {s[j] : j \in 1..i} \ {EmptyLine}
                      /\ (\A j \in 1..i : s[j] # EmptyLine) => Len(kept[i]) = i
           S == {i \in Nat : i <= Len(s) => Good(i)}
<1>2. 0 \in S
  <2>1. {s[j] : j \in 1..0} = {} /\ kept[0] = <<>> /\ <<>> \in Seq(Nat) /\ Range(<<>>) = {} /\ Len(<<>>) = 0
    BY <1>1 DEF Range
  <2> QED
    BY <2>1
<1>3. ASSUME NEW n \in Nat, n \in S PROVE n + 1 \in S
  <2> SUFFICES ASSUME n + 1 <= Len(s) PROVE Good(n + 1)
    OBVIOUS
  <2>1. Good(n) /\ n + 1 \in 1..Len(s) /\ (n + 1) - 1 = n /\ s[n + 1] \in Nat
    BY <1>3
  <2>2. {s[j] : j \in 1..(n + 1)} = {s[j] : j \in 1..n} \cup {s[n + 1]}
    <3>1. 1..(n + 1) = 1..n \cup {n + 1}
      OBVIOUS
    <3> QED
      BY <3>1
  <2>3. (\A j \in 1..(n + 1) : s[j] # EmptyLine) <=> (\A j \in 1..n : s[j] # EmptyLine) /\ s[n + 1] # EmptyLine
    <3>1. 1..(n + 1) = 1..n \cup {n + 1}
      OBVIOUS
    <3> QED
      BY <3>1
  <2>4. CASE s[n + 1] = EmptyLine
    <3>1. kept[n + 1] = kept[n]
      BY <1>1, <2>1, <2>4
    <3> QED
      BY <2>1, <2>2, <2>3, <2>4, <3>1
  <2>5. CASE s[n + 1] # EmptyLine
    <3>1. kept[n + 1] = Append(kept[n], s[n + 1])
      BY <1>1, <2>1, <2>5
    <3>2. /\ kept[n + 1] \in Seq(Nat) /\ Len(kept[n + 1]) = Len(kept[n]) + 1
          /\ Range(kept[n + 1]) = Range(kept[n]) \cup {s[n + 1]}
      BY <2>1, <3>1, AppendRange, AppendIs
    <3> QED
      BY <2>1, <2>2, <2>3, <2>5, <3>2
  <2> QED
    BY <2>4, <2>5
<1> HIDE DEF S
<1>4. Len(s) \in S
  BY <1>2, <1>3, NatInd
<1>5. Good(Len(s))
  <2>1. Len(s) \in Nat /\ Len(s) <= Len(s)
    OBVIOUS
  <2> HIDE DEF Good
  <2> QED
    BY <1>4, <2>1 DEF S
<1>6. Range(s) = {s[j] : j \in 1..Len(s)}
  BY DEF Range
<1> QED
  BY <1>1, <1>5, <1>6

LinesInv ==
  /\ lines \in Seq(Line) /\ maxLines \in Limits /\ entered \in 0..LastLine

\* What a step may not do, for the action property.
LinesStay ==
  /\ Range(lines) \ Range(lines') \subseteq gone'
  /\ entered' # entered /\ Len(lines) <= MaxOf(maxLines) => Len(lines') >= Len(lines)

LEMMA LineNumbers ==
  /\ LastLine \in Nat /\ Limits \subseteq Nat
  /\ \A l \in Line : l \in Nat /\ l # EmptyLine
  /\ \A q \in Seq(Line) : q \in Seq(Nat) /\ Len(q) \in Nat /\ DOMAIN q = 1..Len(q)
                          /\ \A i \in 1..Len(q) : q[i] \in Line
<1>1. LastLine \in Nat /\ Limits \subseteq Nat
  BY LinesConstantsOK
<1>2. \A l \in Line : l \in Nat /\ l # EmptyLine
  BY <1>1 DEF Line, EmptyLine
<1>3. \A q \in Seq(Line) : q \in Seq(Nat)
  BY <1>2
<1> QED
  BY <1>1, <1>2, <1>3

\* A sequence whose elements are lines is one of lines.
LEMMA LinesOnly ==
  ASSUME NEW S, NEW q \in Seq(Nat), Range(q) \subseteq S
  PROVE  q \in Seq(S)
<1>1. q \in [1..Len(q) -> S] /\ Len(q) \in Nat
  BY DEF Range
<1> QED
  BY <1>1

LEMMA LinesStart == LinesInit => LinesInv
<1> SUFFICES ASSUME LinesInit PROVE LinesInv
  OBVIOUS
<1>1. entered \in 0..LastLine /\ lines = [i \in 1..entered |-> i] /\ maxLines \in Limits
  BY DEF LinesInit
<1>2. \A i \in 1..entered : i \in Line
  BY <1>1, LineNumbers DEF Line
<1>3. entered \in Nat
  BY <1>1, LineNumbers
<1>4. lines \in Seq(Line)
  BY <1>1, <1>2, <1>3
<1> QED
  BY <1>1, <1>4 DEF LinesInv

\* What is pasted: fresh lines.
LEMMA Candidates ==
  ASSUME LinesInv, NEW incoming \in Incoming, NormalizeChatLines(incoming) # <<>>
  PROVE  /\ NormalizeChatLines(incoming) \in Seq(Line)
         /\ Len(NormalizeChatLines(incoming)) \in Nat \ {0}
         /\ entered + Len(NormalizeChatLines(incoming)) \in 0..LastLine
<1> DEFINE c == NormalizeChatLines(incoming)
           n == Len(c)
<1>1. entered \in Nat /\ LastLine \in Nat /\ entered <= LastLine
  BY LineNumbers DEF LinesInv
<1>2. PICK m \in 1..PasteMax : incoming \in [1..m -> {EmptyLine} \cup (entered + 1)..LastLine]
  BY DEF Incoming
<1>3. incoming \in Seq(Nat) /\ Range(incoming) \subseteq {EmptyLine} \cup (entered + 1)..LastLine
  <2>1. m \in Nat
    BY <1>2
  <2>2. {EmptyLine} \cup (entered + 1)..LastLine \subseteq Nat
    BY <1>1 DEF EmptyLine
  <2>3. incoming \in [1..m -> Nat]
    BY <1>2, <2>2
  <2> QED
    BY <1>2, <2>1, <2>3 DEF Range
<1>4. c \in Seq(Nat) /\ Range(c) \subseteq (entered + 1)..LastLine
  BY <1>3, NormalizeIs
<1>5. c = [i \in 1..n |-> entered + i]
  BY DEF Incoming
<1>6. (entered + 1)..LastLine \subseteq Line
  BY <1>1 DEF Line
<1> HIDE DEF c
<1>7. n \in Nat /\ n # 0
  <2>1. n \in Nat
    BY <1>4
  <2>2. n = 0 => c = <<>>
    BY <1>4
  <2>3. c # <<>>
    BY DEF c
  <2> QED
    BY <2>1, <2>2, <2>3
<1> HIDE DEF n
<1>8. c[n] = entered + n /\ c[n] \in (entered + 1)..LastLine
  <2>1. n \in 1..n /\ n \in DOMAIN c
    BY <1>5, <1>7
  <2> QED
    BY <1>4, <1>5, <2>1 DEF Range
<1>9. c \in Seq(Line)
  BY <1>4, <1>6, LinesOnly
<1> QED
  BY <1>1, <1>7, <1>8, <1>9 DEF c, n

\* The lines that stay when one is pasted over.
LEMMA KeptIs ==
  ASSUME LinesInv, NEW index \in Nat
  PROVE  /\ Kept(index) \in Seq(Line) /\ Len(Kept(index)) >= Len(lines) - 1
         /\ Len(Kept(index)) <= Len(lines)
         /\ index = 0 => Kept(index) = lines
<1>1. lines \in Seq(Line) /\ DOMAIN lines = 1..Len(lines) /\ Len(lines) \in Nat
  BY LineNumbers DEF LinesInv
<1>2. CASE index \in DOMAIN lines
  <2>1. RemoveAt(lines, index) \in Seq(Line) /\ Len(RemoveAt(lines, index)) = Len(lines) - 1
    BY <1>1, <1>2, RemoveAtIs
  <2> QED
    BY <1>1, <1>2, <2>1 DEF Kept
<1>3. CASE index \notin DOMAIN lines
  BY <1>1, <1>3 DEF Kept
<1> QED
  BY <1>2, <1>3

LEMMA AppendStays ==
  ASSUME LinesInv, NEW incoming \in Incoming, NEW index \in Nat, AppendChatLines(incoming, index)
  PROVE  LinesInv' /\ LinesStay
<1> DEFINE c == NormalizeChatLines(incoming)
           k == Kept(index)
           n == Min({Available(index), Len(c)})
<1>1. /\ c # <<>> /\ lines' = k \o SubSeq(c, 1, n) /\ entered' = entered + Len(c)
      /\ gone' = Range(lines) \ Range(k) /\ maxLines' = maxLines
  BY DEF AppendChatLines
<1>2. c \in Seq(Line) /\ Len(c) \in Nat /\ Len(c) >= 1 /\ entered + Len(c) \in 0..LastLine
  BY <1>1, Candidates
<1>3. k \in Seq(Line) /\ Len(k) \in Nat /\ Len(k) >= Len(lines) - 1 /\ Len(lines) \in Nat
  <2>1. k \in Seq(Line) /\ Len(k) >= Len(lines) - 1
    BY KeptIs
  <2> HIDE DEF k
  <2> QED
    BY <2>1, LineNumbers DEF LinesInv
<1>4. MaxOf(maxLines) \in Nat /\ MaxOf(maxLines) >= 1
  BY LineNumbers, MaxOfIs DEF LinesInv
<1> HIDE DEF c, k
<1>5. Available(index) \in Nat /\ Available(index) >= MaxOf(maxLines) - Len(k)
  <2>1. PICK m \in Int : m = MaxOf(maxLines) - Len(k)
    BY <1>3, <1>4
  <2>2. Max({0, m}) = IF 0 >= m THEN 0 ELSE m
    BY MaxOfTwo
  <2> QED
    BY <2>1, <2>2 DEF Available, k
<1>6. n \in 0..Len(c) /\ (n = Available(index) \/ n = Len(c))
  <2>1. n = IF Available(index) <= Len(c) THEN Available(index) ELSE Len(c)
    <3>1. PICK a \in Int, b \in Int : a = Available(index) /\ b = Len(c)
      BY <1>2, <1>5
    <3>2. Min({a, b}) = IF a <= b THEN a ELSE b
      BY MaxOfTwo
    <3> QED
      BY <3>1, <3>2
  <2> QED
    BY <1>2, <1>5, <2>1
<1> HIDE DEF n
<1>7. SubSeq(c, 1, n) \in Seq(Line) /\ Len(SubSeq(c, 1, n)) = n
  BY <1>2, <1>6
<1>8. lines' \in Seq(Line) /\ Len(lines') = Len(k) + n /\ Range(k) \subseteq Range(lines')
  BY <1>1, <1>3, <1>7, ConcatRange
<1>9. LinesInv'
  BY <1>1, <1>2, <1>8 DEF LinesInv
<1>10. Range(lines) \ Range(lines') \subseteq gone'
  BY <1>1, <1>8
<1>11. Len(lines) <= MaxOf(maxLines) => Len(lines') >= Len(lines)
  <2>1. n \in Nat
    BY <1>2, <1>6
  <2> QED
    BY <1>2, <1>3, <1>4, <1>5, <1>6, <1>8, <2>1
<1> QED
  BY <1>9, <1>10, <1>11 DEF LinesStay

LEMMA RetypeStays ==
  ASSUME LinesInv, NEW i \in DOMAIN lines, NEW typed \in Line \cup {EmptyLine}, Retype(i, typed)
  PROVE  LinesInv' /\ LinesStay
<1>1. /\ lines \in Seq(Line) /\ lines \in Seq(Nat) /\ Len(lines) \in Nat /\ i \in 1..Len(lines)
      /\ \A j \in 1..Len(lines) : lines[j] \in Line /\ lines[j] # EmptyLine
      /\ entered \in Nat /\ LastLine \in Nat /\ entered <= LastLine
  BY LineNumbers DEF LinesInv
<1>2. PICK v \in Nat : v = (IF typed = EmptyLine THEN EmptyLine ELSE entered + 1)
  BY <1>1 DEF EmptyLine
<1> DEFINE t == [lines EXCEPT ![i] = v]
<1>3. /\ lines' = NormalizeChatLines(t) /\ gone' = {lines[i]} /\ maxLines' = maxLines
      /\ entered' = IF typed = EmptyLine THEN entered ELSE entered + 1
      /\ typed = EmptyLine \/ entered < LastLine
  BY <1>2 DEF Retype
<1>4. v = EmptyLine \/ v \in Line
  BY <1>1, <1>2, <1>3 DEF Line
<1>5. t \in Seq(Nat) /\ Len(t) = Len(lines) /\ \A j \in 1..Len(lines) : t[j] = IF j = i THEN v ELSE lines[j]
  BY <1>1, <1>2
<1> HIDE DEF t
<1>6. /\ lines' \in Seq(Nat) /\ Range(lines') = Range(t) \ {EmptyLine}
      /\ (\A j \in 1..Len(t) : t[j] # EmptyLine) => Len(lines') = Len(t)
  BY <1>3, <1>5, NormalizeIs
<1>7. DOMAIN t = 1..Len(lines) /\ DOMAIN lines = 1..Len(lines)
  BY <1>1, <1>5
<1>8. Range(lines') \subseteq Line
  <2>1. \A j \in DOMAIN t : t[j] = EmptyLine \/ t[j] \in Line
    BY <1>1, <1>4, <1>5, <1>7
  <2> QED
    BY <1>6, <2>1 DEF Range
<1>9. LinesInv'
  <2>1. lines' \in Seq(Line)
    BY <1>6, <1>8, LinesOnly
  <2>2. entered' \in 0..LastLine
    BY <1>1, <1>3
  <2> QED
    BY <1>3, <2>1, <2>2 DEF LinesInv
<1>10. Range(lines) \ Range(lines') \subseteq gone'
  <2>1. ASSUME NEW j \in DOMAIN lines, lines[j] # lines[i] PROVE lines[j] \in Range(t) \ {EmptyLine}
    <3>1. j # i /\ t[j] = lines[j] /\ j \in DOMAIN t /\ lines[j] # EmptyLine
      BY <1>1, <1>5, <1>7, <2>1
    <3> QED
      BY <3>1 DEF Range
  <2> QED
    BY <1>3, <1>6, <2>1 DEF Range
<1>11. entered' # entered => Len(lines') >= Len(lines)
  <2>1. SUFFICES ASSUME entered' # entered PROVE Len(lines') = Len(lines)
    BY <1>1
  <2>2. v = entered + 1 /\ v # EmptyLine
    BY <1>1, <1>2, <1>3, <2>1 DEF EmptyLine
  <2> QED
    BY <1>1, <1>5, <1>6, <2>2
<1> QED
  BY <1>9, <1>10, <1>11 DEF LinesStay

LEMMA RemoveStays ==
  ASSUME LinesInv, NEW i \in DOMAIN lines, RemoveLine(i)
  PROVE  LinesInv' /\ LinesStay
<1>1. /\ lines \in Seq(Line) /\ Len(lines) \in Nat /\ i \in 1..Len(lines) /\ DOMAIN lines = 1..Len(lines)
      /\ lines' = RemoveAt(lines, i) /\ gone' = {lines[i]} /\ maxLines' = maxLines /\ entered' = entered
  BY LineNumbers DEF LinesInv, RemoveLine
<1>2. /\ lines' \in Seq(Line) /\ Len(lines') = Len(lines) - 1
      /\ \A j \in 1..(Len(lines) - 1) : lines'[j] = IF j < i THEN lines[j] ELSE lines[j + 1]
  BY <1>1, RemoveAtIs
<1>3. DOMAIN lines' = 1..(Len(lines) - 1)
  BY <1>2
<1>4. ASSUME NEW j \in DOMAIN lines, j # i PROVE lines[j] \in Range(lines')
  <2>1. CASE j < i
    <3>1. j \in DOMAIN lines' /\ lines'[j] = lines[j]
      BY <1>1, <1>2, <1>3, <2>1
    <3> QED
      BY <3>1 DEF Range
  <2>2. CASE ~(j < i)
    <3>1. j - 1 \in DOMAIN lines' /\ ~(j - 1 < i) /\ (j - 1) + 1 = j
      BY <1>1, <1>3, <1>4, <2>2
    <3>2. lines'[j - 1] = lines[j]
      BY <1>2, <1>3, <3>1
    <3> QED
      BY <3>1, <3>2 DEF Range
  <2> QED
    BY <2>1, <2>2
<1>5. Range(lines) \ Range(lines') \subseteq gone'
  BY <1>1, <1>4 DEF Range
<1> QED
  BY <1>1, <1>2, <1>5 DEF LinesInv, LinesStay

LEMMA MoveStays ==
  ASSUME LinesInv, NEW i \in DOMAIN lines, NEW j, MoveLine(i, j)
  PROVE  LinesInv' /\ LinesStay
<1>1. /\ lines \in Seq(Line) /\ j \in DOMAIN lines /\ maxLines' = maxLines /\ entered' = entered
      /\ lines' = [lines EXCEPT ![i] = lines[j], ![j] = lines[i]] /\ DOMAIN lines = 1..Len(lines)
      /\ lines[i] \in Line /\ lines[j] \in Line
  BY LineNumbers DEF LinesInv, MoveLine
<1>2. lines' \in Seq(Line) /\ DOMAIN lines' = DOMAIN lines
  BY <1>1
<1>3. Range(lines) \subseteq Range(lines')
  <2>1. ASSUME NEW k \in DOMAIN lines PROVE lines[k] \in Range(lines')
    <3>1. \E m \in DOMAIN lines' : lines'[m] = lines[k]
      <4>1. CASE k = i
        BY <1>1, <1>2, <4>1
      <4>2. CASE k = j
        BY <1>1, <1>2, <4>2
      <4>3. CASE k # i /\ k # j
        BY <1>1, <1>2, <4>3
      <4> QED
        BY <4>1, <4>2, <4>3
    <3> QED
      BY <3>1 DEF Range
  <2> QED
    BY <2>1 DEF Range
<1> QED
  BY <1>1, <1>2, <1>3 DEF LinesInv, LinesStay

LEMMA LinesStep == LinesInv /\ [LinesNext]_linesVars => LinesInv' /\ [LinesStay]_linesVars
<1> SUFFICES ASSUME LinesInv, [LinesNext]_linesVars PROVE LinesInv' /\ [LinesStay]_linesVars
  OBVIOUS
<1>1. \A i \in DOMAIN lines : i \in Nat
  BY LineNumbers DEF LinesInv
<1>2. ASSUME NEW incoming \in Incoming, AppendChatLines(incoming, 0) PROVE LinesInv' /\ LinesStay
  BY <1>2, AppendStays
<1>3. ASSUME NEW i \in DOMAIN lines, NEW incoming \in Incoming, AppendChatLines(incoming, i)
      PROVE  LinesInv' /\ LinesStay
  BY <1>1, <1>3, AppendStays
<1>4. ASSUME NEW i \in DOMAIN lines, NEW typed \in Line \cup {EmptyLine}, Retype(i, typed)
      PROVE  LinesInv' /\ LinesStay
  BY <1>4, RetypeStays
<1>5. ASSUME NEW i \in DOMAIN lines, RemoveLine(i) PROVE LinesInv' /\ LinesStay
  BY <1>5, RemoveStays
<1>6. ASSUME NEW i \in DOMAIN lines, NEW j \in {i - 1, i + 1}, MoveLine(i, j) PROVE LinesInv' /\ LinesStay
  BY <1>6, MoveStays
<1>7. ASSUME NEW n \in Limits, SetLimit(n) PROVE LinesInv' /\ LinesStay
  BY <1>7 DEF SetLimit, LinesInv, LinesStay
<1>8. CASE SaveLines
  BY <1>8 DEF SaveLines, LinesInv, LinesStay
<1>9. CASE UNCHANGED linesVars
  BY <1>9 DEF linesVars, LinesInv
<1> QED
  BY <1>2, <1>3, <1>4, <1>5, <1>6, <1>7, <1>8, <1>9 DEF LinesNext

\* The editor of the chat answers never takes away a line it was not asked to take away,
\* nor makes room for a pasted block that has none.
THEOREM LinesAreKept == LinesSpec => NoLineLost
<1>1. LinesInv /\ [LinesNext]_linesVars => LinesInv'
  BY LinesStep
<1>2. LinesInv /\ [LinesNext]_linesVars =>
        [/\ Range(lines) \ Range(lines') \subseteq gone'
         /\ entered' # entered /\ Len(lines) <= MaxOf(maxLines) => Len(lines') >= Len(lines)]_linesVars
  BY LinesStep DEF LinesStay
<1>3. LinesSpec => []LinesInv
  BY LinesStart, <1>1, PTL DEF LinesSpec
<1> QED
  BY <1>2, <1>3, PTL DEF LinesSpec, NoLineLost

\* The types of the lines, of what the server keeps and of what a step takes away.
LinesTyped == LinesInv /\ saved \in [lines : Seq(Line), limit : Limits] /\ gone \subseteq Line

LEMMA LinesTypedStart == LinesInit => LinesTyped
<1> SUFFICES ASSUME LinesInit PROVE LinesTyped
  OBVIOUS
<1>1. LinesInv
  BY LinesStart
<1> QED
  BY <1>1 DEF LinesInit, LinesInv, LinesTyped

\* What is taken away, and what the server keeps.
LEMMA TakenAreLines ==
  ASSUME LinesTyped, [LinesNext]_linesVars
  PROVE  saved' \in [lines : Seq(Line), limit : Limits] /\ gone' \subseteq Line
<1>t. /\ lines \in Seq(Line) /\ maxLines \in Limits /\ saved \in [lines : Seq(Line), limit : Limits]
      /\ gone \subseteq Line /\ \A i \in DOMAIN lines : lines[i] \in Line
  BY LineNumbers DEF LinesTyped, LinesInv
<1>r. Range(lines) \subseteq Line
  BY <1>t DEF Range
<1>1. ASSUME NEW incoming, NEW index, AppendChatLines(incoming, index)
      PROVE  saved' = saved /\ gone' \subseteq Line
  BY <1>1, <1>r DEF AppendChatLines
<1>2. ASSUME NEW i \in DOMAIN lines, NEW typed, Retype(i, typed) PROVE saved' = saved /\ gone' \subseteq Line
  BY <1>2, <1>t DEF Retype
<1>3. ASSUME NEW i \in DOMAIN lines, RemoveLine(i) PROVE saved' = saved /\ gone' \subseteq Line
  BY <1>3, <1>t DEF RemoveLine
<1>4. ASSUME NEW i, NEW j, MoveLine(i, j) PROVE saved' = saved /\ gone' \subseteq Line
  BY <1>4 DEF MoveLine
<1>5. ASSUME NEW n, SetLimit(n) PROVE saved' = saved /\ gone' \subseteq Line
  BY <1>5 DEF SetLimit
<1>6. CASE SaveLines
  BY <1>6, <1>t DEF SaveLines
<1>7. CASE UNCHANGED linesVars
  BY <1>7, <1>t DEF linesVars
<1> QED
  BY <1>t, <1>1, <1>2, <1>3, <1>4, <1>5, <1>6, <1>7 DEF LinesNext

\* The editor of the chat answers keeps its types.
LEMMA LinesTypes == LinesSpec => []LinesTypeOK
<1>1. LinesTyped /\ [LinesNext]_linesVars => LinesTyped'
  BY LinesStep, TakenAreLines DEF LinesTyped
<1>2. LinesTyped => LinesTypeOK
  BY DEF LinesTyped, LinesInv, LinesTypeOK
<1> QED
  BY LinesTypedStart, <1>1, <1>2, PTL DEF LinesSpec
=============================================================================
