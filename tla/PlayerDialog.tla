---------------------------- MODULE PlayerDialog ----------------------------
(***************************************************************************)
(* The players page of the web panel: the list of players, which is read   *)
(* again while a dialog is open, the player the dialog was opened for, the *)
(* field that names the target of its actions, and the inventory, read     *)
(* from the server and kept by key.                                        *)
(*                                                                         *)
(* A player has a SteamID and a name; a row of the list may lack one of    *)
(* them.  Both are written here as the player himself, so no two players   *)
(* have the same name.  The runtime key, and another target typed into the *)
(* field by hand, are left out.                                            *)
(***************************************************************************)
EXTENDS Naturals, Sequences, PanelCommon

CONSTANTS
  Lists,              \* bound: the lists of players the server answers
  LoadMax             \* bound: inventory requests of one key under way

VARIABLES
  players,            \* state.players
  playersListing,     \* state.playersRefreshInFlight
  selectedTarget,     \* state.selectedPlayerTarget
  field,              \* the text of playerActionTarget
  dialog,             \* whom the title of the open dialog names, or None
  cache,              \* state.playerInventory
  inventoryLoads,     \* loads[k]: inventory requests of key k under way
  panel               \* what playerInventoryBody shows

selection == <<selectedTarget, field, dialog>>
inventory == <<cache, inventoryLoads, panel>>
dialogVars == <<players, playersListing, selectedTarget, field, dialog, cache, inventoryLoads, panel>>

PlayerId == Person \cup {None}
Identity == {r \in [steam : PlayerId, name : PlayerId] :
               r.steam # None /\ r.name # None => r.steam = r.name}
PlayerRow == {r \in Identity : r.steam # None \/ r.name # None}
Nobody == [steam |-> None, name |-> None]
Named(r) == IF r.steam # None THEN r.steam ELSE r.name

ASSUME DialogConstantsOK ==
  /\ None \notin Person /\ {"reset", "loading", "error"} \cap Person = {}
  /\ LoadMax \in Nat
  /\ Lists \subseteq Seq(PlayerRow)
  /\ \A list \in Lists : \A i, j \in DOMAIN list : i # j => Named(list[i]) # Named(list[j])

Key == {"steam", "name"} \X Person
\* What playerInventoryBody shows: nothing yet, that it loads, an error, or the rows of a player.
InventoryShown == {"reset", "loading", "error"} \cup Person

DialogTypeOK ==
  /\ players \in Seq(PlayerRow) /\ playersListing \in BOOLEAN
  /\ selectedTarget \in [id : Identity, target : PlayerId]
  /\ field \in PlayerId /\ dialog \in PlayerId
  /\ cache \in [Key -> {"none", "loading", "ready", "error"}]
  /\ inventoryLoads \in [Key -> 0..LoadMax]
  /\ panel \in InventoryShown

DialogInit ==
  /\ players = <<>> /\ playersListing = FALSE
  /\ selectedTarget = [id |-> Nobody, target |-> None]
  /\ field = None /\ dialog = None
  /\ cache = [k \in Key |-> "none"] /\ inventoryLoads = [k \in Key |-> 0]
  /\ panel = "reset"

\* playerInventoryKey
KeyOf(id) == IF id.steam # None THEN <<"steam", id.steam>> ELSE <<"name", id.name>>

\* Mutant: two identities that are both missing are the same.
SameOrMissing(id, r) == r.steam = id.steam \/ r.name = id.name

\* The comparison of refreshPlayers: an identity that is missing matches nothing.
SamePlayer(id, r) ==
  \/ id.steam # None /\ r.steam = id.steam
  \/ id.name # None /\ r.name = id.name
\* Array.find: the first row that fits
Matches(rows, id) == {i \in DOMAIN rows : SamePlayer(id, rows[i])}
First(S) == CHOOSE i \in S : \A j \in S : i <= j

Completed(id, r) ==
  [steam |-> IF r.steam # None THEN r.steam ELSE id.steam,
   name |-> IF r.name # None THEN r.name ELSE id.name]

\* renderPlayerInventoryPanel shows the entry of the player selected by now.
Render(id, entries) ==
  CASE entries[KeyOf(id)] \in {"none", "loading"} -> "loading"
    [] entries[KeyOf(id)] = "error" -> "error"
    [] OTHER -> Named(id)

\* setSelectedPlayerTarget: what the card lacks is completed from the list.
Selected(r) ==
  LET found == Matches(players, r)
  IN  IF found = {} THEN r ELSE Completed(players[First(found)], r)

RefreshPlayers ==
  /\ ~playersListing /\ playersListing' = TRUE
  /\ UNCHANGED <<players, selection, inventory>>

\* The rows of the server's log, in any order; some lack the name or the SteamID.
PlayersAnswered ==
  /\ playersListing /\ playersListing' = FALSE
  /\ \E rows \in Lists :
       /\ players' = rows
       /\ selectedTarget' = LET found == Matches(rows, selectedTarget.id)
                      IN  IF selectedTarget.id = Nobody \/ found = {} THEN selectedTarget
                          ELSE [selectedTarget EXCEPT !.id = Completed(@, rows[First(found)])]
  /\ UNCHANGED <<field, dialog, inventory>>

PlayersFailed ==
  /\ playersListing /\ playersListing' = FALSE
  /\ UNCHANGED <<players, selection, inventory>>

\* loadPlayerInventory for an identity: an entry without error is shown as it is,
\* unless a new one is asked for.
LoadInventory(id, force) ==
  LET k == KeyOf(id)
  IN  IF cache[k] = "ready" /\ ~force
      THEN panel' = Render(selectedTarget'.id, cache) /\ UNCHANGED <<cache, inventoryLoads>>
      ELSE /\ inventoryLoads[k] < LoadMax
           /\ inventoryLoads' = [inventoryLoads EXCEPT ![k] = @ + 1]
           /\ cache' = [cache EXCEPT ![k] = "loading"]
           /\ panel' = Render(selectedTarget'.id, cache')

\* The button of a card opens the dialog: openPlayerActionModal, with the
\* inventory tab or another one.  The dialog covers the list until it is closed.
OpenDialog(r, tab) ==
  /\ dialog = None
  /\ \E i \in DOMAIN players : players[i] = r
  /\ selectedTarget' = [id |-> Selected(r), target |-> Named(r)]
  /\ field' = Named(r)
  /\ dialog' = Named(r)
  /\ IF tab = "inventory"
     THEN LoadInventory(Selected(r), FALSE)
     ELSE panel' = "reset" /\ UNCHANGED <<cache, inventoryLoads>>
  /\ UNCHANGED <<players, playersListing>>

CloseDialog ==
  /\ dialog # None /\ dialog' = None
  /\ UNCHANGED <<players, playersListing, selectedTarget, field, inventory>>

\* The tab and the refresh button.
ReloadInventory(force) ==
  /\ selectedTarget.id # Nobody
  /\ UNCHANGED selection
  /\ LoadInventory(selectedTarget.id, force)
  /\ UNCHANGED <<players, playersListing>>
\* refreshSelectedInventorySoon: the timer that reads it again after an action does so for
\* the player who was selected when it was set, which by now may be any that has been.
ReloadSoon(id) ==
  /\ selectedTarget.id # Nobody
  /\ UNCHANGED selection
  /\ LoadInventory(id, TRUE)
  /\ UNCHANGED <<players, playersListing>>

\* Mutant: the answer is shown whoever is selected by now.
ShowAnswer(k, ok) ==
  /\ inventoryLoads[k] > 0
  /\ inventoryLoads' = [inventoryLoads EXCEPT ![k] = @ - 1]
  /\ cache' = [cache EXCEPT ![k] = IF ok THEN "ready" ELSE "error"]
  /\ panel' = IF ok THEN k[2] ELSE "error"
  /\ UNCHANGED <<players, playersListing, selection>>

InventoryAnswered(k, ok) ==
  /\ inventoryLoads[k] > 0
  /\ inventoryLoads' = [inventoryLoads EXCEPT ![k] = @ - 1]
  /\ cache' = [cache EXCEPT ![k] = IF ok THEN "ready" ELSE "error"]
  /\ panel' = Render(selectedTarget.id, cache')
  /\ UNCHANGED <<players, playersListing, selection>>

\* modalTargetBody, the player every action of the dialog is sent for; a typed
\* SteamID or name is completed from the list.
ModalTargetBody ==
  IF field \in {selectedTarget.target, selectedTarget.id.steam, selectedTarget.id.name}
  THEN selectedTarget.id
  ELSE [steam |-> field, name |-> None]

DialogNext ==
  \/ RefreshPlayers \/ PlayersAnswered \/ PlayersFailed
  \/ \E r \in PlayerRow, tab \in {"inventory", "items"} : OpenDialog(r, tab)
  \/ CloseDialog
  \/ \E force \in BOOLEAN : ReloadInventory(force)
  \/ \E id \in PlayerRow : ReloadSoon(id)
  \/ \E k \in Key, ok \in BOOLEAN : InventoryAnswered(k, ok)

DialogSpec == DialogInit /\ [][DialogNext]_dialogVars

\* A list that arrives while the dialog is open completes the selected player and
\* never makes him another one: an action is sent for the player in the dialog's title.
ActionsReachTitled == dialog # None => Named(ModalTargetBody) = dialog

\* An inventory that is answered late is not shown in the dialog of another
\* player: the item that a delete button names belongs to the player to whom the
\* request for its deletion goes.
DeletesOwnItems == dialog # None /\ panel \in Person => Named(ModalTargetBody) = panel
=============================================================================
