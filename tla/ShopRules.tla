------------------------------ MODULE ShopRules ------------------------------
(***************************************************************************)
(* A rule of a shop module (GameStores or Wargm): edited in the web panel, *)
(* normalised when it is saved, and applied to an order by the panel's     *)
(* delivery service or by the native runtime.  The panel shows a rule by   *)
(* one object id and one type; the runtimes match the id and choose the    *)
(* delivery by rules of their own, from the same fields.                   *)
(*                                                                         *)
(* "Own" stands for the types that every program serves by a branch of its *)
(* own (Vehicle, Money, Gold, Attributes, Skill, AllSkills), "Command" for *)
(* the two types of commands, "ChangeFame" for the older names of Fame.    *)
(* Whether the fields of a type are filled in is left open.                *)
(***************************************************************************)
CONSTANTS
  ObjectId,           \* object ids of the shop
  Blank, Missing      \* an empty field, a field that the rule lacks

ASSUME ShopConstantsOK == {Blank, Missing} \cap ObjectId = {} /\ Blank # Missing

VARIABLES
  shop,               \* the module
  rule,               \* the rule: in the panel's draft, or as the server keeps it
  edited,             \* the draft differs from what the server keeps
  bySave,             \* the panel has saved the rule (history)
  order               \* the order served last from the kept rule

shopVars == <<shop, rule, edited, bySave, order>>

Runtimes == {"panel", "native"}
Offered == {"SpawnItem", "Own", "CargoDropPlayer", "Vip", "Fame", "Command"}
Field == ObjectId \cup {Blank, Missing}
Rule == [item : Field, object : Field, product : Field,
         mode : Offered \cup {"ChangeFame"}, ui : {Missing, "Fame"}, command : BOOLEAN]
Nothing == "nothing"
NoOrder == [runtime |-> "panel", id |-> Blank, matched |-> FALSE, gave |-> Nothing]

ShopTypeOK ==
  /\ shop \in {"GameStores", "Wargm"}
  /\ rule \in Rule /\ edited \in BOOLEAN /\ bySave \in BOOLEAN
  /\ order \in [runtime : Runtimes, id : ObjectId \cup {Blank}, matched : BOOLEAN,
                gave : Offered \cup {Nothing}]

Filled(x) == x \notin {Blank, Missing}
FirstFilled(x, y, z) ==
  IF Filled(x) THEN x ELSE IF Filled(y) THEN y ELSE IF Filled(z) THEN z ELSE Blank
FirstPresent(x, y, z) ==
  IF x # Missing THEN x ELSE IF y # Missing THEN y ELSE IF z # Missing THEN z ELSE Blank

-----------------------------------------------------------------------------
(* The web panel. *)

\* wargmRuleMode, and the object id of renderWargmRulesEditor.
ShownMode(r) ==
  IF r.ui # Missing THEN r.ui ELSE IF r.mode \in Offered THEN r.mode ELSE "Fame"
ShownId(r) == FirstFilled(r.item, r.object, r.product)

\* defaultArrayItem
NewRule == [item |-> Blank, object |-> Missing,
            product |-> IF shop = "GameStores" THEN Blank ELSE Missing,
            mode |-> "SpawnItem", ui |-> Missing, command |-> FALSE]

\* Mutant: the shown id always goes to the item id.
KeptItem(r) == IF ~Filled(ShownId(r)) THEN r ELSE [r EXCEPT !.item = ShownId(r)]

\* normalizeWargmConfigForSave: the shown id goes to the field that is matched first,
\* the shown type replaces what older versions wrote for fame points.
KeptId(r) ==
  IF ~Filled(ShownId(r)) THEN r
  ELSE IF shop = "GameStores" /\ Filled(r.product)
       THEN [r EXCEPT !.product = ShownId(r)]
       ELSE [r EXCEPT !.item = ShownId(r)]
KeptMode(r) ==
  IF ShownMode(r) = "Fame"
  THEN [r EXCEPT !.mode = "Fame", !.ui = Missing, !.command = FALSE]
  ELSE [r EXCEPT !.ui = Missing]

-----------------------------------------------------------------------------
(* The runtimes. *)

\* MatchRule of the panel's two services, GameStoresRuleMatches and WargmRuleMatches
\* of the native runtime: the panel takes the first field that the rule has, the
\* native runtime the first that is not blank.
RuleId(runtime, r) ==
  LET First(x, y, z) == IF runtime = "panel" THEN FirstPresent(x, y, z) ELSE FirstFilled(x, y, z)
  IN  IF shop = "GameStores" THEN First(r.product, r.item, r.object)
                             ELSE First(r.item, r.object, Missing)

\* The types without a branch of their own in BuildPendingRow (BuildGameStoresPendingRow,
\* BuildWargmPendingRow): the order is answered with items.
AsItems(runtime) ==
  {"SpawnItem"} \cup (IF shop = "GameStores" THEN {"Vip"} ELSE {})
    \cup (IF shop = "Wargm" /\ runtime = "panel" THEN {} ELSE {"CargoDropPlayer"})

\* What a matched order may be answered with.  The Wargm service of the panel refuses
\* VIP and cargo drops; a Wargm rule of type VIP runs its command in the native runtime.
Answers(runtime, r) ==
  {Nothing} \cup
    (IF r.mode \in AsItems(runtime) THEN {"SpawnItem"}
     ELSE IF r.mode = "ChangeFame" THEN {"Fame"}
     ELSE IF r.mode \in {"Own", "Fame"} THEN {r.mode}
     ELSE IF r.command /\ ~(runtime = "panel" /\ r.mode # "Command") THEN {"Command"}
     ELSE {})

-----------------------------------------------------------------------------
ShopInit ==
  /\ shop \in {"GameStores", "Wargm"}
  /\ rule \in Rule                              \* of any earlier version
  /\ edited = FALSE /\ bySave = FALSE /\ order = NoOrder

ChangeRule(r) ==
  /\ rule' = r
  /\ edited' = TRUE /\ order' = NoOrder
  /\ UNCHANGED <<shop, bySave>>

AddRule == ChangeRule(NewRule)

\* syncModuleField: the fields of the rule's editor (the product id only in GameStores),
\* and the type, which writes UiDeliveryMode as well.
EditId(x) ==
  \/ ChangeRule([rule EXCEPT !.item = x])
  \/ shop = "GameStores" /\ ChangeRule([rule EXCEPT !.product = x])
SetMode(m) ==
  ChangeRule([rule EXCEPT !.mode = m, !.ui = IF m = "Fame" THEN "Fame" ELSE Missing])
EditCommand(filled) ==
  /\ ShownMode(rule) = "Command"
  /\ ChangeRule([rule EXCEPT !.command = filled])

Save ==
  /\ rule' = KeptMode(KeptId(rule))
  /\ edited' = FALSE /\ bySave' = TRUE /\ order' = NoOrder
  /\ UNCHANGED shop

Order(runtime, x) ==
  /\ ~edited
  /\ LET matches == Filled(RuleId(runtime, rule)) /\ RuleId(runtime, rule) = x
     IN \E gave \in (IF matches THEN Answers(runtime, rule) ELSE {Nothing}) :
          order' = [runtime |-> runtime, id |-> x, matched |-> matches, gave |-> gave]
  /\ UNCHANGED <<shop, rule, edited, bySave>>

ShopNext ==
  \/ AddRule
  \/ \E x \in ObjectId \cup {Blank} : EditId(x)
  \/ \E m \in Offered : SetMode(m)
  \/ \E filled \in BOOLEAN : EditCommand(filled)
  \/ Save
  \/ \E runtime \in Runtimes, x \in ObjectId : Order(runtime, x)

ShopSpec == ShopInit /\ [][ShopNext]_shopVars

-----------------------------------------------------------------------------
Served == order # NoOrder /\ bySave

\* A rule that the panel has saved is applied as the panel shows it: an order that it
\* matches has the object id that is shown, all programs but the GameStores service of
\* the panel match that id, and of the types that all programs know the order gets the
\* type that is shown, or nothing.
OrderGetsWhatIsShown ==
  Served =>
    /\ order.matched => order.id = ShownId(rule)
    /\ order.id = ShownId(rule) /\ ~(shop = "GameStores" /\ order.runtime = "panel")
         => order.matched
    /\ ShownMode(rule) \notin {"Vip", "CargoDropPlayer"}
         => order.gave \in {ShownMode(rule), Nothing}

\* What the services' message says of a VIP rule: the panel's automatic delivery skips
\* it, and never gives the buyer something else.
VipIsSkipped ==
  Served /\ order.runtime = "panel" /\ ShownMode(rule) = "Vip" => order.gave = Nothing
=============================================================================
