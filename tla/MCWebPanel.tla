----------------------------- MODULE MCWebPanel -----------------------------
(***************************************************************************)
(* The modules of the web panel, checked by one run.  They share no state: *)
(* part chooses one of them, which takes its steps while the others stay   *)
(* in an initial state.                                                    *)
(***************************************************************************)
EXTENDS PanelTranslation, WelcomePack, CommandAliases, PanelLogs, ShopRules, PlayerDialog,
        ServerConfigEditor, ModuleConfigs, ModuleDraft, ChatLines, KillFeed, CutAnswer, TLC

CONSTANTS p, q, fa, fb, home, pay

VARIABLE part

MCDefault == <<{home}, {pay}>>
MCFirstContent == (fa :> 0) @@ (fb :> 1)
\* A .cfg has no negative numbers.
MCSkews == {-20}
\* Lists of p and q in which a row lacks the SteamID or the name, and q comes and goes.
Entry(s, n) == [steam |-> s, name |-> n]
MCLists == {<<>>, <<Entry(p, p)>>, <<Entry(q, q), Entry(p, None)>>,
            <<Entry(None, p), Entry(q, None)>>, <<Entry(p, p), Entry(None, q)>>}

panelVars == <<part, translation, welcome, aliasVars, config, dialogVars, moduleVars, draftVars,
               feedVars, linesVars, logsVars, shopVars, cutVars>>

Part == {"translation", "welcome", "aliases", "configs", "dialog", "modules", "draft", "kills",
         "lines", "logs", "shop", "cut"}

\* A part has all its initial states when it is the one chosen, and one of them otherwise.
PanelInit ==
  /\ part \in Part
  /\ AliasesInit /\ ConfigInit /\ DialogInit /\ ModuleInit
  /\ LogsInit /\ CutInit
  /\ TranslationInit
  /\ part = "translation" \/ (language = "ru" /\ \A x \in Place : written[x] \in Dictionary)
  /\ WelcomeInit /\ (part = "welcome" \/ given = {})
  /\ DraftInit /\ (part = "draft" \/ (kind = "jobs" /\ added = 0))
  /\ FeedInit /\ (part = "kills" \/ offset = 0)
  /\ LinesInit /\ (part = "lines" \/ (entered = 0 /\ maxLines = 2))
  /\ ShopInit /\ (part = "shop" \/ (rule = NewRule /\ shop = "Wargm"))

\* Whether the part called name takes the next step, the others staying as they are.
Only(name) ==
  /\ part = name /\ UNCHANGED part
  /\ IF name = "translation" THEN TRUE ELSE UNCHANGED translation
  /\ IF name = "welcome" THEN TRUE ELSE UNCHANGED welcome
  /\ IF name = "aliases" THEN TRUE ELSE UNCHANGED aliasVars
  /\ IF name = "configs" THEN TRUE ELSE UNCHANGED config
  /\ IF name = "dialog" THEN TRUE ELSE UNCHANGED dialogVars
  /\ IF name = "modules" THEN TRUE ELSE UNCHANGED moduleVars
  /\ IF name = "draft" THEN TRUE ELSE UNCHANGED draftVars
  /\ IF name = "kills" THEN TRUE ELSE UNCHANGED feedVars
  /\ IF name = "lines" THEN TRUE ELSE UNCHANGED linesVars
  /\ IF name = "logs" THEN TRUE ELSE UNCHANGED logsVars
  /\ IF name = "shop" THEN TRUE ELSE UNCHANGED shopVars
  /\ IF name = "cut" THEN TRUE ELSE UNCHANGED cutVars

PanelNext ==
  \/ Only("translation") /\ TranslationNext
  \/ Only("welcome") /\ WelcomeNext
  \/ Only("aliases") /\ AliasesNext
  \/ Only("configs") /\ ConfigNext
  \/ Only("dialog") /\ DialogNext
  \/ Only("modules") /\ ModuleNext
  \/ Only("draft") /\ DraftNext
  \/ Only("kills") /\ FeedNext
  \/ Only("lines") /\ LinesNext
  \/ Only("logs") /\ LogsNext
  \/ Only("shop") /\ ShopNext
  \/ Only("cut") /\ CutNext

PanelSpec == PanelInit /\ [][PanelNext]_panelVars

-----------------------------------------------------------------------------
\* The states of every part are of their types.
PanelTypeOK ==
  CASE part = "translation" -> TranslationTypeOK
    [] part = "welcome" -> WelcomeTypeOK
    [] part = "aliases" -> AliasTypeOK
    [] part = "configs" -> ConfigTypeOK
    [] part = "dialog" -> DialogTypeOK
    [] part = "modules" -> ModuleTypeOK
    [] part = "draft" -> DraftTypeOK
    [] part = "kills" -> FeedTypeOK
    [] part = "lines" -> LinesTypeOK
    [] part = "logs" -> LogsTypeOK
    [] part = "shop" -> ShopTypeOK
    [] part = "cut" -> CutTypeOK
=============================================================================
