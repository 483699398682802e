-------------------------- MODULE PanelTranslation --------------------------
(***************************************************************************)
(* The two languages of the web panel.  The panel is written in Russian;   *)
(* in English a scan of the page replaces every text by its translation,   *)
(* and a MutationObserver asks for a new scan whenever the page changes.   *)
(* The scan remembers beside each text node, attribute and result block    *)
(* the text that it takes for the original.                                *)
(*                                                                         *)
(* A text is the label it shows and the language it shows it in.  Every    *)
(* assignment of textContent or innerHTML makes a new text node, which the *)
(* scan has not seen; an attribute keeps its element, and so its original. *)
(***************************************************************************)
EXTENDS Naturals

CONSTANTS
  Node,               \* places of the page that hold a text node
  Attr,               \* titles, placeholders, aria-labels
  Result,             \* result blocks (class result), which the scan skips
  Label,
  Dictionary,         \* the labels PANEL_TEXT_EN and its patterns know
  Unseen

ASSUME TranslationConstantsOK ==
  /\ Dictionary \subseteq Label
  /\ Node \cap Attr = {} /\ Node \cap Result = {} /\ Attr \cap Result = {}

VARIABLES
  language,           \* state.language
  shown,              \* shown[x]: the text of x on the page
  original,           \* original[x]: what the scan remembers for x
  written,            \* written[x]: the label the program last gave x (history)
  queued, forced,     \* panelTranslationQueued, panelTranslationForceQueued
  observing,          \* panelTranslationObserver # null
  changed             \* the observer has records it has not been called with

page == <<shown, original, written>>
scan == <<queued, forced>>
translation == <<language, shown, original, written, queued, forced, observing, changed>>

Place == Node \cup Attr \cup Result
Text == [label : Label, lang : {"ru", "en"}]
Russian(l) == [label |-> l, lang |-> "ru"]

TranslationTypeOK ==
  /\ language \in {"ru", "en"}
  /\ shown \in [Place -> Text]
  /\ original \in [Place -> Text \cup {Unseen}]
  /\ written \in [Place -> Label]
  /\ {queued, forced, observing, changed} \subseteq BOOLEAN

TranslatePanelText(x, lang) ==
  IF lang = "en" /\ x.label \in Dictionary THEN [x EXCEPT !.lang = "en"] ELSE x

\* The original that a scan of x assumes, and the text that it leaves there.
\* A text node that shows neither its original nor, in English, the translation of
\* it is taken to have been rewritten; an attribute keeps what was found first.
NodeOriginal(x) ==
  IF \/ original[x] = Unseen
     \/ language = "en" /\ shown[x] \notin {original[x], TranslatePanelText(original[x], "en")}
     \/ language = "ru" /\ shown[x] # original[x]
  THEN shown[x] ELSE original[x]
AttrOriginal(x) == IF original[x] = Unseen THEN shown[x] ELSE original[x]
ResultOriginal(x, lang) ==
  IF original[x] = Unseen \/ (lang = "ru" /\ shown[x] # original[x])
  THEN shown[x] ELSE original[x]

TranslationInit ==
  /\ language \in {"ru", "en"}
  /\ \E f \in [Place -> Label] :
       /\ written = f
       /\ shown = [x \in Place |-> IF x \in Result
                                   THEN TranslatePanelText(Russian(f[x]), language)
                                   ELSE Russian(f[x])]
       /\ original = [x \in Place |-> IF x \in Result THEN Russian(f[x]) ELSE Unseen]
  /\ queued = TRUE /\ forced = TRUE           \* setPanelLanguage at the start
  /\ observing = (language = "en") /\ changed = FALSE

\* Mutant: only a forced scan is queued.
QueueForced(lang, force) ==
  IF ~force THEN UNCHANGED scan ELSE forced' = TRUE /\ queued' = TRUE

\* queuePanelTranslations
QueueScan(lang, force) ==
  IF lang # "en" /\ ~force
  THEN UNCHANGED scan
  ELSE forced' = (forced \/ force) /\ queued' = TRUE

\* Mutant: the observer is not told of the change.
PageUnwatched == changed' = FALSE

\* The observer is told of a change only while it observes.
PageChanges == changed' = observing

\* The program renders a text node.
RenderNode(x, l) ==
  /\ x \in Node
  /\ shown' = [shown EXCEPT ![x] = Russian(l)]
  /\ original' = [original EXCEPT ![x] = Unseen]
  /\ written' = [written EXCEPT ![x] = l]
  /\ PageChanges
  /\ UNCHANGED <<language, queued, forced, observing>>

SetAttr(x, l) ==
  /\ x \in Attr
  /\ shown' = [shown EXCEPT ![x] = Russian(l)]
  /\ written' = [written EXCEPT ![x] = l]
  /\ PageChanges
  /\ UNCHANGED <<language, original, queued, forced, observing>>

ShowResult(x, l) ==
  /\ x \in Result
  /\ shown' = [shown EXCEPT ![x] = TranslatePanelText(Russian(l), language)]
  /\ original' = [original EXCEPT ![x] = Russian(l)]
  /\ written' = [written EXCEPT ![x] = l]
  /\ PageChanges
  /\ UNCHANGED <<language, queued, forced, observing>>

\* The observer's callback: one record is enough for a scan.
Observe ==
  /\ changed
  /\ changed' = FALSE
  /\ QueueScan(language, FALSE)
  /\ UNCHANGED <<language, shown, original, written, observing>>

\* The animation frame: applyPanelTranslations over the whole document.
ScanOriginal(x) == IF x \in Node THEN NodeOriginal(x) ELSE AttrOriginal(x)
Scan ==
  LET scanned == Node \cup Attr
      left == [x \in Place |->
                 IF x \in scanned THEN TranslatePanelText(ScanOriginal(x), language)
                 ELSE shown[x]]
  IN  /\ original' = [x \in Place |-> IF x \in scanned THEN ScanOriginal(x) ELSE original[x]]
      /\ shown' = left
      /\ changed' = (changed \/ (observing /\ left # shown))
Frame ==
  /\ queued
  /\ queued' = FALSE /\ forced' = FALSE
  /\ IF language = "en" \/ forced THEN Scan ELSE UNCHANGED <<shown, original, changed>>
  /\ UNCHANGED <<language, written, observing>>

\* setPanelLanguage, called when the choice changes; disconnecting the observer
\* drops the records it was not called with.
SetPanelLanguage(lang) ==
  /\ lang # language
  /\ language' = lang
  /\ original' = [x \in Place |-> IF x \in Result THEN ResultOriginal(x, lang) ELSE original[x]]
  /\ shown' = [x \in Place |-> IF x \in Result
                               THEN TranslatePanelText(ResultOriginal(x, lang), lang)
                               ELSE shown[x]]
  /\ observing' = (lang = "en")
  /\ changed' = FALSE
  /\ QueueScan(lang, TRUE)
  /\ UNCHANGED written

TranslationNext ==
  \/ \E x \in Node, l \in Label : RenderNode(x, l)
  \/ \E x \in Attr, l \in Label : SetAttr(x, l)
  \/ \E x \in Result, l \in Label : ShowResult(x, l)
  \/ Observe
  \/ Frame
  \/ \E lang \in {"ru", "en"} : SetPanelLanguage(lang)

\* The browser delivers the observer's records and the animation frames.
TranslationFairness == WF_translation(Observe) /\ WF_translation(Frame)
TranslationSpec == TranslationInit /\ [][TranslationNext]_translation /\ TranslationFairness

Settled == ~queued /\ ~changed

\* In English, once the scan has caught up, every text node and every result
\* block shows the translation of the label the program last gave it: no change
\* of the page falls between the observer, the queue flag and the forced flag.
EnglishIsComplete ==
  language = "en" /\ Settled =>
    \A x \in Node \cup Result : shown[x] = TranslatePanelText(Russian(written[x]), "en")

\* A text that waits for its translation gets it, unless the language is changed
\* back: the queue flag never stays set without a frame.
TranslationArrives ==
  \A x \in Node :
    (language = "en" /\ written[x] \in Dictionary /\ shown[x].lang = "ru")
      ~> (shown[x].lang = "en" \/ language = "ru" \/ written[x] \notin Dictionary)

\* What the comment of queuePanelTranslations promises of the forced scan: back in
\* Russian, the labels that were rendered in Russian are restored.
LabelsRestored ==
  language = "ru" /\ Settled => \A x \in Node : shown[x] = Russian(written[x])
=============================================================================
