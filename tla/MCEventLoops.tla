---------------------------- MODULE MCEventLoops ----------------------------
(***************************************************************************)
(* The two programs that live by the callbacks of an event loop: the Lua   *)
(* script in the game, and the translation in the page of the browser.     *)
(* They share no state: loop chooses one of them, which takes its steps    *)
(* while the other stays in an initial state.                              *)
(***************************************************************************)
EXTENDS MCPlayerCommandQueue, PanelTranslation

VARIABLE loop

loopsVars == <<loop, vars, translation>>

LoopsInit ==
  /\ loop \in {"script", "page"}
  /\ Init
  /\ TranslationInit
  /\ loop = "page" \/ (language = "ru" /\ \A x \in Place : written[x] \in Dictionary)

LoopsNext ==
  \/ loop = "script" /\ Next /\ UNCHANGED <<loop, translation>>
  \/ loop = "page" /\ TranslationNext /\ UNCHANGED <<loop, vars>>

\* TranslationFairness, for the page.  Of the script nothing is ever due in its initial state.
PageFairness ==
  WF_translation(loop = "page" /\ Observe) /\ WF_translation(loop = "page" /\ Frame)
LoopsSpec == LoopsInit /\ [][LoopsNext]_loopsVars /\ ScriptFairness /\ PageFairness
=============================================================================
