----------------------------- MODULE MCWindows -----------------------------
(***************************************************************************)
(* Where windows and panels lie on a desktop: Interaction with a window    *)
(* two units wide that can be pulled to one unit or to four; Backgrounds   *)
(* with two outputs, a title that puts the window behind each of them and  *)
(* one that says nothing of it; and LayerShell with two outputs of         *)
(* different sizes, a bar along the top with a margin that may change its  *)
(* mind and lie along the bottom, deeper than its zone, and a dock along   *)
(* the left that stays; or with the bar alone, which may be destroyed and  *)
(* created anew.  A behaviour is one of one of these, the others rest.     *)
(***************************************************************************)
EXTENDS Interaction

VARIABLES part,
  \* Backgrounds
  turn, outputs, plugs, batch, heard, title, window, behind, commands, control, focus, before,
  twice, ruled,
  \* LayerShell
  panels, screens, plugged, mapped, primary, queue, deferred, layers, area, shown

behindVars == <<turn, outputs, plugs, batch, heard, title, window, behind, commands, control,
                focus, before, twice, ruled>>
layerVars == <<panels, screens, plugged, mapped, primary, queue, deferred, layers, area, shown>>
allVars == <<part, vars, behindVars, layerVars>>

-----------------------------------------------------------------------------
\* A modal window goes through several states, the others are dragged about.
MCSpots == 1..3
MCMaxMoves    == [h \in Habits |-> IF h = "modal" THEN 2 ELSE 4]
MCMaxRequests == [h \in Habits |-> IF h = "modal" THEN 3 ELSE 2]

Names  == {"left", "right"}
Titles == {"plain", "wall", "desk"}
Rules  ==
  <<[title |-> "wall", layout |-> None,       mode |-> None, background |-> "left"],
    [title |-> "desk", layout |-> "floating", mode |-> None, background |-> "right"]>>

B == INSTANCE Backgrounds WITH
       stage <- turn, events <- heard,
       DefaultPolicy <- [layout |-> "tiled", mode |-> "normal"],
       Places <- {1, 2}, MaxBatch <- 2, MaxEvents <- 3, MaxPlugs <- 3, MaxDepth <- 1

Bar(edge, deep, zone, margin) ==
  [edges |-> {edge, "left", "right"}, w |-> 0, h |-> deep, zone |-> zone, margin |-> margin]
Dock == [edges |-> {"left", "top", "bottom"}, w |-> 2, h |-> 0, zone |-> 2, margin |-> 0]
SmallAndLarge == <<{<<6, 5>>}, {<<8, 6>>}>>

L == INSTANCE LayerShell WITH
       client <- panels, outputs <- screens, plugs <- plugged,
       Surfaces <- {1, 2}, Names <- {1, 2}, OutputSizes <- SmallAndLarge,
       Shapes <- <<{Bar("top", 1, 1, 1), Bar("bottom", 2, 1, 0)}, {Dock}>>,
       BufferSizes <- {<<4, 2>>}, Lives <- <<2, 1>>, MaxCommits <- <<2, 1>>, MaxPlugs <- 1

ASSUME B!RulesAssumption
ASSUME L!NamesAssumption /\ L!BoundsAssumption

-----------------------------------------------------------------------------
MCInit ==
  /\ Init /\ B!Init /\ L!Init
  /\ part \in {"grip", "behind", "layers", "anew"}
  /\ part # "grip" => habit = "modal"
  /\ part # "behind" => outputs = [left |-> 1, right |-> 2] /\ window.geometry = 1 /\ focus = "other"
  \* the outputs are both there, or the first, which the server would map, is not
  /\ IF part \in {"layers", "anew"} THEN screens[2] # None ELSE screens = <<<<6, 5>>, None>>

MCNext ==
  \/ part = "grip"   /\ Next   /\ UNCHANGED <<part, behindVars, layerVars>>
  \/ part = "behind" /\ B!Next /\ UNCHANGED <<part, vars, layerVars>>
  \/ /\ part = "layers" /\ L!Next /\ UNCHANGED <<part, vars, behindVars>>
     /\ panels'[1].lives < 2 /\ (panels[2].there => panels'[2].there)
  \/ part = "anew"   /\ L!Next /\ UNCHANGED <<part, vars, behindVars>> /\ panels'[2].lives = 0

MCSpec == MCInit /\ [][MCNext]_allVars
-----------------------------------------------------------------------------
(* A window is a background where its rules and controls say so, and the   *)
(* keyboard is not behind.                                                 *)
BackgroundsSound == B!BackgroundsSound

(* A window that is brought back is as it was.                             *)
BroughtBack == B!BroughtBack

(* Panels are shown as they were committed last.                           *)
LastCommitApplied == L!LastCommitApplied

(* Where windows may be placed, no panel that reserves space takes input.  *)
WorkAreaClear == L!WorkAreaClear
=============================================================================
