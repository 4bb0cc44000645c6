----------------------------- MODULE MCPicture -----------------------------
(***************************************************************************)
(* What is on the screen: TextAtlas with five texts of six glyphs, one in  *)
(* colour and one larger than a page; Rendering with desks of windows on   *)
(* two outputs, popups and layers, screenshots and effects, and the        *)
(* switcher; and Overlays with an output selected by name and one by id.   *)
(* A behaviour is one of one of them, the others rest.                     *)
(***************************************************************************)
EXTENDS TextAtlas

CONSTANTS None, a, b

VARIABLES part,
  \* Rendering
  env, desk, client, plan, graph, known, session, tracked, damage, painted, imports, audit, picture,
  failed, shots, fresh, owed, done,
  \* Overlays
  stage, outputs, plugged, staged, pending, rects, nextId, hud, menu, frame, input, scene, mine,
  theirs, painting, calls, given, wish

deskVars == <<env, desk, client, plan, graph, known, session, tracked, damage, painted, imports, audit,
              picture, failed, shots, fresh, owed, done>>
overVars == <<stage, outputs, plugged, staged, pending, rects, nextId, hud, menu, frame, input, scene,
              mine, theirs, painting, calls, given, wish>>
allVars == <<part, vars, deskVars, overVars>>

-----------------------------------------------------------------------------
MCTexts == {"ab", "bc", "cad", "ee", "big"}
MCGlyphs == {"a", "b", "c", "d", "e", "huge"}
MCGlyphsOf == [t \in MCTexts |-> CASE t = "ab" -> <<"a", "b">> [] t = "bc" -> <<"b", "c">>
                 [] t = "cad" -> <<"c", "a", "d">> [] t = "ee" -> <<"e">> [] t = "big" -> <<"d", "huge">>]
MCWidth  == [a |-> 1, b |-> 2, c |-> 1, d |-> 3, e |-> 1, huge |-> 6]
MCHeight == [a |-> 1, b |-> 1, c |-> 3, d |-> 1, e |-> 1, huge |-> 1]
MCKindOf == [g \in MCGlyphs |-> IF g = "e" THEN "color" ELSE "mask"]

-----------------------------------------------------------------------------
(* Surface 1 is a window on the first output, 2 and 3 are what the scene   *)
(* makes of them.                                                          *)
Windows == [outs |-> {1, 2}, kind |-> [s \in 1..3 |-> "window"], parent |-> [s \in 1..3 |-> None],
            home |-> <<1, 1, 2>>, attached |-> 1..3, span |-> <<<<0, 1>>, <<1, 2>>, <<0, 0>>>>,
            zone |-> <<0, 0, 0>>, stack |-> <<1, 2, 3>>, effects |-> <<>>, acts |-> {}, bound |-> 3]

Popup == [Windows EXCEPT !.kind = <<"window", "popup", "popup">>, !.parent = <<None, 1, 2>>,
                         !.home = <<1, None, None>>, !.stack = <<1>>]
Layer == [Windows EXCEPT !.kind = <<"window", "above", "background">>, !.zone = <<0, 1, 0>>,
                         !.home = <<1, 2, 1>>, !.span = <<<<0, 1>>, <<0, 2>>, <<0, 2>>>>, !.stack = <<1>>]
Committing == [Windows EXCEPT !.acts = {"commit"}]

AllScenes ==
  {Committing,
   [Windows EXCEPT !.acts = {"commit", "move"}],
   [Windows EXCEPT !.acts = {"raise", "hide", "destroy", "commit"}],
   [Windows EXCEPT !.acts = {"move", "point", "switcher"}],
   [Windows EXCEPT !.acts = {"commit", "output", "session"}],
   [Windows EXCEPT !.acts = {"shoot", "commit", "session", "output"}],
   [Windows EXCEPT !.acts = {"switcher", "hide", "commit"}],
   [Windows EXCEPT !.acts = {"shoot", "hide", "cursor"}, !.effects = <<7, 8>>],
   [Popup EXCEPT !.acts = {"commit", "destroy", "hide"}],
   [Layer EXCEPT !.acts = {"point", "raise", "output", "commit"}],
   [Layer EXCEPT !.kind = <<"helper", "below", "background">>, !.acts = {"point", "destroy", "shoot"},
                 !.effects = <<7>>]}

R == INSTANCE Rendering WITH
       Outputs <- {1, 2}, Surfaces <- {1, 2, 3}, Scenes <- AllScenes, Width <- 3, Capacity <- 2

O == INSTANCE Overlays WITH
       plan <- painting,
       Names <- {a, b}, ByName <- {a}, Rects <- {1, 2},
       Looks <- {[z |-> 0, color |-> "red"], [z |-> 1, color |-> "blue"]},
       MaxCalls <- 3, MaxPlugs <- 2

ASSUME O!OverlaysAssumption

-----------------------------------------------------------------------------
MCInit ==
  /\ Init /\ R!Init /\ O!Init
  /\ part \in {"text", "desk", "over"}
  /\ part # "desk" => env = Committing

MCNext ==
  \/ part = "text" /\ Next   /\ UNCHANGED <<part, deskVars, overVars>>
  \/ part = "desk" /\ R!Next /\ UNCHANGED <<part, vars, overVars>>
  \/ part = "over" /\ O!Next /\ UNCHANGED <<part, vars, deskVars>>

MCSpec == MCInit /\ [][MCNext]_allVars
-----------------------------------------------------------------------------
(* What a frame says is on the screen is there, and is not stale.          *)
ScreenTrue == R!ScreenTrue

(* What is seen is called back and takes the pointer.                      *)
SeenAndReached == R!SeenAndReached

(* What is damaged and what is shot is what is shown.                      *)
PicturesFollow == R!PicturesFollow

(* Overlays are painted as they were last given, from back to front.       *)
OverlaysSound == O!OverlaysSound
=============================================================================
