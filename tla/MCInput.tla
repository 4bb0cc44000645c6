------------------------------ MODULE MCInput ------------------------------
(***************************************************************************)
(* Input on a small instance.  A behaviour is one of one of its three      *)
(* modules, the others rest.                                               *)
(***************************************************************************)
EXTENDS Input

VARIABLE part
allVars == <<part, vars, pointerVars, nestedVars>>

-----------------------------------------------------------------------------
(* Three keys, two of them modifiers, and the three kinds of shortcuts the *)
(* compositor registers: on a press, held by one modifier, held by two.    *)
MCKey == {"tab", "alt", "super"}
MCModifierOf == [k \in MCKey |-> IF k = "tab" THEN None ELSE k]
MCShortcut == {"cycle", "switcher", "pan"}
MCTrigger == [id \in MCShortcut |-> IF id = "cycle" THEN "press" ELSE "hold"]

MCMeaning ==
  [t \in {"Alt", "Super", "Meta", "Tab", "tab", "Hyper"} |->
     CASE t = "Alt"               -> [kind |-> "mod", name |-> "alt"]
       [] t \in {"Super", "Meta"} -> [kind |-> "mod", name |-> "super"]
       [] t \in {"Tab", "tab"}    -> [kind |-> "key", name |-> "tab"]
       [] t = "Hyper"             -> [kind |-> "none", name |-> None]]

MCDefault == [cycle |-> <<"Alt", "tab">>, switcher |-> <<"Alt">>, pan |-> <<"Meta", "Alt">>]
\* Two shortcuts on one combination, and two keys in another.
MCOverrides == {<<>>, [pan |-> <<"Alt">>, cycle |-> <<"Alt", "Tab", "tab">>]}

-----------------------------------------------------------------------------
(* Two outputs beside each other, the wider one left.                      *)
MCLeft == <<0, 8>>
MCWidth == <<8, 6>>
MCStrides == {-3, 5}

-----------------------------------------------------------------------------
(* Hosts that grant sizes or refuse them, that lock the pointer, only      *)
(* confine it or do neither, and no host at all.                           *)
Host == [driver |-> "host", grabs |-> {"confined"}, honours |-> TRUE, inhibits |-> FALSE, configs |-> {None, 2},
         acts |-> {"resize", "toggle", "mode", "config"}, bound |-> 3]

MCScenes ==
  {Host, [Host EXCEPT !.honours = FALSE, !.acts = {"resize", "toggle", "mode"}],
   [Host EXCEPT !.acts = {"time", "mode", "close"}, !.bound = 2],
   [Host EXCEPT !.driver = "timer", !.acts = {"time", "toggle", "mode"}],
   [Host EXCEPT !.grabs = {"locked", "confined"}, !.inhibits = TRUE, !.configs = {None},
                !.acts = {"focus", "fullscreen", "break", "close"}, !.bound = 3],
   [Host EXCEPT !.grabs = {"locked", "confined"}, !.configs = {None}, !.acts = {"focus", "point"}, !.bound = 5],
   [Host EXCEPT !.acts = {"focus", "point"}]}

-----------------------------------------------------------------------------
MCInit ==
  /\ Init /\ Motion!Init /\ Nested!Init
  /\ \/ part = "seat"
     \/ part = "pointer"
     \/ part = "nested"
  /\ part # "seat" => host = "tty" /\ alive = {} /\ config = <<>>
  /\ part # "pointer" => device = "tty" /\ plugged = {}
  /\ part # "nested" => scene = [Host EXCEPT !.acts = {"focus", "point"}] /\ configured = None

MCNext ==
  \/ part = "seat" /\ Next /\ UNCHANGED <<part, pointerVars, nestedVars>>
  \/ part = "pointer" /\ Motion!Next /\ UNCHANGED <<part, vars, nestedVars>>
  \/ part = "nested" /\ Nested!Next /\ UNCHANGED <<part, vars, pointerVars>>

MCSpec == MCInit /\ [][MCNext]_allVars
=============================================================================
