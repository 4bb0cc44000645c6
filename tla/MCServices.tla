----------------------------- MODULE MCServices -----------------------------
(***************************************************************************)
(* Services on a small instance: ControlPlane with two contents of its     *)
(* file, the second of which drops a layout, lowers the limit and has no   *)
(* startup action; XWindows with a window that is empty at first and one   *)
(* that is transient for it, either a menu that maps itself or, where the  *)
(* first maps itself, a window; Selections with two clients that copy; and *)
(* ClientMirrors with one client, two windows, two layouts xkbcommon knows *)
(* and one it does not, and two outputs.  A behaviour is one of one of     *)
(* them, the others rest.                                                  *)
(***************************************************************************)
EXTENDS Services

VARIABLE part

allVars == <<part, vars, x11Vars, copyVars, mirrorVars>>

-----------------------------------------------------------------------------
MCConfigs ==
  <<[layouts |-> <<"us", "de">>, current |-> "us", limit |-> 2, startup |-> TRUE],
    [layouts |-> <<"fr", "us">>, current |-> "fr", limit |-> 1, startup |-> FALSE]>>

Scene(asked, slack, writes, changed, starts) ==
  [requests |-> asked, careless |-> slack, edits |-> writes, changes |-> changed, xwayland |-> starts,
   watched |-> TRUE]

Switching == Scene({"next"}, FALSE, 1, 0, {"off"})

MCScenes ==
  {Scene({"spawn", "quit"}, TRUE, 0, 0, {"off"}), Switching,
   Scene({"reload"}, FALSE, 2, 0, {"off"}),
   [Scene({"reload"}, FALSE, 2, 0, {"off"}) EXCEPT !.watched = FALSE],
   Scene({"spawn", "control"}, FALSE, 0, 2, {"off"}),
   Scene({"spawn"}, FALSE, 1, 0, {"starting"})}

MCTransient == <<None, 1>>

-----------------------------------------------------------------------------
MCInit ==
  /\ Init /\ X!Init /\ S!Init /\ M!Init
  /\ part \in {"control", "x11", "copies", "mirrors"}
  /\ part # "control" => scene = Switching /\ ~reloadFirst
  /\ IF part = "x11" THEN xwindows[2].helper # xwindows[2].managed
     ELSE xwindows[2].helper /\ xwindows[2].managed
  /\ part # "mirrors" => layout = "us" /\ outputs = [n \in {1} |-> 1]

MCNext ==
  \/ part = "control" /\ Next   /\ UNCHANGED <<part, x11Vars, copyVars, mirrorVars>>
  \/ part = "x11"     /\ X!Next /\ UNCHANGED <<part, vars, copyVars, mirrorVars>>
  \/ part = "copies"  /\ S!Next /\ UNCHANGED <<part, vars, x11Vars, mirrorVars>>
  \/ part = "mirrors" /\ M!Next /\ UNCHANGED <<part, vars, x11Vars, copyVars>>

MCSpec == MCInit /\ [][MCNext]_allVars
=============================================================================
