------------------------- MODULE MCSurfaceLifecycle -------------------------
(***************************************************************************)
(* A window and an X11 window whose clients run ahead of the compositor,   *)
(* or a window whose client waits for it and opens popup p1 on the window  *)
(* and popup p2 on p1.                                                     *)
(***************************************************************************)
EXTENDS SurfaceLifecycle

CONSTANTS eager, paced, x1, p1, p2

MCParent == [p \in Popups |-> IF p = p1 THEN paced ELSE p1]

\* The surfaces of one kind of client were closed long ago.  An eager client makes four
\* requests at most.
MCInit ==
  \E none \in {{paced}, {eager, x1}} :
    /\ stage = "clients"
    /\ client = [s \in Surfaces |-> IF s \in none THEN "gone" ELSE "new"]
    /\ winIngress = <<>> /\ popIngress = <<>> /\ deferredWin = <<>> /\ deferredPop = <<>>
    /\ batch = <<>> /\ deferring = <<>> /\ known = {} /\ commands = <<>>
    /\ world = [e \in {} |-> NoEntity] /\ spawned = 0
    /\ index = [s \in Surfaces |-> NoEntity]
    /\ focus = NoSurface /\ dismissals = {}
    /\ sent = (IF paced \in none THEN MaxEvents - 4 ELSE 0)
    /\ content = [s \in Surfaces |-> FALSE] /\ retired = {}

MCSpec == MCInit /\ [][Next]_vars /\ WF_vars(Shell)
=============================================================================
