--------------------------- MODULE MCFrameBoundary ---------------------------
(***************************************************************************)
(* Small instances of FrameBoundary for TLC.  Windows and popups of an     *)
(* instance are chosen in its cfg; every popup is opened on w1.            *)
(***************************************************************************)
EXTENDS FrameBoundary

CONSTANT w1

MCParent == [p \in Popups |-> w1]
=============================================================================
