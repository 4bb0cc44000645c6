------------------------------ MODULE MCDesktop ------------------------------
(***************************************************************************)
(* Desktop with two windows and two shelves, on a viewport of one by two.  *)
(***************************************************************************)
EXTENDS Desktop

SomeSpots == {<<1, 0>>}
Alike == Permutations(Window) \cup Permutations(Shelf)
=============================================================================
