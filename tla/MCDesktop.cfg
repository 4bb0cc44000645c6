SPECIFICATION Spec
CONSTANTS
  Width = 1
  Height = 2
  Window = {w1, w2}
  Shelf = {s1, s2}
  Spots <- SomeSpots
  Habits = {{"cycle"}, {"float", "minimise", "pan"}}
  FollowMouse = TRUE
  Unassigned = Unassigned
  None = None
  Unset = Unset
INVARIANTS
  WindowsPlaced
  FocusHeld
PROPERTIES
  FocusRevealed
SYMMETRY Alike
