SPECIFICATION Spec
CONSTANTS
  eager = eager
  paced = paced
  x1 = x1
  p1 = p1
  p2 = p2
  Windows = {eager}
  X11Windows = {}
  Popups = {}
  Parent <- MCParent
  Dismissable = {}
  Paced = {}
  MaxEvents = 5
INVARIANTS
  OneWindowEach
