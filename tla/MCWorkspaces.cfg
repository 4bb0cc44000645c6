SPECIFICATION Spec
CONSTANTS
  Outputs = {o1, o2}
  Windows = {w1}
  Entities = {1, 2, 3, 4, 5, 6}
  MaxId = 6
  Controls <- SomeControls
  MaxBatch = 2
  MaxSpaces = 2
  IdBound = 3
  None = None
  Stale = Stale
  Gone = Gone
INVARIANTS
  SpacesSound
  RoutesTrue
PROPERTIES
  LostOnlyOnTheMove
SYMMETRY Alike
