SPECIFICATION Spec
CONSTANTS
  Outputs = {o1}
  Windows = {w1}
  Entities = {1, 2, 3, 4}
  MaxId = 4
  Controls <- SomeControls
  MaxBatch = 1
  MaxSpaces = 2
  IdBound = 3
  None = None
  Stale = Stale
  Gone = Gone
INVARIANTS
  ShownAreAwake
