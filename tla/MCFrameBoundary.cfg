SPECIFICATION Spec
CONSTANTS
  w1 = w1
  Windows = {w1, w2}
  X11 = {w2}
  Popups = {p1}
  Parent <- MCParent
  MaxRequests = 2
  MaxBatch = 2
  MaxDismissals = 1
  MaxIncarnations = 1
  MaxEvents = 3
INVARIANTS
  BoundarySound
PROPERTIES
  Mailboxes
  EverythingArrives
\* The run loop ends on a quit request or at its frame cap.
CHECK_DEADLOCK FALSE
