SPECIFICATION MCSpec
CONSTANTS
  None = None
  Spots <- MCSpots
  Habits = {"resizes", "modal", "redraws", "stubborn"}
  MaxMoves <- MCMaxMoves
  MaxRequests <- MCMaxRequests
INVARIANTS
  HandshakeSound BackgroundsSound LastCommitApplied WorkAreaClear
PROPERTIES
  BroughtBack
\* A client that has done all it may and outputs that stay as they are.
CHECK_DEADLOCK FALSE
