SPECIFICATION MCSpec
CONSTANTS
  None = None
  Key <- MCKey
  ModifierOf <- MCModifierOf
  Shortcut <- MCShortcut
  Trigger <- MCTrigger
  Meaning <- MCMeaning
  Default <- MCDefault
  Overrides <- MCOverrides
  Surface = {s1}
  Hosts = {"tty", "window"}
  MaxEvents = 2
  MaxStrokes = 4
  MaxReloads = 1
  Outputs = {1, 2}
  Left <- MCLeft
  Width <- MCWidth
  Strides <- MCStrides
  Configured = 9
  Fallback = 10
  MaxMoves = 3
  MaxQueue = 2
  MaxPlugs = 1
  MaxTurns = 2
  Sizes = {1, 2, 3}
  Standard = 1
  Scenes <- MCScenes
  Periods = {2, 3}
  MaxTime = 4
INVARIANTS
  KeysTrue PointerTrue NestedTrue
PROPERTIES
  OneAddressee StaysOnOutput TimelineForward
