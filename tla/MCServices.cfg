SPECIFICATION MCSpec
CONSTANTS
  None = None
  Killed = Killed
  Others = {x}
  Configs <- MCConfigs
  Capacity = 2
  Scenes <- MCScenes
  XWindows = {1, 2}
  Transient <- MCTransient
  Menus = {{2}, {}}
  Unmanaged = {{1}, {2}}
  Blank = {1}
  MaxSurfaces = 3
  MaxAsks = 1
  MaxEvents = 2
  Copiers = {"c1", "c2"}
  Kinds = {"text", "html", "image"}
  Big = {"image"}
  MaxCopies = 2
  Clients = {"c"}
  Windows = {"v", "w"}
  Titles = {"a", "b"}
  Layouts = {"us", "de", "typo"}
  Known = {"us", "de"}
  Names = {1, 2}
  Scales = {1, 2}
  Offers = {"linear"}
  MaxChanges = 4
INVARIANTS
  ControlTrue XWindowsAgree SelectionsTrue MirrorsTrue
PROPERTIES
  LayoutKept ListTrue
\* The compositor quits, X clients and clients that copy may have done all they may.
CHECK_DEADLOCK FALSE
