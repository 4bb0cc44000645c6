SPECIFICATION MCSpec
CONSTANTS
  c1 = c1
  c2 = c2
  v = v
  m1 = m1
  Connectors = {c1, c2}
  Virtual = TRUE
  Primary = primary
  OtherNames = {v}
  Fallback = v
  Modes = {m1}
  Preferred = m1
  Invalid = invalid
  Viewports = {o1, o2}
  Origin = o1
  Configs <- NoOutputs
  NoConfig = NoConfig
  None = None
  MaxControls = 2
  MaxReloads = 0
  MaxSwitches = 2
  Heads = {1, 2}
  Crtcs <- MCCrtcs
  Shaders = shaders
  MaxSessions = 3
  MaxFailures = 1
  MaxPlugs = 2
INVARIANTS
  OutputsSound
  OneOpening
PROPERTIES
  OutputsStay
  Shows
