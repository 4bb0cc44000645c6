SPECIFICATION Spec
CONSTANTS
  c1 = c1
  v = v
  m1 = m1
  m2 = m2
  Connectors = {c1}
  Virtual = FALSE
  Primary = primary
  OtherNames = {v}
  Fallback = v
  Modes = {m1, m2}
  Preferred = m1
  Invalid = invalid
  Viewports = {o1, o2}
  Origin = o1
  Configs <- OneReload
  NoConfig = NoConfig
  None = None
  MaxControls = 2
  MaxReloads = 1
  MaxSwitches = 1
PROPERTIES
  RequestsArrive
