CONSTANTS
  b1 = b1
  b2 = b2
  Browsers <- MCBrowsers
  Channels = {1, 2}
  QueueCap = 2
  NetCap = 2
  CmdCap = 1
SPECIFICATION Spec
SYMMETRY Symmetry
INVARIANTS TypeOK PanelIsRight
CHECK_DEADLOCK FALSE
