CONSTANTS
  h1 = h1
  h2 = h2
  x = x
  y = y
  Handlers = {h1, h2}
  Scanner = Scanner
  Slots <- MCSlots
  Scratch = 1
  Channels <- MCChannels
  Library = {x, y}
  Split = {y}
  NoMode = {}
  Factory <- MCFactory
SPECIFICATION Spec
SYMMETRY Symmetry
INVARIANTS TypeOK RecallIsNoOp
PROPERTIES AckedTuneIsStored EmergencyUntouched
