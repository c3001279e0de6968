CONSTANTS
  c1 = c1
  c2 = c2
  Clients <- MCClients
  NoOne = NoOne
  InboxCap = 3
  HbTimeout = 2
  CmdTicks = 1
  BOutcomes <- HonestB
  EOutcomes <- HonestE
  Prompt = TRUE
SPECIFICATION Spec
SYMMETRY Symmetry
INVARIANTS TypeOK KeyedIsOwned NoLeftoverStop LeaseBound
PROPERTY SteadyOwnerKeepsPtt
CHECK_DEADLOCK FALSE
