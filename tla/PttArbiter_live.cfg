CONSTANTS
  c1 = c1
  c2 = c2
  Clients <- MCClients
  NoOne = NoOne
  InboxCap = 2
  HbTimeout = 1
  CmdTicks = 0
  BOutcomes <- LossyB
  EOutcomes <- LossyE
  Prompt = TRUE
SPECIFICATION FairSpec
PROPERTIES LockSpec GoneClientReleased ShutdownReturns
CHECK_DEADLOCK FALSE
