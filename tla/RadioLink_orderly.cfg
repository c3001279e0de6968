CONSTANTS
  a = a
  b = b
  t1 = t1
  t2 = t2
  t3 = t3
  Callers <- MCCallers
  Tickets <- MCTickets
  NoReq = NoReq
  QueueCap = 1
  LateReplies = FALSE
  DrainMayFail = FALSE
SPECIFICATION FairSpec
INVARIANTS LinkTypeOK Attribution
PROPERTIES EverySendReturns ShutdownEnds
CHECK_DEADLOCK FALSE
