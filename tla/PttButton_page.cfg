CONSTANTS
  p1 = p1
  Pages <- MCPages
  NoOne = NoOne
  Other = Other
  Conns <- MCConns
  EventCap = 2
  UpCap = 2
  DnCap = 2
SPECIFICATION Spec
INVARIANTS TypeOK CarrierIsAttended KeyedPageIsOwner
CHECK_DEADLOCK FALSE
