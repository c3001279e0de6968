CONSTANTS
  EventCap = 2
  ControlCap = 2
  StartCap = 2
SPECIFICATION FairSpec
INVARIANTS TypeOK CarrierIsArbiters UnkeyedAtClose GateSettled
PROPERTY SignalUnkeys
CHECK_DEADLOCK FALSE
