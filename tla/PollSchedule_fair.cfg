CONSTANTS
  rssi = rssi
  mode = mode
  preset = preset
  Inquiries <- MCInquiries
  Periods = {1, 2}
  IdleFactor = 3
  AgeBound = 6
  MaxControls = 2
SPECIFICATION FairPollSpec
INVARIANT PollTypeOK
PROPERTIES NoOvertaking EveryInquiryRuns
CHECK_DEADLOCK FALSE
