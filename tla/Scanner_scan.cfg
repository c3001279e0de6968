CONSTANTS
  N = 3
  Untunable = {2}
  Settle = 4
  Dwell = 2
  TuneTicks = 2
SPECIFICATION FairSpec
INVARIANT TypeOK
PROPERTIES DecisionIsFresh ScanGoesRound
CHECK_DEADLOCK FALSE
