CONSTANTS
  Capacity = 7
  BURST_COUNT = 3
  burst_count = 3
  BusFails = TRUE
SPECIFICATION BurstFairSpec
INVARIANT ResetHasTheBus
PROPERTY BurstsRunAway
PROPERTY OverflowIsHandled
