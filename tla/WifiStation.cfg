CONSTANTS
  MaximumRetry = 3
  MaxGain = 3
  MaxPending = 3
SPECIFICATION WifiFairSpec
PROPERTY GivesUpForGood
PROPERTY AppStarts
PROPERTY Reconnects
CHECK_DEADLOCK FALSE
