CONSTANTS
  QueueLen = 2
  Regimes = {TRUE}
  PollLimit = 2
  Faults = {"init", "address", "write"}
  Nothing = Nothing
SPECIFICATION FairSpec
PROPERTY CleanStays
PROPERTY FreshOnAir
PROPERTY FailureSilencesNode
CHECK_DEADLOCK FALSE
