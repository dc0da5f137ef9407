CONSTANTS
  Frames = {f1, f2}
  QueueLen = 2
  PollLimit = 2
  Faults = {"init", "address", "write", "late"}
  Nothing = Nothing
SPECIFICATION FairSpec
INVARIANT DrTellsOfThisFrame
PROPERTY QueuedIsAired
CHECK_DEADLOCK FALSE
