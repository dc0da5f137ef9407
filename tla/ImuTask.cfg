CONSTANTS
  QueueLen = 2
  SettlingFrames = 3
  Regimes = {FALSE}
SPECIFICATION FairSpec
PROPERTY Stabilises
PROPERTY KeepsQueueing
PROPERTY FreshFrames
PROPERTY JamFreezesFrames
CHECK_DEADLOCK FALSE
