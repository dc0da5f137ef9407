CONSTANTS
  QueueLen = 2
  SettlingFrames = 3
  Regimes = {FALSE}
SPECIFICATION Spec
INVARIANT ForwardAfterCompletion
CHECK_DEADLOCK FALSE
