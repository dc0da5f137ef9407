CONSTANTS
  CalibrationSamples = 2
  MillisLimit = 2
  MicrosLimit = 3
  Scale = 3
  MaxTime = 4
  MaxSockets = 2
SPECIFICATION ViewerFairSpec
INVARIANT ViewerTypeOK
INVARIANT OneSocket
INVARIANT ShownIsCalibrated
INVARIANT CountsTimeTwiceAtMost
PROPERTY StepNotTooLong
PROPERTY GetsOriented
CHECK_DEADLOCK FALSE
