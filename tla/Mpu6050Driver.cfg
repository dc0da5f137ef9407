CONSTANTS
  AccelAxis = {"ACCEL_X", "ACCEL_Y"}
  GyroAxis = {}
  FullScale = {"2", "8"}
  Narrow = "2"
  TestRange = "8"
  Functions = {"init", "fifo_reset", "set_mode", "set_sleep", "set_source",
               "set_fifo_content", "set_range", "self_test"}
  MaxAfterFailure = 1
SPECIFICATION Spec
INVARIANT HandleMatchesSensor
INVARIANT AccessesUndisturbed
INVARIANT SetModeRepairs
INVARIANT PayloadFollowsSources
CHECK_DEADLOCK FALSE
