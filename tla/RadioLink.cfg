CONSTANTS
  Base = 16
  Words = 2
  SampleWords <- BoundaryWords
  SampleTicks <- BoundaryTicks
SPECIFICATION LinkSpec
INVARIANT ServerReadsWhatWasMeant
INVARIANT EndsAgree
INVARIANT FailuresRelease
INVARIANT ConfigurationsKept
CHECK_DEADLOCK FALSE
