CONSTANTS
  QueueLen = 2
  MaxSent = 5
SPECIFICATION FairSpec
PROPERTY RelaysPackets
PROPERTY SamplesAreNew
PROPERTY PacketsAreRead
