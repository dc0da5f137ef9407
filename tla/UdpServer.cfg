CONSTANTS
  c1 = c1
  c2 = c2
  Connection = {c1, c2}
  SocketLen = 2
  HighWater = 1
  MaxDatagrams = 4
SPECIFICATION FairSpec
INVARIANT OwedEverySample
PROPERTY RelaysDatagrams
PROPERTY GetsEverySample
PROPERTY ForgetsTheLost
CHECK_DEADLOCK FALSE
