SPECIFICATION FairHomeSpec
CONSTANTS
  MaxPermits = 2
  QueueSize = 1
  MaxRounds = 2
  Instances = 2
  Limit = 2
  Capacity = 3
INVARIANTS
  OffMeansOff
  StopWaitsForThreads
PROPERTY
  HandlersReturn
CHECK_DEADLOCK FALSE
