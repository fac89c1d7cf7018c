SPECIFICATION FairSpec
CONSTANT
  N = 4
INVARIANTS
  BuffersApart
  ResourcesOutliveThreads
PROPERTY
  StopReturns
CHECK_DEADLOCK FALSE
