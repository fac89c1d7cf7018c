SPECIFICATION FairSpec
CONSTANTS
  MaxMonitors = 2
  MaxInput = 2
INVARIANTS
  QuietMeansTruth
PROPERTIES
  ImplementsPromise
  EventuallyTold
  ExitHonoured
CHECK_DEADLOCK FALSE
