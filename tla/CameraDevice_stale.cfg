SPECIFICATION Spec
CONSTANTS
  Clients = {c1}
  Streams = {s1, s2}
  MaxList = 1
  Lists <- ListsOfRequests
  Buffers = 1
  Batch = 1
  MaxQueue = 1
  MaxBacklog = 1
  Faults = {"stale"}
PROPERTY
  PauseMeansNotRunning
CHECK_DEADLOCK FALSE
