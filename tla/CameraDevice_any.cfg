SPECIFICATION Spec
CONSTANTS
  Clients = {c1, c2}
  Streams = {s1, s2}
  MaxList = 1
  Lists <- ListsOfRequests
  Buffers = 1
  Batch = 1
  MaxQueue = 1
  MaxBacklog = 1
  Faults = {"stale", "timeout", "configure", "submit", "device", "client"}
SYMMETRY Symmetry
INVARIANTS
  WorkIsReported
  RequestsUseStreams
  StopsOnError
CHECK_DEADLOCK FALSE
