SPECIFICATION FairSpec
CONSTANTS
  Clients = {c1}
  Streams = {s1, s2}
  MaxList = 2
  Lists <- ListsOfRequests
  Buffers = 1
  Batch = 2
  MaxQueue = 2
  MaxBacklog = 0
  Faults = {}
PROPERTIES
  ConfiguredWhenDrained
  IdleMeansDone
  CallsReturn
  WorkIsServed
CHECK_DEADLOCK FALSE
