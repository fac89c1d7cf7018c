SPECIFICATION FairSpec
CONSTANTS
  Buffers = {b1}
  Values = {1, 2}
  Default = 1
  NoRequest = NoRequest
  MaxMsgs = 2
  Faults = {"configure", "submit", "device"}
INVARIANTS
  NoThreadAbandoned
  ControlsApplied
  StoppedMeansClosed
PROPERTIES
  StopsUnlessReenabled
  QueuedBuffersReturn
CHECK_DEADLOCK FALSE
