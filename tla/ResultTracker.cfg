SPECIFICATION FairSpec
CONSTANTS
  MaxFrame = 2
  Streams = {s1, s2}
  Conducts = {"any", "honest", "faultless"}
  Faults = {"frame", "device"}
INVARIANTS
  BuffersConserved
  ResultsInOrder
  NothingForgotten
  HonestHalNotBlamed
PROPERTY
  EveryFrameSettles
CHECK_DEADLOCK FALSE
