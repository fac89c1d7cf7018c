SPECIFICATION HandlerSpec
CONSTANTS
  Handles = {h1, h2, h3, h4}
  Frames = {f1, f2, f3, f4}
  ClientMax = 3
SYMMETRY Symmetry
INVARIANTS
  SignalMeansBuffer
  ReportedTruthfully
  PreparingIsKnown
  QueueIsServed
PROPERTIES
  ImplementsPool
CHECK_DEADLOCK FALSE
