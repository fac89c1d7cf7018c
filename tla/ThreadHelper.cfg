SPECIFICATION FairSpec
CONSTANT
  Controllers = {c1, c2, c3}
INVARIANTS
  StatesMeanWhatTheySay
  ThreadHandledSafely
PROPERTY
  EntryPointsReturn
CHECK_DEADLOCK FALSE
