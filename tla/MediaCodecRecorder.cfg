SPECIFICATION FairSpec
INVARIANTS
  MuxerUsedInOrder
  NothingUsedAfterRelease
PROPERTY
  RecordingEnds
