SPECIFICATION PostingsSpec
CONSTANTS
  Absent = Absent
  Kinds <- SomeKinds
  SegmentDocs <- TwoSegments
  FreshDocs = 5
  ChunkTarget = 2
  ImpactBlock = 2
  MinImpacts = 2
  Deletions = {{}, {1}}
INVARIANTS
  EveryPostingIsRead
CHECK_DEADLOCK FALSE
