SPECIFICATION Spec
CONSTANTS
  r1 = r1
  r2 = r2
  Readers = {r1}
  Keep = 1
  MaxID = 3
  MaxEpoch = 4
  MaxCrashes = 1
INVARIANTS
  SnapshotsComplete
  RootComplete
  OnlyOvertakenReadersFail
  NoSegmentIsMistaken
PROPERTIES
  NewestStays
CHECK_DEADLOCK FALSE
