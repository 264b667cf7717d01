SPECIFICATION LiveSpec
CONSTANTS
  w1 = w1
  w2 = w2
  Writers = {w1, w2}
  Threshold = 1
  MaxFiles = 1
  MaxBatches = 2
INVARIANTS
  CleanCloseIsDurable
  CleanCloseIsPlanned
PROPERTIES
  CloseReturns
CHECK_DEADLOCK FALSE
