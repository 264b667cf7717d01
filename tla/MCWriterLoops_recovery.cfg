SPECIFICATION RecoverySpec
CONSTANTS
  w1 = w1
  w2 = w2
  Writers = {w1}
  Threshold = 1
  MaxFiles = 0
  MaxBatches = 2
PROPERTIES
  BatchReturns
  EveryBatchIsSaved
CHECK_DEADLOCK FALSE
