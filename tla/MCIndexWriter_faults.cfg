SPECIFICATION LiveSpec
CONSTANTS
  k1 = k1
  k2 = k2
  k3 = k3
  w1 = w1
  w2 = w2
  w3 = w3
  Keys = {k1, k2}
  Writers = {w1, w2}
  Batches <- SmallBatches
  UnsafeBatch = FALSE
  MinMerge = 2
  Keep = 2
  MaxBatches = 2
  MaxMerges = 1
  MaxFaults = 2
  MaxCrashes = 0
INVARIANTS
  CallbacksInOrder
PROPERTIES
  FilesAreImmutable
  EveryBatchIsCalledBack
CHECK_DEADLOCK FALSE
