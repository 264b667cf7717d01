SPECIFICATION Spec
CONSTANTS
  k1 = k1
  k2 = k2
  k3 = k3
  w1 = w1
  w2 = w2
  w3 = w3
  Keys = {k1, k2}
  Writers = {w1, w2, w3}
  Batches <- TwoBatches
  UnsafeBatch = FALSE
  MinMerge = 2
  Keep = 1
  MaxBatches = 3
  MaxMerges = 1
  MaxFaults = 0
  MaxCrashes = 1
SYMMETRY Symmetric
INVARIANTS
  SnapshotsAreLoadable
PROPERTIES
  ImplementsDurableIndex
CHECK_DEADLOCK FALSE
