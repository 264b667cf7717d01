SPECIFICATION Spec
CONSTANTS
  k1 = k1
  k2 = k2
  k3 = k3
  w1 = w1
  w2 = w2
  w3 = w3
  Keys = {k1, k2, k3}
  Writers = {w1}
  Batches <- ThreeBatches
  UnsafeBatch = TRUE
  MinMerge = 2
  Keep = 1
  MaxBatches = 3
  MaxMerges = 2
  MaxFaults = 0
  MaxCrashes = 0
INVARIANTS
  OneLiveDocument
  RootHoldsHistory
  MergesAreDisjoint
CHECK_DEADLOCK FALSE
