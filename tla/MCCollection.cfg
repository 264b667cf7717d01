SPECIFICATION Spec
CONSTANTS
  s1 = s1
  a = a
  b = b
  d1 = d1
  d2 = d2
  v1 = v1
  v2 = v2
  r1 = r1
  r2 = r2
  Spaces = {s1}
  Specs = {a, b}
  Ids = {d1, d2}
  Revs = {v1, v2}
  Readers = {r1}
  None = None
  Owner = Owner
  MaxGeneration = 3
  MaxBatches = 4
  MaxFaults = 1
  MaxCrashes = 1
SYMMETRY Symmetric
INVARIANTS
  CatalogIsComplete
  NothingLooksCorrupt
  PinnedIsReadable
  AckedIsPublished
PROPERTIES
  MaintenanceReclaims
  GenerationsAreImmutable
CHECK_DEADLOCK FALSE
