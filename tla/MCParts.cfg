SPECIFICATION PartsSpec
CONSTANTS
  None = None
  Processes = {p1, p2, p3}
  MaxFiles = 4
  Readers = {r1}
  MaxSegments = 3
  MaxFaults = 1
  Calls = {c1, c2}
  Ids = {i1}
  Shapes = {s1, s2}
  Limits = {0, 1, 2}
  MaxBatches = 5
  MergeMax = 2
  Concurrency = 2
  MaxFailures = 2
  MaxSegmentSize = 9
  MaxSegmentsPerTier = 2
  TierGrowth = 2
  SegmentsPerMergeTask = 2
  FloorSegmentSize = 1
  MaxSize = 3
  MaxIds = 4
  Texts <- SomeTexts
  ChunkSizes = {4, 6}
  Overlaps = {0, 3}
  BatchSizes = {1, 2}
  Docs = {0, 1, 2, 3}
  Postings = {{0, 1, 2}, {2, 3}, {1, 3}, {3}, {0, 2}}
  MaxClauses = 4
  Scores = {"", "none"}
  Terms = {t1, t2}
  LastDoc = 3
  MaxScore = 2
  BlockSize = 2
  Cuts <- SomeCuts
  MaxBare = 1
  Pages <- SomePages
  Absent = Absent
  Kinds <- SomeKinds
  SegmentDocs <- TwoSegments
  FreshDocs = 5
  ChunkTarget = 2
  ImpactBlock = 2
  MinImpacts = 2
  Deletions = {{}, {1}}
  Sources <- SomeSources
  StoredBlock = 2
  ValueChunk = 2
  MaxBuilt = 3
  MaxDropped = 1
  Searches = {q1, q2}
  Offsets <- SomeOffsets
  TermDocs <- SomeTerms
  DocCount = 4
  MaxOpens = 3
  VectorIds = {v1, v2}
  VectorFields = {f1, f2}
  MaxOperations = 3
  MaxInBatch = 2
  MaxCallFaults = 1
  Searchers = {g1, g2, g3}
  Layouts <- TwoReaders
  Permits = 2
  Spare = 1
  MaxAddresses = 2
  NoOne = NoOne
INVARIANTS
  ExclusiveUnlessUnlinked
  LiveIsOpenUnlessInterrupted
  NothingLeaks
  NothingIsHeld
  VectorsFollowText
  NothingBuiltIsLost
  ImportIsFaithful
  MatchesAreExact
  PageIsExact
  PostingsAreTheirOwn
  ContentIsKept
  SearchesDoNotMeet
  SidecarIsTrue
  NothingIsUsedAfterClose
  NobodyIsStuck
PROPERTIES
  PlansConverge
CHECK_DEADLOCK FALSE
