SPECIFICATION SearchSpec
CONSTANTS
  Docs = {0, 1, 2, 3}
  Postings = {{0, 1, 2}, {2, 3}, {1, 3}, {3}, {0, 2}}
  MaxClauses = 4
  Scores = {"", "none"}
INVARIANTS
  MinShouldHolds
CHECK_DEADLOCK FALSE
