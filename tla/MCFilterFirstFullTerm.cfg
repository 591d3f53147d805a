SPECIFICATION Spec
CONSTANTS
  Arity = 4
  MaxLevels = 3
  Geo = TRUE
  HalfTurn = 16
  d1 = d1
  d2 = d2
  Docs <- MCDocs
  Contents <- MCContents
  Indexes <- MCIndexes
  Queries <- MCQueries
INVARIANT OnlyTouchingDocs
CHECK_DEADLOCK FALSE
