SPECIFICATION Spec
CONSTANTS
  Arity = 4
  MaxLevels = 4
  Geo = TRUE
  HalfTurn = 32
  d1 = d1
  d2 = d2
  Docs <- MCDocs
  Indexes <- MCIndexes
  Queries <- MCQueries
PROPERTY AlwaysForward
CHECK_DEADLOCK FALSE
