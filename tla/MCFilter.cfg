SPECIFICATION Spec
CONSTANTS
  Arity = 4
  MaxLevels = 3
  Geo = TRUE
  HalfTurn = 16
  d1 = d1
  d2 = d2
  Docs <- MCDocs
  Contents <- MCContents
  Indexes <- MCIndexes
  Queries <- MCQueries
INVARIANTS
  TypeOK
  StackSorted
  NextTermAssertion
  Complete
  ExactBelowMaxLevels
  SoundWhenScanIsEarly
  FindsByCommonCells
  NoDocumentLost
  TermQueryLosesOnlyCoarserDocs
PROPERTIES
  ImplementsSpatialFilter
  Terminates
CHECK_DEADLOCK FALSE
