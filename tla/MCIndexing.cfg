SPECIFICATION FieldSpec
CONSTANTS
  Arity = 4
  MaxLevels = 3
  Geo = TRUE
  HalfTurn = 16
  t1 = t1
  t2 = t2
  NoNode = NoNode
  Threads <- TwoThreads
  Jobs <- MCDeepJobs
INVARIANTS
  ExactOrCentreOnly
  TokensSorted
  SearchableFields
PROPERTIES
  FieldsFinish
CHECK_DEADLOCK FALSE
