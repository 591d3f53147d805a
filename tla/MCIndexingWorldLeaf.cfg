SPECIFICATION FieldSpec
CONSTANTS
  Arity = 4
  MaxLevels = 2
  Geo = TRUE
  HalfTurn = 16
  t1 = t1
  t2 = t2
  NoNode = NoNode
  Threads <- TwoThreads
  Jobs <- MCSharedJobs
INVARIANT WorldIsNoLeaf
CHECK_DEADLOCK FALSE
