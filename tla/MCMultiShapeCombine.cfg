SPECIFICATION Spec
CONSTANTS
  Geo = TRUE
  HalfTurn = 4
  Collections <- MCCollections
  Others <- MCOthers
INVARIANT CombineIsMultiShape
CHECK_DEADLOCK FALSE
