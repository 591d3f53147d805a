SPECIFICATION Spec
CONSTANTS
  Geo = TRUE
  HalfTurn = 4
  Collections <- MCCollections
  Others <- MCOthers
INVARIANTS
  BoxHoldsMembers
  RelationsAreThoseOfPointSets
  RelationsTranspose
  CenterIsInside
  MultiShapeIsExact
CHECK_DEADLOCK FALSE
