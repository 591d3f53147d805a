SPECIFICATION Spec
CONSTANTS
  Geo = TRUE
  HalfTurn = 2048
  MaxPrecision = 4
  DefaultDetail = 65
  Absent = Absent
  Args <- MCArgs
  Points <- MCPoints
INVARIANTS
  DecodeTakesBackEncode
  LevelsFitDistances
CHECK_DEADLOCK FALSE
