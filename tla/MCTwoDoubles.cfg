SPECIFICATION Spec
CONSTANTS
  Geo = FALSE
  HalfTurn = 16
  Segments <- MCSegments
  Queries <- MCQueries
  Reach = 6
  Rectangles <- MCRectangles
  OtherCircles <- MCOtherCircles
INVARIANTS
  CirclesRelateAsPointSets
  FoundDocsMatch
  LostDocs
CHECK_DEADLOCK FALSE
