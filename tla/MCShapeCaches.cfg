SPECIFICATION Spec
CONSTANTS
  Arity = 4
  MaxLevels = 2
  Geo = TRUE
  HalfTurn = 8
  t1 = t1
  t2 = t2
  d1 = d1
  d2 = d2
  r1 = r1
  r2 = r2
  points = points
  areas = areas
  NaN = NaN
  Null = Null
  MaxCalls = 3
  Threads <- MCThreads
  FieldNames <- MCFieldNames
  Readers <- MCReaders
  Docs <- MCDocs
  Segments <- MCSegments
  Centers <- MCCenters
  Distance <- MCDistance
INVARIANTS
  TypeOK
  OneProvider
  CachesAreComplete
  CentersAreCached
PROPERTIES
  CachesAreKept
  ImplementsDistanceSources
  SearchesEnd
CHECK_DEADLOCK FALSE
