SPECIFICATION Spec
CONSTANTS
  Pages = {p1}
  MaxClicks = 2
  NoPage = NoPage
  QueueSize = 2
  MaxLost = 1
  Files <- MCFiles
INVARIANTS
  TypeOK
  RunningTellsOfLoads
  EndedLoadsAreIndexed
  LoneLoadsCountRight
PROPERTIES
  StopsAfterTheLoad
  PollingEnds
CHECK_DEADLOCK FALSE
