SPECIFICATION FairSpec
CONSTANTS
  Period = 3
  WindowSize = 3
  WindowCount = 3
  QueueMax = 1
INVARIANTS
  TypeOK
PROPERTIES
  NeverEarly
  BurstBounded
  StopEnds
