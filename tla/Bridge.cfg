SPECIFICATION FairSpec
CONSTANTS
  PublishMax = 2
  MaxStarts = 2
  MaxDrops = 1
  MaxFaults = 2
INVARIANTS
  TypeOK
  AckedIsInKafka
  LogInOrder
PROPERTIES
  EveryMessageSettles
  ListensAgain
