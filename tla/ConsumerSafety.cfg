SPECIFICATION FairSpec
CONSTANTS
  p1 = p1
  p2 = p2
  e1 = e1
  e2 = e2
  e3 = e3
  a = a
  b = b
  Partitions = {p1, p2}
  EventIds = {e1, e3}
  Bodies = {a, b}
  Kinds <- AllKinds
  PartitionOf <- TwoPartitions
  MaxRecords = 2
  MaxAttempts = 2
  LogMax = 2
  MaxFaults = 2
  MaxCrashes = 1
INVARIANTS
  TypeOK
  CommittedIsHandled
  EventIdUnique
PROPERTIES
  RowsAreKept
  EventuallyCommitted
