SPECIFICATION Spec
CONSTANTS
  PublishMax = 1
  MaxStarts = 1
  MaxDrops = 0
  MaxFaults = 1
INVARIANTS
  FailedIsKept
