SPECIFICATION Spec
CONSTANTS
  QueueMax = 2
  BatchSize = 2
  FailureThreshold = 2
  RecoveryThreshold = 2
  WindowCount = 2
  WindowOutcomes <- NormalOnly
  MaxCrashes = 0
  MaxStops = 2
  MaxSendFailures = 2
  MaxFaults = 0
INVARIANTS
  ConnectionLogAgrees
  WindowsInOrder
  DuplicateOnlyAfterFailure
  NoSilentDrop
  CleanStopDrains
