SPECIFICATION FairSpec
CONSTANTS
  QueueMax = 1
  BatchSize = 1
  FailureThreshold = 1
  RecoveryThreshold = 1
  WindowCount = 2
  WindowOutcomes <- NormalOnly
  MaxCrashes = 0
  MaxStops = 1
  MaxSendFailures = 1
  MaxFaults = 1
PROPERTIES
  OutboxDrains
  WindowEventuallyStored
  WorkersEnd
