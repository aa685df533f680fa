SPECIFICATION Spec
CONSTANTS
  QueueMax = 1
  BatchSize = 2
  FailureThreshold = 1
  RecoveryThreshold = 1
  WindowCount = 3
  WindowOutcomes <- AlarmOnly
  MaxCrashes = 0
  MaxStops = 1
  MaxSendFailures = 0
  MaxFaults = 0
INVARIANTS
  LosslessHandoff
