SPECIFICATION Spec
CONSTANTS
  QueueMax = 1
  BatchSize = 2
  FailureThreshold = 1
  RecoveryThreshold = 1
  WindowCount = 2
  WindowOutcomes <- AlarmOnly
  MaxCrashes = 1
  MaxStops = 0
  MaxSendFailures = 1
  MaxFaults = 0
INVARIANTS
  TypeOK
  SequenceNeverReused
  FifoOutbox
  EventFollowsTelemetry
  IncidentReported
PROPERTIES
  ImplementsOrderedDelivery
