SPECIFICATION Spec
CONSTANTS
  Period = 2
  WindowSize = 2
  WindowCount = 2
  QueueMax = 1
INVARIANTS
  FixedRate
