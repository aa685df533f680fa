SPECIFICATION FairSpec
CONSTANTS
  Writers = {w1}
  Senders = {s1, s2}
  Limit = 2
  MaxNumber = 3
  MaxFaults = 3
  MaxCrashes = 1
INVARIANTS
  TypeOK
  NumbersDurable
  BatchAtomic
  KeptUntilSent
  NoneOvertakes
PROPERTIES
  OpenIsClosed
