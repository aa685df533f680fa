SPECIFICATION FairSpec
CONSTANTS
  Telemetry = {t1, t2, tn, td}
  Events = {e1}
  Damaged = {td}
  Incomplete = {tn}
  Limits = {2}
  PageSize = 1
  MaxPublished = 2
  MaxFaults = 1
  MaxCrashes = 1
INVARIANTS
  TypeOK
  OffsetCoversStored
  CountedOnce
PROPERTIES
  SummaryBracketed
  StoredIsServed
