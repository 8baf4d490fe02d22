SPECIFICATION FairSpec
CONSTANTS
  Requests = {r1}
  Manuals = {m1}
  Batches = {b1, b2}
  Configs <- MCConfigs
  MaxTime = 2
INVARIANTS
  CooldownHolds
  ManualHonest
  FailuresReported
PROPERTIES
  CallersNeverWait
CHECK_DEADLOCK FALSE
