\* Two commands, a Shutdown and a WaitForSignal, one guarded query.
SPECIFICATION FairSpec
CONSTANTS
  None = None
  k1 = k1
  k2 = k2
  q1 = q1
  s1 = s1
  s2 = s2
  w1 = w1
  Commands = {k1, k2}
  Queries = {q1}
  Stops = {s1, s2}
  Waiters = {s2}
  Workers = {w1}
  Configs <- MCConfigs
  Backlog = 1
  MaxStaleness = 1
INVARIANTS
  AuxNeverLeaks
  DrainedBeforeClose
  CheckedAnswerFresh
PROPERTIES
  AlwaysCloses
  ImplementsContract
CHECK_DEADLOCK FALSE
