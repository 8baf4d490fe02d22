\* The hook lists of preset.New, two runs of the service, one SSE stream.
SPECIFICATION FairSpec
CONSTANTS
  Owner = owner
  Callers = {owner}
  MaxActive = 1
  MaxCalls = 2
  StartHooks <- PresetStart
  DrainHooks <- PresetDrain
  ShutdownHooks <- PresetShutdown
  Otel = TRUE
  Realtime = TRUE
  Dashboard = TRUE
  Watchdog = TRUE
  MaxStarts = 2
  MaxStreams = 1
  MaxPings = 1
INVARIANTS
  DrainInLockstep
  FlushedLast
PROPERTIES
  StopCompletes
  KeepaliveStops
CHECK_DEADLOCK FALSE
