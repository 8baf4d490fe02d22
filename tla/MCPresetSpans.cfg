SPECIFICATION Spec
CONSTANTS
  Owner = owner
  Callers = {owner}
  MaxActive = 1
  MaxCalls = 2
  StartHooks <- PresetStart
  DrainHooks <- PresetDrain
  ShutdownHooks <- PresetShutdown
  Otel = TRUE
  Realtime = TRUE
  Dashboard = TRUE
  Watchdog = TRUE
  MaxStarts = 2
  MaxStreams = 2
  MaxPings = 2
INVARIANTS
  SpansFlushed
CHECK_DEADLOCK FALSE
