SPECIFICATION SurfaceSpec
CONSTANTS
  c1 = c1
  c2 = c2
  Callers = {c1, c2}
  MaxActive = 1
  MaxCalls = 3
  Dashboard = TRUE
SYMMETRY CallerSymmetry
INVARIANTS
  FlagTruthful
  ShutdownStops
CHECK_DEADLOCK FALSE
