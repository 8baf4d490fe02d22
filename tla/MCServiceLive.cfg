\* One Run, one Shutdown call, a request that may never end.  The port is the
\* system's choice: no bind fails because another listener holds it.
SPECIFICATION FairSpec
CONSTANTS
  r1 = r1
  c1 = c1
  Starts = {r1}
  Runs = {r1}
  Stops = {c1}
  None = None
  NHooks = 2
  MaxInFlight = 1
  FixedAddr = FALSE
PROPERTIES
  CallsReturn
CHECK_DEADLOCK FALSE
