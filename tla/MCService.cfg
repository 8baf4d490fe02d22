\* Run, a second Start on the same port, one more Shutdown caller, requests.
SPECIFICATION Spec
CONSTANTS
  r1 = r1
  s1 = s1
  c1 = c1
  Starts = {r1, s1}
  Runs = {r1}
  Stops = {c1}
  None = None
  NHooks = 1
  MaxInFlight = 1
  FixedAddr = TRUE
INVARIANTS
  GracefulClosedOnce
  DrainSequence
  HalfAnnouncedNeverServes
  OutcomeFaithful
  OutcomeDelivered
  ListenerNeverLeaks
PROPERTIES
  ImplementsContract
CHECK_DEADLOCK FALSE
