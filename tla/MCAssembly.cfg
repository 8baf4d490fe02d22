\* Every rule of the boot grammar, and traffic against the services it builds.
SPECIFICATION Spec
CONSTANTS
  Inputs <- MCInputs
  Traffic <- MCTraffic
INVARIANTS
  NoOrphanProvider
  BootAsAsked
  AdmittedMeansEntitled
  EveryRequestTraced
  
CHECK_DEADLOCK FALSE
