\* The strict profile, set in the environment or in code.
SPECIFICATION Spec
CONSTANTS
  Inputs <- MCInputs
  Traffic <- MCTraffic
INVARIANT
  StrictMeansOriginCheck
CHECK_DEADLOCK FALSE
