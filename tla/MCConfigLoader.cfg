SPECIFICATION Spec
CONSTANTS
  Types <- MCTypes
  Files <- MCFiles
  Envs <- MCEnvs
  Flags <- MCFlags
  Lower <- MCLower
INVARIANTS
  Precedence
  NothingSwallowed
  BlameTruthful
