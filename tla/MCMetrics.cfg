SPECIFICATION Spec
CONSTANTS
  r1 = r1
  r2 = r2
  r3 = r3
  Requests = {r1, r2, r3}
  Routes = {"items"}
  Codes = {103, 404, 500}
  Informational = {103}
  NBounds = 2
  MaxWrites = 2
  BasicAuth = TRUE
SYMMETRY RequestSymmetry
INVARIANTS
  GaugeConserved
  SeriesExact
PROPERTIES
  ScrapesMonotonic
CHECK_DEADLOCK FALSE
