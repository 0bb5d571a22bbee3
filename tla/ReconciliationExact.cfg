SPECIFICATION ReconSpec
CONSTANTS
  Calls = {c1, c2, c3}
  Tenants = {zampay}
  Keys = {}
  NoKey = nokey
  Correlations = {cor1, cor2, cor3}
  Partners = {}
  NoCall = none
  MaxFaults = 1
  MaxCrashes = 1
SYMMETRY ReconSymmetry
INVARIANTS
  VerdictIsExact
PROPERTIES
  ReportIsReal
CHECK_DEADLOCK FALSE
