SPECIFICATION BatchSpec
CONSTANTS
  r1 = r1
  r2 = r2
  Calls = {r1, r2, c1}
  File <- MCFile
  Tenants = {zampay}
  Keys = {k1}
  NoKey = nokey
  Correlations = {cor1}
  Partners = {bureau}
  NoCall = none
  MaxFaults = 2
  MaxCrashes = 1
INVARIANTS
  NothingWithoutItsDecision
  BatchIsAccounted
  RejectsLeaveNothing
PROPERTIES
  EverythingEnds
CHECK_DEADLOCK FALSE
