SPECIFICATION Spec
CONSTANTS
  Calls = {c1, c2, c3, c4}
  Tenants = {zampay, zammfi}
  Keys = {k1}
  NoKey = nokey
  Correlations = {cor1}
  Partners = {}
  NoCall = none
  MaxFaults = 1
  MaxCrashes = 1
SYMMETRY CallSymmetry
INVARIANTS
  TypeOK
  AnsweredIsSettled
  ReplaysAgree
  OncePerSerialKey
  WorkIsBilledAndAudited
CHECK_DEADLOCK FALSE
