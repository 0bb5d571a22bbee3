SPECIFICATION Spec
CONSTANTS
  Calls = {c1, c2}
  Tenants = {zampay}
  Keys = {k1}
  NoKey = nokey
  Correlations = {cor1}
  Partners = {bureau}
  NoCall = none
  MaxFaults = 0
  MaxCrashes = 0
INVARIANT
  BilledOncePerKey
CHECK_DEADLOCK FALSE
