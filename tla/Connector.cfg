SPECIFICATION FairLoadSpec
CONSTANTS
  Callers = {c1, c2}
  Threshold = 2
  Attempts = 2
  ResetAfter = 2
  MaxFailures = 3
INVARIANTS
  BreakerConsistent
  PartnerIsSpared
PROPERTIES
  CooldownIsWhole
  ClosesAfterRecovery
  EveryInvokeReturns
