CONSTANTS
  ua = ua
  ta = ta
  tb = tb
  Requests = {r1, r2, r3, r4}
  Attempts = {r1, r2, r3, r4}
  Garbage = {g1}
  NoString = NoString
  Asked <- MCAsked
  Tenants <- MCTenants
  Users <- MCUsers
  TenantOf <- MCTenantOf
  May <- MCMay
  NoTenant = NoTenant
  Nobody = Nobody
  NoWindow = NoWindow
  Limit = 1
  MaxFailed = 2
  Lockout = 2
  SessionTtl = 1
  RevokedLimit = 1
  MaxTime = 2
  MaxRestarts = 1
SYMMETRY RequestSymmetry
SPECIFICATION Spec
CHECK_DEADLOCK FALSE
INVARIANTS
  AdmittedWithinLimit
  NobodyRefusedEarly
  WrongPasswordsLock
  LockoutIsProvoked
PROPERTIES
  SignedOutStaysOut
