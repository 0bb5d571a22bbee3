SPECIFICATION FairSpec
CONSTANTS
  Tenants = {zampay, zammfi}
  Threads = {th1, th2}
  Events = {e1, e2}
  NotJson = garbage
  NoThread = none
  MaxRows = 2
INVARIANTS
  TypeOK
  TrailSound
  AcknowledgedIsDurable
PROPERTIES
  ImplementsAuditLog
  LockIsReleased
