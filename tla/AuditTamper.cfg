SPECIFICATION TamperSpec
CONSTANTS
  Tenants = {zampay}
  Threads = {th1, th2}
  Events = {e1, e2}
  NotJson = garbage
  NoThread = none
  MaxRows = 3
  MaxEdits = 2
INVARIANTS
  IntactMeansRecorded
  BreakIsAtTheEdit
