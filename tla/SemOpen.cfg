SPECIFICATION Spec
CONSTANTS
  Procs = {p1, p2}
  Openers = {p2}
  InitVal = 1
  BIGCOUNT = 5
  MaxSets = 2
  MaxExits = 0
  Rounds = 1
INVARIANTS
  OpenNeedsNoLock
