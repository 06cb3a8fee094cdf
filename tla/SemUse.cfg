SPECIFICATION FairSpec
CONSTANTS
  Procs = {p1, p2, p3}
  Openers = {p3}
  InitVal = 1
  BIGCOUNT = 5
  MaxSets = 4
  MaxExits = 2
  Rounds = 2
INVARIANTS
  NotRemovedWhileUsed
  MutualExclusion
  CounterIsExact
PROPERTIES
  CreateReturns
