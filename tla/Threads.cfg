SPECIFICATION MCSpec
CONSTANTS
  t1 = t1  t2 = t2  t3 = t3
  o1 = o1  o2 = o2
  i1 = i1  i2 = i2
  Threads = {t1, t2, t3}
  Objs = {o1, o2}
  Ids = {i1, i2}
  IdOf <- MCIdOf
  NoThread = NoThread
  NoObj = NoObj
  Null = Null
  JobWorkers = {"w1", "w2"}
  QueuedJobs = {1, 2, 3}
  JobId <- MCJobId
  Producers = {1, 2}
  Consumers = {1, 2}
  Msgs = {"a", "b", "c"}
  MaxSends = 2
  NTHR = 2
  TNUM = 2
  Values = {0, 1, 2}
  LONG_MAX = 3
  SECTONSEC = 3
  Delay = 2
  MaxTime = 10
  EnvThreads = {"u1", "u2"}
  Names = {"full", "long", "unset"}
  ValueLen <- MCValueLen
  Buflen = 4
  MAXSTRINGSZ = 5
  MaxMsgs = 3
INVARIANTS
  NoUseAfterFree
  CountIsRefs
  ReferencedIsListed
  QueuesIntact
  HeldIsOwn
  NotTooEarly
PROPERTIES
  Implements
  CountImplements
  WaitsEnd
