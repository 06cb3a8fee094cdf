SPECIFICATION Spec
CONSTANTS
  Null = Null
  Threads = {t1, t2, t3}
INVARIANTS
  KillsEveryWorker
