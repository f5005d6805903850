CONSTANTS
  Threads = {t1, t2}
  Jobs = {j1, j2, j3}
  Endless = {j1}
  MaxIdle = 1
  MaxTotal = 2
  NoJob = NoJob
SPECIFICATION Spec
INVARIANT QueuedOnlyAtLimit
