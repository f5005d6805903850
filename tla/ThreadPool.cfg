CONSTANTS
  Threads = {t1, t2, t3}
  Jobs = {j1, j2, j3}
  Endless = {j1}
  MaxIdle = 2
  MaxTotal = 3
  NoJob = NoJob
SPECIFICATION FairSpec
INVARIANTS CountersExact NoLostWakeup OneHolder CancelledJobsDeleted
PROPERTIES LifecycleSpec JobsEnd CancelReturns DestructorReturns
