CONSTANTS
  t1 = t1
  t2 = t2
  f1 = f1
  f2 = f2
  AnyThread = AnyThread
  NoFiber = NoFiber
  Threads = {t1, t2}
  Caller = {t2}
  Fibers = {f1, f2}
  Ops = {"notify", "ready", "throw"}
  MaxPermits = 1
SPECIFICATION FairSpec
INVARIANTS
  SingleExecution
  OneHome
  DrainedAtExit
PROPERTIES
  ScheduledRuns
  StopReturns
