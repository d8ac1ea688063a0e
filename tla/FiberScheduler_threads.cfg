CONSTANTS
  t1 = t1
  t2 = t2
  f1 = f1
  f2 = f2
  AnyThread = AnyThread
  NoFiber = NoFiber
  Threads = {t1, t2}
  Caller = {}
  Fibers = {f1, f2}
  Ops = {"wait", "notify", "switch", "spawn", "wake", "throw"}
  MaxPermits = 1
SPECIFICATION Spec
INVARIANTS
  TypeOK
  ActiveExact
  NoIdlePermit
CHECK_DEADLOCK FALSE
