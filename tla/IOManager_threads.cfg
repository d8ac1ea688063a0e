CONSTANTS
  t1 = t1
  t2 = t2
  r = r
  w = w
  x = x
  k = k
  None = None
  Workers = {t1, t2}
  Fds = {32, 50}
  Tasks = {r, w, x}
  Closers = {}
  MaxCalls = 1
  InitSize = 32
  MaxMade = 2
  Timed = {r}
  FdOf <- ThreeFd
  EventOf <- ThreeEvent
SPECIFICATION Spec
INVARIANTS
  PendingExact
  ResumedOnce
  KernelAgrees
  DrainedAtExit
CHECK_DEADLOCK FALSE
SYMMETRY Symmetry
