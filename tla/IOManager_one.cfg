CONSTANTS
  t1 = t1
  r = r
  w = w
  x = x
  k = k
  None = None
  Workers = {t1}
  Fds = {32, 50}
  Tasks = {r, w, x, k}
  Closers = {k}
  MaxCalls = 2
  InitSize = 32
  MaxMade = 2
  Timed = {r, w, x}
  FdOf <- CloseFd
  EventOf <- CloseEvent
SPECIFICATION FairSpec
INVARIANTS
  TypeOK
  AssertionsHold
PROPERTIES
  IoEnds
CHECK_DEADLOCK FALSE
