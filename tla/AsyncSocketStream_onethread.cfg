CONSTANTS
  r1 = r1
  r2 = r2
  s1 = s1
  s2 = s2
  None = None
  Requests = {r1, r2}
  Sessions = {s1, s2}
  MaxSem = 2
  MaxConnect = 1
  OneThread = TRUE
  UserCloses = TRUE
SPECIFICATION FairSpec
PROPERTIES
  ImplementsService
  WriterWakes
  ReopenedOnce
CHECK_DEADLOCK FALSE
