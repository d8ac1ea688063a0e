CONSTANTS
  r1 = r1
  r2 = r2
  s1 = s1
  s2 = s2
  None = None
  Requests = {r1, r2}
  Sessions = {s1, s2}
  MaxSem = 2
  MaxConnect = 1
  OneThread = FALSE
  UserCloses = FALSE
SPECIFICATION Spec
INVARIANTS
  TypeOK
  AnsweredOnce
  PermitsConserved
  OneReaderWriter
  OneRestart
  QueuedIsAnnounced
SYMMETRY Symmetry
