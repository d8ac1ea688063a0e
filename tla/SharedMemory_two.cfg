CONSTANTS
  m1 = m1
  m2 = m2
  u1 = u1
  u2 = u2
  u3 = u3
  None = None
  Managers = {m1, m2}
  Users = {u1, u2, u3}
  CountPerPage = 1
  Stride = 1
  Projects = 3
  Retries = 2
  MaxPages = 2
  MaxSegments = 5
  MaxCrashes = 1
  ModuleOf <- Modules
SPECIFICATION Spec
INVARIANTS
  UsedExact
  SoleHolder
  OwnPages
  LeftByCrash
CHECK_DEADLOCK FALSE
SYMMETRY Symmetry
