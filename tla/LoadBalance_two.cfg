CONSTANTS
  n1 = n1
  n2 = n2
  b1 = b1
  b2 = b2
  c1 = c1
  c2 = c2
  Nodes = {n1, n2}
  Callbacks = {b1, b2}
  Callers = {c1, c2}
  Size = 2
  Width = 2
  MaxTime = 4
  Bounds <- MCBounds
SPECIFICATION Spec
INVARIANTS
  TypeOK
  Follows
  ClosedIsUnlisted
  DoingExact
CHECK_DEADLOCK FALSE
SYMMETRY Symmetry
