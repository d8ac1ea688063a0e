CONSTANTS
  s1 = s1
  s2 = s2
  n1 = n1
  n2 = n2
  d1 = d1
  k1 = k1
  k2 = k2
  None = None
  Sessions = {s1, s2}
  Nodes = {n1, n2}
  Domains = {d1}
  Cmds = {k1, k2}
  Weights = {1, 2}
  Workers = {1, 2}
  NodeOf <- OwnNode
  MaxRegisters <- ThreeOrTwo
SPECIFICATION Spec
INVARIANTS
  TypeOK
  ListedExact
  NoGhost
CHECK_DEADLOCK FALSE
