CONSTANTS
  c1 = c1
  c2 = c2
  n1 = n1
  n2 = n2
  p1 = p1
  p2 = p2
  Zero = Zero
  None = None
  Clients = {c1, c2}
  Names = {n1, n2}
  Passwords = {p1, p2}
  Seeds = {n1}
  SeedPassword = p1
  MaxAsks = 3
  MaxLate = 1
  MaxRestarts = 1
SPECIFICATION Spec
INVARIANTS
  TypeOK
  AnswersBounded
  LagExact
  AnswersTrue
PROPERTIES
  SoloAnswerIsOwn
CHECK_DEADLOCK FALSE
