SPECIFICATION Spec
CONSTANTS
  h1 = h1
  h2 = h2
  s1 = s1
  s2 = s2
  s3 = s3
  l1 = l1
  f1 = f1
  Handlers = {h1, h2}
  Sessions = {s1, s2, s3}
  Links = {l1}
  Flows = {f1}
  MaxFailures = 3
  MaxGen = 2
  MaxWrong = 8
  Scenarios <- MCScenarios
SYMMETRY RowSymmetry
INVARIANTS
  CredentialsSpentOnce
  SignedOutUnlessRotated
  LockoutBound
CHECK_DEADLOCK FALSE
