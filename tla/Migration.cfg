SPECIFICATION FairSpec
CONSTANTS
  A = A
  B = B
  o1 = o1
  o2 = o2
  m1 = m1
  m2 = m2
  s1 = s1
  p1 = p1
  p2 = p2
  Instances = {A, B}
  Orgs = {o1, o2}
  Home <- MCHome
  OpenInstances = {}
  Capabilities = {"migrate"}
  MaxAdmin = 3
  MaxDisturbances = 1
  Origin = A
  Destination = B
  Target = o2
  Migrations = {m1, m2}
  Pieces = {s1}
  Approvals = {p1, p2}
INVARIANTS TrustAgreed WorkArrived
PROPERTIES ApprovedMoves
CHECK_DEADLOCK FALSE
