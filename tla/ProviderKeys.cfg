CONSTANTS
  c1 = c1
  c2 = c2
  l1 = l1
  l2 = l2
  l3 = l3
  None = None
  Nobody = Nobody
  Callers <- MCCallers
  Labels <- MCLabels
  Default = l1
  Ids = {1, 2, 3}
  FirstIds = {{2}, {1, 2}}
  MaxKeys = 2
  MaxFallbacks = 1
  FirstRoutes = 1
  MaxCalls = 3
SPECIFICATION Spec
SYMMETRY MCTwins
CHECK_DEADLOCK FALSE
CONSTRAINT MCUnexcused
INVARIANTS
  TypeOK
  OrphansExplained
  PinnedKeyServes
PROPERTY FirstKept
