SPECIFICATION Spec
CONSTANTS
  r1 = r1
  r2 = r2
  r3 = r3
  p1 = p1
  p2 = p2
  Requests <- MCRequests
  FallBack <- MCFallBack
  Replicas <- MCReplicas
  MaxAttempts = 2
  Limit = 2
SYMMETRY Symmetric
INVARIANTS
  BaselineAddedOnce
  CountedOnce
  NoneMissed
  RefusedAtLimit
CHECK_DEADLOCK FALSE
