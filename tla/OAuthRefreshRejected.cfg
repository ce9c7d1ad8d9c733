CONSTANTS
  q1 = q1
  q2 = q2
  q3 = q3
  r1 = r1
  r2 = r2
  None = None
  Replicas <- MCReplicas
  Requests <- MCRequests
  Home <- MCHome
  MaxGen = 2
  MaxRevoked = 1
  PersistMax = 2
SPECIFICATION Spec
INVARIANT RejectedTokenIsReplaced
