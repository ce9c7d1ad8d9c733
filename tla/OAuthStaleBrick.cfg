CONSTANTS
  q1 = q1
  q2 = q2
  r1 = r1
  r2 = r2
  w1 = w1
  None = None
  Replicas <- MCReplicas
  Requests <- MCRequests
  Savers <- MCSavers
  Home <- MCHome
  MaxGen = 2
  MaxRevoked = 0
  PersistMax = 2
SPECIFICATION SSpec
INVARIANT NeverRefreshesStaleToken
