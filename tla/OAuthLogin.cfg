CONSTANTS
  c1 = c1
  c2 = c2
  l1 = l1
  l2 = l2
  l3 = l3
  None = None
  Callers <- MCCallers
  Logins <- MCLogins
  MaxKeys = 2
  MaxOthers = 2
SPECIFICATION Spec
SYMMETRY MCTwins
INVARIANTS
  KeptSignIn
  RedeemedOnce
  RevokedNotServed
  RemovedIsRevoked
CHECK_DEADLOCK FALSE
