CONSTANTS
  c1 = c1
  c2 = c2
  k1 = k1
  k2 = k2
  Calls <- MCCalls
  Routes <- MCRoutes
  Hints <- MCHints
  Default = 1
  Cap = 2
  MaxCooldowns = 1
  Threshold = 2
  BreakerTime = 3
  CacheTime = 2
SPECIFICATION Spec
SYMMETRY MCTwins
INVARIANTS
  TypeOK
  RestAsTold
  ConsentIsRecent
PROPERTY BreakerSpares
