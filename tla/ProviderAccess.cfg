CONSTANTS
  r1 = r1
  r2 = r2
  a1 = a1
  a2 = a2
  w1 = w1
  w2 = w2
  f1 = f1
  None = None
  Agents <- MCAgents
  Founders <- MCFounders
  Writers <- MCWriters
  Readers <- MCReaders
  Replicas <- MCReplicas
  Home <- MCHome
  MaxKey = 2
  MaxOps = 2
SPECIFICATION FairSpec
INVARIANTS
  OnByDefault
  StaleChainExplained
PROPERTY CachesConverge
