CONSTANTS
  q1 = q1
  q2 = q2
  t1 = t1
  t2 = t2
  t3 = t3
  i1 = i1
  NoTenant = NoTenant
  Requests <- MCRequests
  Tenants <- MCTenants
  Ips <- MCIps
  RateMax = 2
  IpRateMax = 5
  ConcurrencyMax = 1
  MaxEntries = 2
  Window = 2
  MaxTime = 4
SPECIFICATION AdmissionSpec
SYMMETRY MCSymmetry
INVARIANTS
  WindowBudget
  SlotsMatchHolders
