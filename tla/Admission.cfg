CONSTANTS
  Client = {c1, c2}
  User = {u1}
  Seeded = {u1}
  MaxLoginFailures = 1
  Faults = {"db", "redis", "crash"}
  MaxFaults = 1
  MaxRequests = 3
  Key <- Buckets
  Capacity <- Small
  Refill <- Rates
  Lag = {0}
  MaxTime = 1
  Limit = 1
  MaxCost = 1
  Workers = 1
  Queued = 1
  Task = {t1, t2}
  None = None
SPECIFICATION AdmissionSpec
SYMMETRY Symmetric
\* when every request is served, nothing is left to do
CHECK_DEADLOCK FALSE
INVARIANTS
  
  
  LockoutEnds
  GuessesBounded

  
