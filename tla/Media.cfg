CONSTANTS
  Request = {r1, r2}
  Media = {m1, m2, m3}
  Object = {o1, o2}
  Hash = {h1}
  HashOf <- OneContent
  Faults = {"db", "minio", "redis", "crash", "cancel"}
  MaxFaults = 1
  None = None
SPECIFICATION Spec
SYMMETRY Symmetric
\* when every name and id is used up, nothing is left to do
CHECK_DEADLOCK FALSE
INVARIANTS
  
  FreshList
PROPERTIES
  KeepsReferences
