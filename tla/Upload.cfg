CONSTANTS
  Request = {r1, r2}
  Library = {r2}
  Media = {m1, m2}
  Object = {o1, o2}
  Hash = {h1}
  HashOf <- OneContent
  Upload = {u1}
  TotalChunks = 2
  Faults = {"db", "minio", "redis", "crash", "cancel"}
  MaxFaults = 1
  None = None
SPECIFICATION UploadSpec
SYMMETRY Symmetric
\* when every name and id is used up, nothing is left to do
CHECK_DEADLOCK FALSE
INVARIANTS
  ReceivedIsStaged
  
