CONSTANTS
  Process = {p1, p2}
  Media = {m1, m2}
  Frame = {f1}
  Segment = {s1, s2}
  Faults = {"db", "redis", "minio", "pool", "agent", "crash"}
  MaxFaults = 2
  None = None
SPECIFICATION Spec
SYMMETRY Symmetry
\* with every media deleted, nothing is left to do
CHECK_DEADLOCK FALSE
INVARIANTS
  FramesStand
  
  DeletedLeavesNothing
  
PROPERTIES
  ContextStands
