\* Any two faults of different kinds.
CONSTANTS
    m1 = m1  m2 = m2  h1 = h1
    None = None
    Media = {m1}
    Hash = {h1}
    HashOf <- SameContent
    Actions = {"START", "REVISE"}
    Worker = {w1, w2}
    Request = {r1, r2}
    Budget <- StormBudget
    PromptUnlock = {"main", "retry10s", "retry60s"}
SPECIFICATION Spec
SYMMETRY Symmetric
CHECK_DEADLOCK FALSE
INVARIANTS FailureIsRecorded
