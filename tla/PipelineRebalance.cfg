\* Two users' tasks of the same video; any four of: analyses that fail, partitions that change hands while workers
\* are busy, the deletion of a media, a replay.
CONSTANTS
    m1 = m1  m2 = m2  h1 = h1
    None = None
    Media = {m1, m2}
    Hash = {h1}
    HashOf <- SameContent
    Actions = {"START"}
    Worker = {w1, w2}
    Request = {r1, r2}
    Budget <- RebalanceBudget
    PromptUnlock = {"main", "retry10s", "retry60s"}
SPECIFICATION Spec
SYMMETRY Symmetric
CHECK_DEADLOCK FALSE
INVARIANTS  RetryKeepsActive   
    CommitImpliesHandled AbsorbsRedelivery
