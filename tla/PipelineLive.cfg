\* Starts and revisions of one media; calls, produces and sinks fail.  No symmetry: liveness.
CONSTANTS
    m1 = m1  m2 = m2  h1 = h1
    None = None
    Media = {m1}
    Hash = {h1}
    HashOf <- SameContent
    Actions = {"START", "REVISE"}
    Worker = {w1, w2}
    Request = {r1, r2}
    Budget <- LiveBudget
    PromptUnlock = {"main", "retry10s", "retry60s"}
SPECIFICATION FairSpec
CHECK_DEADLOCK FALSE
PROPERTY TasksEnd
