\* The current worker and a detached one.
CONSTANTS
    N = 3
    MaxBatch = 2
    Worker = {w1, w2}
    None = None
SPECIFICATION FairSpec
\* After a shutdown the member does nothing more.
CHECK_DEADLOCK FALSE
INVARIANTS NothingSkipped 
PROPERTY EveryRecordHandled
