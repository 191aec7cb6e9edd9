\* A browser whose reconnections reach two gateways; connections to Redis and to the browser break.
CONSTANTS
    Gateway = {g1, g2}
    Stream = {s1}
    Final = 3
    Buffer = 2
    MaxFaults = 2
    None = None
SPECIFICATION FairSpec
\* The browser is done and the task has ended.
CHECK_DEADLOCK FALSE
INVARIANTS  NothingMissedSinceSubscribe
PROPERTY EveryBrowserLearnsTheEnd
