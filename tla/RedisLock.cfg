\* Lease 6 and renew interval 2 keep the code's ratio (30s, 10s).  At most three tokens are in
\* use (two locks, and a key a third one left behind), so a fourth is always fresh.
CONSTANTS
    NoToken = NoToken
    Client = {c1, c2}
    Token = {t1, t2, t3, t4}
    TTL = 6
    RenewInterval = 2
    Waits <- MCWaits
SPECIFICATION Spec
VIEW View
INVARIANTS LeaseExclusive BeliefBounded
PROPERTY OnlyOwnerTouchesLease
