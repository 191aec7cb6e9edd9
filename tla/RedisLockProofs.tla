-------------------------- MODULE RedisLockProofs --------------------------
(***************************************************************************)
(* Proofs about RedisLock for every set of clients, every lease length and *)
(* every renew interval that satisfy the module's assumptions.             *)
(***************************************************************************)
EXTENDS RedisLock, TLAPS

(* Timing: how far each clock the watchdog keeps can drift from the lease. *)
Timing(c) ==
    /\ st[c] = "trying" => wd[c] = "off"
    /\ answer[c] # "none" => st[c] = "trying"
    /\ answer[c] = "won" => now <= leaseEnd[c] - TTL + RenewInterval
    /\ IsHeld(c) => wd[c] # "off"
    /\ wd[c] # "off" => lastOK[c] <= now /\ lastOK[c] <= leaseEnd[c] - TTL + RenewInterval
    /\ wd[c] = "sleep" => now <= tick[c] /\ tick[c] < lastOK[c] + TTL + RenewInterval
    /\ wd[c] = "call" =>
          /\ callAt[c] = tick[c] - RenewInterval
          /\ callAt[c] <= now /\ now <= callAt[c] + RenewInterval
          /\ callAt[c] < lastOK[c] + TTL + RenewInterval
    /\ wd[c] = "call" /\ renewal[c] = "extended" => leaseEnd[c] >= callAt[c] + TTL

TimingInv == TypeOK /\ \A c \in Client : Timing(c)

(* Ownership: an unexpired grant that nobody gave up is the key in Redis. *)
Claim(c) ==
    /\ now < leaseEnd[c]
    /\ (st[c] = "open" /\ ~released[c]) \/ answer[c] = "won"

Owned(c) ==
    /\ st[c] # "idle" => tok[c] \in Token
    /\ answer[c] # "none" => st[c] = "trying"
    /\ Claim(c) => key.token = tok[c] /\ key.exp = leaseEnd[c]

OwnershipInv ==
    /\ TypeOK
    /\ key.exp <= now + TTL
    /\ \A c, d \in Client : c # d /\ tok[c] = tok[d] => tok[c] = NoToken
    /\ \A c \in Client : Owned(c)

LEMMA TypeInit == Init => TypeOK
BY TimingAssumption DEF Init, TypeOK

LEMMA TypeNext == TypeOK /\ [Next]_vars => TypeOK'
<1> SUFFICES ASSUME TypeOK, [Next]_vars PROVE TypeOK'
    OBVIOUS
<1> USE TimingAssumption DEF TypeOK
<1>1. CASE Advance
    BY <1>1 DEF Advance, callerVars, lockVars, watchdogVars
<1>2. ASSUME NEW c \in Client, Step(c) PROVE TypeOK'
    <2>1. CASE TryLock(c)
        BY <2>1 DEF TryLock, FreshTokens, watchdogVars
    <2>2. CASE Acquire(c)
        BY <2>2 DEF Acquire, lockVars, watchdogVars
    <2>3. CASE Acquired(c)
        BY <2>3 DEF Acquired, lockVars
    <2>4. CASE Contended(c)
        BY <2>4 DEF Contended, lockVars, watchdogVars
    <2>5. CASE TryLockError(c) \/ Resend(c)
        BY <2>5 DEF TryLockError, Resend, lockVars, watchdogVars
    <2>6. CASE RenewSend(c)
        BY <2>6 DEF RenewSend, callerVars, lockVars
    <2>7. CASE RenewScript(c)
        BY <2>7 DEF RenewScript, callerVars, lockVars
    <2>8. CASE Renewed(c)
        BY <2>8 DEF Renewed, callerVars, lockVars
    <2>9. CASE RenewRefused(c) \/ RenewError(c)
        BY <2>9 DEF RenewRefused, RenewError, MarkLost, callerVars
    <2>10. CASE WatchdogStop(c)
        BY <2>10 DEF WatchdogStop, callerVars, lockVars
    <2>11. CASE Unlock(c)
        BY <2>11 DEF Unlock, watchdogVars
    <2>12. CASE UnlockScript(c) \/ UnlockError(c) \/ Abandon(c)
        BY <2>12 DEF UnlockScript, UnlockError, Abandon, lockVars, watchdogVars
    <2>13. CASE Crash(c)
        BY <2>13 DEF Crash, lockVars
    <2> QED
        BY <1>2, <2>1, <2>2, <2>3, <2>4, <2>5, <2>6, <2>7, <2>8, <2>9, <2>10, <2>11,
           <2>12, <2>13 DEF Step
<1>3. CASE UNCHANGED vars
    BY <1>3 DEF vars, callerVars, lockVars, watchdogVars
<1> QED
    BY <1>1, <1>2, <1>3 DEF Next

\* Every reachable state is well typed.
THEOREM TypeCorrect == Spec => []TypeOK
BY TypeInit, TypeNext, PTL DEF Spec
-----------------------------------------------------------------------------

LEMMA TimingInit == Init => TimingInv
BY TypeInit, TimingAssumption DEF Init, TimingInv, Timing, IsHeld

\* A step of one client leaves what Timing says of the others alone.
LEMMA TimingFrame ==
    ASSUME NEW c \in Client, NEW d \in Client, c # d, TypeOK, Step(c), Timing(d)
    PROVE  Timing(d)'
<1> USE DEF TypeOK, Timing, IsHeld
<1>1. CASE TryLock(c) \/ Acquire(c) \/ Acquired(c)
    BY <1>1 DEF TryLock, Acquire, Acquired, callerVars, lockVars, watchdogVars
<1>2. CASE Contended(c) \/ TryLockError(c) \/ Resend(c)
    BY <1>2 DEF Contended, TryLockError, Resend, callerVars, lockVars, watchdogVars
<1>3. CASE RenewSend(c) \/ RenewScript(c) \/ Renewed(c)
    BY <1>3 DEF RenewSend, RenewScript, Renewed, callerVars, lockVars
<1>4. CASE RenewRefused(c) \/ RenewError(c) \/ WatchdogStop(c)
    BY <1>4 DEF RenewRefused, RenewError, MarkLost, WatchdogStop, callerVars, lockVars
<1>5. CASE Unlock(c) \/ UnlockScript(c) \/ UnlockError(c) \/ Abandon(c) \/ Crash(c)
    BY <1>5 DEF Unlock, UnlockScript, UnlockError, Abandon, Crash, lockVars, watchdogVars
<1> QED
    BY <1>1, <1>2, <1>3, <1>4, <1>5 DEF Step

LEMMA TimingStep ==
    ASSUME NEW c \in Client, TypeOK, Step(c), Timing(c)
    PROVE  Timing(c)'
<1> USE TimingAssumption DEF TypeOK, Timing, IsHeld
<1>1. CASE TryLock(c)
    BY <1>1 DEF TryLock, watchdogVars
<1>2. CASE Acquire(c)
    BY <1>2 DEF Acquire, lockVars, watchdogVars
<1>3. CASE Acquired(c)
    BY <1>3 DEF Acquired, lockVars
<1>4. CASE Contended(c) \/ TryLockError(c) \/ Resend(c)
    BY <1>4 DEF Contended, TryLockError, Resend, lockVars, watchdogVars
<1>5. CASE RenewSend(c)
    BY <1>5 DEF RenewSend, callerVars, lockVars
<1>6. CASE RenewScript(c)
    BY <1>6 DEF RenewScript, callerVars, lockVars
<1>7. CASE Renewed(c)
    BY <1>7 DEF Renewed, callerVars, lockVars
<1>8. CASE RenewRefused(c)
    BY <1>8 DEF RenewRefused, MarkLost, callerVars
<1>9. CASE RenewError(c)
    <2>1. CASE now - lastOK[c] >= TTL
        <3>1. wd'[c] = "off" /\ (isLost'[c] \/ released'[c])
            BY <1>9, <2>1 DEF RenewError, MarkLost
        <3> QED
            BY <1>9, <3>1 DEF RenewError, callerVars
    <2>2. CASE ~(now - lastOK[c] >= TTL)
        BY <1>9, <2>2 DEF RenewError, callerVars
    <2> QED
        BY <2>1, <2>2
<1>10. CASE WatchdogStop(c)
    BY <1>10 DEF WatchdogStop, callerVars, lockVars
<1>11. CASE Unlock(c)
    BY <1>11 DEF Unlock, watchdogVars
<1>12. CASE UnlockScript(c) \/ UnlockError(c) \/ Abandon(c) \/ Crash(c)
    BY <1>12 DEF UnlockScript, UnlockError, Abandon, Crash, lockVars, watchdogVars
<1> QED
    BY <1>1, <1>2, <1>3, <1>4, <1>5, <1>6, <1>7, <1>8, <1>9, <1>10, <1>11, <1>12 DEF Step

LEMMA TimingNext == TimingInv /\ [Next]_vars => TimingInv'
<1> SUFFICES ASSUME TimingInv, [Next]_vars PROVE TimingInv'
    OBVIOUS
<1>1. TypeOK'
    BY TypeNext DEF TimingInv
<1>2. ASSUME NEW d \in Client PROVE Timing(d)'
    <2>1. CASE Advance
        BY <2>1, TimingAssumption
        DEF Advance, MayPass, TimingInv, Timing, IsHeld, TypeOK, callerVars, lockVars,
            watchdogVars
    <2>2. CASE \E c \in Client : Step(c)
        BY <2>2, TimingFrame, TimingStep DEF TimingInv
    <2>3. CASE UNCHANGED vars
        BY <2>3 DEF TimingInv, Timing, IsHeld, vars, callerVars, lockVars, watchdogVars
    <2> QED
        BY <2>1, <2>2, <2>3 DEF Next
<1> QED
    BY <1>1, <1>2 DEF TimingInv

LEMMA TimingImpliesBounded == TimingInv => BeliefBounded
BY TimingAssumption DEF TimingInv, Timing, BeliefBounded, TypeOK, IsHeld

\* A caller that still believes in a lock whose lease ran out stops believing in it within
\* three renew intervals, whatever Redis does to the renewals.
THEOREM StaleBeliefIsBounded == Spec => []BeliefBounded
<1>1. Spec => []TimingInv
    BY TimingInit, TimingNext, PTL DEF Spec
<1> QED
    BY <1>1, TimingImpliesBounded, PTL

-----------------------------------------------------------------------------

LEMMA OwnershipInit == Init => OwnershipInv
BY TypeInit, TimingAssumption, TokenAssumption DEF Init, OwnershipInv, Owned, Claim

\* The three steps that write the key; the others only give claims up.
LEMMA OwnershipStep ==
    ASSUME NEW c \in Client, OwnershipInv, Step(c)
    PROVE  /\ key'.exp <= now' + TTL
           /\ \A a, b \in Client : a # b /\ tok'[a] = tok'[b] => tok'[a] = NoToken
           /\ \A d \in Client : Owned(d)'
<1> USE TimingAssumption, TokenAssumption DEF TypeOK, OwnershipInv, Owned, Claim
<1>1. CASE TryLock(c)
    BY <1>1 DEF TryLock, FreshTokens, watchdogVars
<1>2. CASE Acquire(c)
    BY <1>2 DEF Acquire, KeyLive, lockVars, watchdogVars
<1>3. CASE Acquired(c)
    BY <1>3 DEF Acquired, lockVars
<1>4. CASE Contended(c) \/ TryLockError(c) \/ Resend(c)
    BY <1>4 DEF Contended, TryLockError, Resend, lockVars, watchdogVars
<1>5. CASE RenewScript(c)
    BY <1>5 DEF RenewScript, OwnsLease, KeyLive, callerVars, lockVars
<1>6. CASE RenewSend(c) \/ Renewed(c) \/ WatchdogStop(c)
    BY <1>6 DEF RenewSend, Renewed, WatchdogStop, callerVars, lockVars
<1>7. CASE RenewRefused(c) \/ RenewError(c)
    BY <1>7 DEF RenewRefused, RenewError, MarkLost, callerVars
<1>8. CASE Unlock(c)
    BY <1>8 DEF Unlock, watchdogVars
<1>9. CASE UnlockScript(c)
    BY <1>9 DEF UnlockScript, lockVars, watchdogVars
<1>10. CASE UnlockError(c) \/ Abandon(c) \/ Crash(c)
    BY <1>10 DEF UnlockError, Abandon, Crash, lockVars, watchdogVars
<1> QED
    BY <1>1, <1>2, <1>3, <1>4, <1>5, <1>6, <1>7, <1>8, <1>9, <1>10 DEF Step

LEMMA OwnershipNext == OwnershipInv /\ [Next]_vars => OwnershipInv'
<1> SUFFICES ASSUME OwnershipInv, [Next]_vars PROVE OwnershipInv'
    OBVIOUS
<1>1. TypeOK'
    BY TypeNext DEF OwnershipInv
<1>2. CASE Advance
    BY <1>1, <1>2, TimingAssumption
    DEF Advance, OwnershipInv, Owned, Claim, TypeOK, callerVars, lockVars, watchdogVars
<1>3. CASE \E c \in Client : Step(c)
    BY <1>1, <1>3, OwnershipStep DEF OwnershipInv
<1>4. CASE UNCHANGED vars
    BY <1>1, <1>4 DEF OwnershipInv, Owned, Claim, vars, callerVars, lockVars, watchdogVars
<1> QED
    BY <1>2, <1>3, <1>4 DEF Next

LEMMA OwnershipImpliesExclusive == OwnershipInv => LeaseExclusive
BY TokenAssumption DEF OwnershipInv, Owned, Claim, LeaseExclusive, IsHeld, TypeOK

\* Mutual exclusion of the lease: while the leases last, at most one caller holds the lock.
THEOREM LeaseIsExclusive == Spec => []LeaseExclusive
<1>1. Spec => []OwnershipInv
    BY OwnershipInit, OwnershipNext, PTL DEF Spec
<1> QED
    BY <1>1, OwnershipImpliesExclusive, PTL

\* A live key is deleted only by its owner's Unlock and extended only by its owner's watchdog.
THEOREM OwnerOnly == Spec => OnlyOwnerTouchesLease
<1> DEFINE Touch ==
        KeyLive /\ key' # key =>
          \E c \in Client :
            /\ key.token = tok[c]
            /\ \/ st[c] = "unlocking" /\ key'.token = NoToken
               \/ wd[c] = "call" /\ key'.token = key.token /\ key'.exp >= key.exp
<1>1. Spec => []OwnershipInv
    BY OwnershipInit, OwnershipNext, PTL DEF Spec
<1>2. OwnershipInv /\ [Next]_vars => [Touch]_vars
    <2> SUFFICES ASSUME OwnershipInv, [Next]_vars PROVE [Touch]_vars
        OBVIOUS
    <2> USE TimingAssumption DEF OwnershipInv, TypeOK
    <2>1. ASSUME NEW c \in Client, Step(c) PROVE Touch
        <3>1. CASE Acquire(c)
            BY <3>1 DEF Acquire
        <3>2. CASE RenewScript(c)
            BY <3>2 DEF RenewScript, OwnsLease
        <3>3. CASE UnlockScript(c)
            BY <3>3 DEF UnlockScript
        <3>4. CASE ~(Acquire(c) \/ RenewScript(c) \/ UnlockScript(c))
            BY <2>1, <3>4
            DEF Step, TryLock, Acquired, Contended, TryLockError, Resend, RenewSend,
                Renewed, RenewRefused, RenewError, WatchdogStop, Unlock, UnlockError,
                Abandon, Crash
        <3> QED
            BY <3>1, <3>2, <3>3, <3>4
    <2>2. CASE Advance
        BY <2>2 DEF Advance
    <2>3. CASE UNCHANGED vars
        BY <2>3
    <2> QED
        BY <2>1, <2>2, <2>3 DEF Next
<1> QED
    BY <1>1, <1>2, PTL DEF Spec, OnlyOwnerTouchesLease
=============================================================================
