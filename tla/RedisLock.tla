----------------------------- MODULE RedisLock -----------------------------
(***************************************************************************)
(* The lease lock of server-go/internal/redislock: SET NX PX with a random *)
(* owner token, a watchdog that renews the lease every RenewInterval, a    *)
(* compare-and-delete unlock and lock-loss detection, for one Redis key.   *)
(*                                                                         *)
(* Time is a discrete clock.  Every Redis call has two halves: the server  *)
(* applies it, and the caller later sees the reply or an error; an error   *)
(* may hide a call that was applied.  A call answers within RenewInterval  *)
(* (the context timeout of a renewal; the client's read timeout for SET    *)
(* NX), and a goroutine that is due runs before the clock advances.        *)
(*                                                                         *)
(* A Client is one TryLock call and the Lock object it may return.         *)
(***************************************************************************)
EXTENDS Integers, FiniteSets

CONSTANTS
    Client,         \* callers of TryLock on this key
    Token,          \* values of randomToken()
    NoToken,        \* the key does not exist
    TTL,            \* lease length
    RenewInterval,  \* watchdog period, and timeout of one renewal
    Waits           \* the wait arguments TryLock is called with (0: one try)

ASSUME TimingAssumption ==
    /\ RenewInterval \in Nat \ {0}
    /\ TTL \in Nat
    /\ TTL >= RenewInterval
    /\ Waits \subseteq Nat

ASSUME TokenAssumption == NoToken \notin Token

VARIABLES
    now,        \* the clock
    key,        \* the Redis key: its value (a token) and its expiry time
    st,         \* caller: idle, trying (in TryLock), open (has a Lock), unlocking
    deadline,   \* when TryLock stops polling
    answer,     \* what the server did with the SET NX in flight
    tok,        \* Lock.token
    released,   \* Lock.released
    isLost,     \* Lock.isLost (and the lost channel is closed)
    wd,         \* watchdog goroutine: off, sleep (in select), call (renewing)
    lastOK,     \* watchdog's lastOK
    tick,       \* when its ticker fires next
    callAt,     \* when the renewal in flight was sent
    renewal,    \* what the server did with the renewal in flight
    leaseEnd    \* history: the latest expiry the server granted this token

callerVars == <<st, deadline, answer>>
lockVars == <<tok, released, isLost>>
watchdogVars == <<wd, lastOK, tick, callAt, renewal>>
vars == <<now, key, callerVars, lockVars, watchdogVars, leaseEnd>>

-----------------------------------------------------------------------------
(* State predicates *)

\* Redis drops a key once its expiry time is reached.
KeyLive == key.token # NoToken /\ now < key.exp

OwnsLease(c) == KeyLive /\ key.token = tok[c]

\* Lock.IsHeld: the owner still believes it holds the lock.
IsHeld(c) == st[c] = "open" /\ ~released[c] /\ ~isLost[c]

-----------------------------------------------------------------------------
(* TryLock *)

Init ==
    /\ now = 0
    /\ key = [token |-> NoToken, exp |-> 0]
    /\ st = [c \in Client |-> "idle"]
    /\ deadline = [c \in Client |-> 0]
    /\ answer = [c \in Client |-> "none"]
    /\ tok = [c \in Client |-> NoToken]
    /\ released = [c \in Client |-> FALSE]
    /\ isLost = [c \in Client |-> FALSE]
    /\ wd = [c \in Client |-> "off"]
    /\ lastOK = [c \in Client |-> 0]
    /\ tick = [c \in Client |-> 0]
    /\ callAt = [c \in Client |-> 0]
    /\ renewal = [c \in Client |-> "none"]
    /\ leaseEnd = [c \in Client |-> 0]

\* Mutant: every lock carries the same value.
FixedToken == {CHOOSE t \in Token : TRUE}

\* randomToken: 16 random bytes never repeat a token that anybody still uses.
FreshTokens == Token \ ({key.token} \union {tok[c] : c \in Client})

\* TryLock draws a fresh token and computes when to give up.
TryLock(c) ==
    /\ st[c] = "idle" /\ wd[c] = "off"
    /\ \E wait \in Waits :
           deadline' = [deadline EXCEPT ![c] = now + wait]
    /\ st' = [st EXCEPT ![c] = "trying"]
    /\ answer' = [answer EXCEPT ![c] = "none"]
    /\ \E t \in FreshTokens : tok' = [tok EXCEPT ![c] = t]
    /\ released' = [released EXCEPT ![c] = FALSE]
    /\ isLost' = [isLost EXCEPT ![c] = FALSE]
    /\ leaseEnd' = [leaseEnd EXCEPT ![c] = 0]
    /\ UNCHANGED <<now, key, watchdogVars>>

\* acquire: the server runs SET key token NX PX TTL.
Acquire(c) ==
    /\ st[c] = "trying" /\ answer[c] = "none"
    /\ IF KeyLive
       THEN /\ answer' = [answer EXCEPT ![c] = "busy"]
            /\ UNCHANGED <<key, leaseEnd>>
       ELSE /\ answer' = [answer EXCEPT ![c] = "won"]
            /\ key' = [token |-> tok[c], exp |-> now + TTL]
            /\ leaseEnd' = [leaseEnd EXCEPT ![c] = now + TTL]
    /\ UNCHANGED <<now, st, deadline, lockVars, watchdogVars>>

\* The reply says the key was set: TryLock returns a Lock and its watchdog starts.
Acquired(c) ==
    /\ st[c] = "trying" /\ answer[c] = "won"
    /\ st' = [st EXCEPT ![c] = "open"]
    /\ answer' = [answer EXCEPT ![c] = "none"]
    /\ wd' = [wd EXCEPT ![c] = "sleep"]
    /\ lastOK' = [lastOK EXCEPT ![c] = now]
    /\ tick' = [tick EXCEPT ![c] = now + RenewInterval]
    /\ renewal' = [renewal EXCEPT ![c] = "none"]
    /\ UNCHANGED <<now, key, deadline, lockVars, callAt, leaseEnd>>

\* The reply says the key exists: poll again while time remains, else report contention.
Contended(c) ==
    /\ st[c] = "trying" /\ answer[c] = "busy"
    /\ st' = [st EXCEPT ![c] = IF now < deadline[c] THEN "trying" ELSE "idle"]
    /\ answer' = [answer EXCEPT ![c] = "none"]
    /\ UNCHANGED <<now, key, deadline, lockVars, watchdogVars, leaseEnd>>

\* The call fails or the context ends: TryLock returns an error.  A SET NX that the
\* server did apply leaves a key nobody renews or deletes.
TryLockError(c) ==
    /\ st[c] = "trying"
    /\ st' = [st EXCEPT ![c] = "idle"]
    /\ answer' = [answer EXCEPT ![c] = "none"]
    /\ UNCHANGED <<now, key, deadline, lockVars, watchdogVars, leaseEnd>>

\* The reply to SET NX is lost and the Redis client sends the command again (it retries
\* network errors by itself): the second one may find the key the first one set.
Resend(c) ==
    /\ st[c] = "trying" /\ answer[c] = "won"
    /\ answer' = [answer EXCEPT ![c] = "none"]
    /\ UNCHANGED <<now, key, st, deadline, lockVars, watchdogVars, leaseEnd>>

-----------------------------------------------------------------------------
(* Watchdog *)

\* The ticker fires: send the renew script.
RenewSend(c) ==
    /\ wd[c] = "sleep" /\ now >= tick[c]
    /\ wd' = [wd EXCEPT ![c] = "call"]
    /\ callAt' = [callAt EXCEPT ![c] = now]
    /\ tick' = [tick EXCEPT ![c] = @ + RenewInterval]
    /\ renewal' = [renewal EXCEPT ![c] = "none"]
    /\ UNCHANGED <<now, key, callerVars, lockVars, lastOK, leaseEnd>>

\* renewScript: extend the lease only if the key still holds our token.
RenewScript(c) ==
    /\ wd[c] = "call" /\ renewal[c] = "none"
    /\ IF OwnsLease(c)
       THEN /\ key' = [token |-> key.token, exp |-> now + TTL]
            /\ leaseEnd' = [leaseEnd EXCEPT ![c] = now + TTL]
            /\ renewal' = [renewal EXCEPT ![c] = "extended"]
       ELSE /\ renewal' = [renewal EXCEPT ![c] = "gone"]
            /\ UNCHANGED <<key, leaseEnd>>
    /\ UNCHANGED <<now, callerVars, lockVars, wd, lastOK, tick, callAt>>

\* markLost: no effect once released.
MarkLost(c) == isLost' = [isLost EXCEPT ![c] = @ \/ ~released[c]]

\* The script answered 1.
Renewed(c) ==
    /\ wd[c] = "call" /\ renewal[c] = "extended"
    /\ lastOK' = [lastOK EXCEPT ![c] = now]
    /\ wd' = [wd EXCEPT ![c] = "sleep"]
    /\ UNCHANGED <<now, key, callerVars, lockVars, tick, callAt,
                   renewal, leaseEnd>>

\* The script answered 0: the key expired or is somebody else's.
RenewRefused(c) ==
    /\ wd[c] = "call" /\ renewal[c] = "gone"
    /\ MarkLost(c)
    /\ wd' = [wd EXCEPT ![c] = "off"]
    /\ UNCHANGED <<now, key, callerVars, tok, released, lastOK, tick,
                   callAt, renewal, leaseEnd>>

\* Mutant: keeps trying for ever.
RenewErrorNeverLost(c) ==
    /\ wd[c] = "call"
    /\ wd' = [wd EXCEPT ![c] = "sleep"]
    /\ UNCHANGED <<now, key, callerVars, lockVars, lastOK, tick, callAt, renewal, leaseEnd>>

\* The renewal failed or timed out, applied or not: give up only a TTL after the last success.
RenewError(c) ==
    /\ wd[c] = "call"
    /\ IF now - lastOK[c] >= TTL
       THEN MarkLost(c) /\ wd' = [wd EXCEPT ![c] = "off"]
       ELSE UNCHANGED isLost /\ wd' = [wd EXCEPT ![c] = "sleep"]
    /\ UNCHANGED <<now, key, callerVars, tok, released, lastOK, tick,
                   callAt, renewal, leaseEnd>>

\* Unlock closed the stop channel.
WatchdogStop(c) ==
    /\ wd[c] = "sleep" /\ released[c]
    /\ wd' = [wd EXCEPT ![c] = "off"]
    /\ UNCHANGED <<now, key, callerVars, lockVars, lastOK, tick, callAt,
                   renewal, leaseEnd>>

-----------------------------------------------------------------------------
(* Unlock and crash *)

Unlock(c) ==
    /\ st[c] = "open" /\ ~released[c]
    /\ released' = [released EXCEPT ![c] = TRUE]
    /\ st' = [st EXCEPT ![c] = "unlocking"]
    /\ UNCHANGED <<now, key, deadline, answer, tok, isLost,
                   watchdogVars, leaseEnd>>

\* Mutant: deletes the key without comparing the token.
UnlockScriptAnyToken(c) ==
    /\ st[c] = "unlocking"
    /\ key' = [token |-> NoToken, exp |-> key.exp]
    /\ st' = [st EXCEPT ![c] = "idle"]
    /\ UNCHANGED <<now, deadline, answer, lockVars, watchdogVars, leaseEnd>>

\* unlockScript: compare and delete.
UnlockScript(c) ==
    /\ st[c] = "unlocking"
    /\ key' = IF key.token = tok[c] THEN [token |-> NoToken, exp |-> key.exp] ELSE key
    /\ st' = [st EXCEPT ![c] = "idle"]
    /\ UNCHANGED <<now, deadline, answer, lockVars, watchdogVars, leaseEnd>>

\* The unlock call fails before it reaches the server; callers only log that.
UnlockError(c) ==
    /\ st[c] = "unlocking"
    /\ st' = [st EXCEPT ![c] = "idle"]
    /\ UNCHANGED <<now, key, deadline, answer, lockVars, watchdogVars,
                   leaseEnd>>

\* A caller that lost the lock drops it without Unlock (its IsHeld guard is false).
Abandon(c) ==
    /\ st[c] = "open" /\ isLost[c]
    /\ st' = [st EXCEPT ![c] = "idle"]
    /\ UNCHANGED <<now, key, deadline, answer, lockVars, watchdogVars,
                   leaseEnd>>

\* The process dies with its watchdog; the key stays until it expires.
Crash(c) ==
    /\ st[c] # "idle"
    /\ st' = [st EXCEPT ![c] = "idle"]
    /\ answer' = [answer EXCEPT ![c] = "none"]
    /\ wd' = [wd EXCEPT ![c] = "off"]
    /\ UNCHANGED <<now, key, deadline, lockVars, lastOK, tick, callAt,
                   renewal, leaseEnd>>

-----------------------------------------------------------------------------
(* The clock: it does not pass a due ticker, a call timeout or a pending SET NX reply. *)

MayPass(c) ==
    /\ wd[c] = "sleep" => now < tick[c]
    /\ wd[c] = "call" => now < callAt[c] + RenewInterval
    /\ answer[c] = "won" => now < leaseEnd[c] - TTL + RenewInterval

Advance ==
    /\ \A c \in Client : MayPass(c)
    /\ now' = now + 1
    /\ UNCHANGED <<key, callerVars, lockVars, watchdogVars, leaseEnd>>

Step(c) ==
    \/ TryLock(c) \/ Acquire(c) \/ Acquired(c) \/ Contended(c) \/ TryLockError(c)
    \/ Resend(c)
    \/ RenewSend(c) \/ RenewScript(c) \/ Renewed(c) \/ RenewRefused(c)
    \/ RenewError(c) \/ WatchdogStop(c)
    \/ Unlock(c) \/ UnlockScript(c) \/ UnlockError(c) \/ Abandon(c) \/ Crash(c)

Next == Advance \/ \E c \in Client : Step(c)

Spec == Init /\ [][Next]_vars

-----------------------------------------------------------------------------
(* Properties *)

TypeOK ==
    /\ now \in Nat
    /\ key \in [token : Token \union {NoToken}, exp : Nat]
    /\ st \in [Client -> {"idle", "trying", "open", "unlocking"}]
    /\ deadline \in [Client -> Nat]
    /\ answer \in [Client -> {"none", "busy", "won"}]
    /\ tok \in [Client -> Token \union {NoToken}]
    /\ released \in [Client -> BOOLEAN]
    /\ isLost \in [Client -> BOOLEAN]
    /\ wd \in [Client -> {"off", "sleep", "call"}]
    /\ lastOK \in [Client -> Nat]
    /\ tick \in [Client -> Nat]
    /\ callAt \in [Client -> Nat]
    /\ renewal \in [Client -> {"none", "extended", "gone"}]
    /\ leaseEnd \in [Client -> Nat]

\* Two owners never both hold a lease that has not run out: a renewal or an unlock of an
\* owner whose lease expired cannot touch its successor's (renewScript, unlockScript).
LeaseExclusive ==
    \A c, d \in Client :
        IsHeld(c) /\ IsHeld(d) /\ now < leaseEnd[c] /\ now < leaseEnd[d] => c = d

\* How long a stale belief lasts: once the server would let somebody else in, IsHeld stays
\* true for less than three renew intervals (one for a late reply, one until the next tick,
\* one for the renewal that times out).
BeliefBounded ==
    \A c \in Client : IsHeld(c) => now < leaseEnd[c] + 3 * RenewInterval

\* A lease is extended, and a key deleted, only by the owner whose token it carries; a crashed
\* owner's key is left to expire ("bounds how long a crashed owner blocks others").
OnlyOwnerTouchesLease ==
    [][KeyLive /\ key' # key =>
         \E c \in Client :
            /\ key.token = tok[c]
            /\ \/ st[c] = "unlocking" /\ key'.token = NoToken
               \/ wd[c] = "call" /\ key'.token = key.token /\ key'.exp >= key.exp]_vars
=============================================================================
