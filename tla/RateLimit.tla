------------------------------ MODULE RateLimit ------------------------------
(***************************************************************************)
(* The Redis token buckets (ratelimit/limiter.go).  A tick is the time the *)
(* slowest bucket needs for one token.  A key that has expired is not      *)
(* there: Redis compares its own clock, now, with the time PEXPIRE set.    *)
(***************************************************************************)
EXTENDS Integers

CONSTANTS Key,       \* the keys of buckets
          Capacity, Refill,  \* of each bucket; Refill is per tick
          Lag,       \* how many ticks the clock of a gateway may be behind
          MaxTime    \* ticks that are modelled

ASSUME LimitAssumption ==
  /\ Capacity \in [Key -> Nat \ {0}] /\ Refill \in [Key -> Nat \ {0}]
  /\ Lag \subseteq Nat /\ MaxTime \in Nat

VARIABLES now,     \* Redis's clock
          bucket,  \* the hash of each key: tokens, ts, and when it expires
          asked    \* the latest question to a bucket and its answer

limitVars == <<now, bucket, asked>>

NoBucket == [tokens |-> 0, ts |-> 0, exp |-> 0]

LimitInit == now = 0 /\ bucket = [k \in Key |-> NoBucket] /\ asked = <<>>

Lesser(a, b) == IF a < b THEN a ELSE b
Greater(a, b) == IF a > b THEN a ELSE b

Missing(k) == bucket[k].exp <= now

\* The tokens of a key refilled up to `clock`, at most to capacity; a clock behind ts adds none.
Refilled(k, clock) == IF Missing(k) THEN Capacity[k]
                      ELSE Lesser(Capacity[k], bucket[k].tokens + Greater(0, clock - bucket[k].ts) * Refill[k])

\* Mutant: the time to live is rounded down.
TimeToLiveShort(k, tokens) == Greater(1, (Capacity[k] - tokens) \div Refill[k])

\* The ticks until the bucket is full again, rounded up.
TimeToLive(k, tokens) == Greater(1, (Capacity[k] - tokens + Refill[k] - 1) \div Refill[k])

\* takeScript: refill, take one token if there is one, and let the key expire when it would be full.
takeScript(k, clock) ==
  LET tokens == Refilled(k, clock)
      rest == IF tokens >= 1 THEN tokens - 1 ELSE tokens
  IN /\ bucket' = [bucket EXCEPT ![k] = [tokens |-> rest,
                                          ts |-> IF Missing(k) THEN clock ELSE Greater(clock, bucket[k].ts),
                                          exp |-> now + TimeToLive(k, rest)]]
     /\ asked' = <<k, tokens >= 1>>

\* Take runs the script with the clock of the gateway.
Take(k) == (\E lag \in Lag : takeScript(k, now - lag)) /\ UNCHANGED now

Granted == asked'[2]

Tick == now < MaxTime /\ now' = now + 1 /\ UNCHANGED <<bucket, asked>>

LimitNext == Tick \/ \E k \in Key : Take(k)

LimitSpec == LimitInit /\ [][LimitNext]_limitVars

----------------------------------------------------------------------------
\* What a bucket holds now.
Level(k) == Refilled(k, now)

Ideal == INSTANCE TokenBucket WITH level <- [k \in Key |-> Level(k)]

\* "an idle bucket is indistinguishable from a missing one": with the key, without it and after it has expired, the
\* script answers as an ideal bucket does that is refilled all the time and never forgotten.
BucketsAreIdeal == Ideal!Spec
=============================================================================
