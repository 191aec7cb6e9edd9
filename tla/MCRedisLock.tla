---------------------------- MODULE MCRedisLock ----------------------------
(***************************************************************************)
(* Model-checking instance of RedisLock.  The clock is not bounded: View   *)
(* identifies states that differ only by the date, by how long ago a lease *)
(* ran out or by the names of the tokens, none of which an action or a     *)
(* property tells apart, and TLC's state graph is finite.                  *)
(***************************************************************************)
EXTENDS RedisLock

MCWaits == {0, 3}

Left(t) == IF t > now THEN t - now ELSE 0

\* The oldest lease end that BeliefBounded still distinguishes.
LeaseAge(c) ==
    IF leaseEnd[c] + 3 * RenewInterval > now THEN leaseEnd[c] - now ELSE -3 * RenewInterval

WatchdogView(c) ==
    CASE wd[c] = "off"   -> <<"off">>
      [] wd[c] = "sleep" -> <<"sleep", now - lastOK[c], tick[c] - now>>
      [] wd[c] = "call"  -> <<"call", now - lastOK[c], tick[c] - now, now - callAt[c], renewal[c]>>

ClientView(c) ==
    <<st[c], answer[c], released[c], isLost[c], OwnsLease(c), WatchdogView(c),
      IF st[c] = "trying" THEN Left(deadline[c]) ELSE 0,
      IF st[c] \in {"trying", "open"} THEN LeaseAge(c) ELSE 0>>

View == <<[c \in Client |-> ClientView(c)], KeyLive, IF KeyLive THEN key.exp - now ELSE 0>>
=============================================================================
