--------------------------- MODULE AdmissionProofs ---------------------------
(***************************************************************************)
(* The bucket script implements an ideal bucket, for any keys, capacities, *)
(* rates and times, as long as the gateways' clocks agree with Redis's;    *)
(* and what the handlers of accounts, allowance, pool and transcription    *)
(* keep, for any number of clients, users, tasks, requests and failures.   *)
(***************************************************************************)
EXTENDS Admission, FiniteSetTheorems, TLAPS

----------------------------------------------------------------------------
(* Arithmetic                                                              *)

\* Rounded up, the time to live is enough to fill the bucket.
LEMMA TimeToLiveSuffices ==
  ASSUME NEW c \in Nat, NEW t \in 0 .. c, NEW f \in Nat \ {0}
  PROVE  /\ (c - t + f - 1) \div f \in Nat
         /\ t + ((c - t + f - 1) \div f) * f >= c
<1> DEFINE a == c - t + f - 1
           d == a \div f
<1>1. a \in Nat
  OBVIOUS
<1> HIDE DEF a
<1>2. d \in Nat /\ a < f * d + f
  BY <1>1, SMT
<1> HIDE DEF d
<1>3. f * d = d * f /\ d * f \in Int
  BY <1>2, SMT
<1>4. t + d * f >= c
  BY <1>2, <1>3, SMT DEF a
<1> QED BY <1>2, <1>4 DEF a, d

LEMMA OneMoreTick ==
  ASSUME NEW n \in Int, NEW f \in Nat
  PROVE  (n + 1) * f = n * f + f /\ n * f \in Int
  BY SMT

----------------------------------------------------------------------------
(* The invariant                                                           *)

Bucket == [tokens : Nat, ts : Nat, exp : Nat]

\* A key that is there was written in the past and is full when it expires.
BucketInv ==
  /\ now \in Nat
  /\ bucket \in [Key -> Bucket]
  /\ \A k \in Key : /\ bucket[k].tokens <= Capacity[k]
                    /\ bucket[k].ts <= now
                    /\ bucket[k].exp > now
                         => bucket[k].tokens + (bucket[k].exp - bucket[k].ts) * Refill[k] >= Capacity[k]

LEMMA InvInit == ASSUME LimitInit PROVE BucketInv
  BY LimitAssumption DEF LimitInit, BucketInv, Bucket, NoBucket

\* What a bucket holds is between nothing and its capacity.
LEMMA LevelBounds ==
  ASSUME BucketInv, NEW k \in Key
  PROVE  Level(k) \in 0 .. Capacity[k]
<1>1. Greater(0, now - bucket[k].ts) \in Nat /\ Refill[k] \in Nat /\ Capacity[k] \in Nat /\ bucket[k].tokens \in Nat
  BY LimitAssumption DEF BucketInv, Bucket, Greater
<1>2. Greater(0, now - bucket[k].ts) * Refill[k] \in Nat
  BY <1>1, SMT
<1> QED BY <1>1, <1>2 DEF Level, Refilled, Lesser

\* The script, run with Redis's clock, leaves the rest of what the bucket held.
LEMMA ScriptWrites ==
  ASSUME BucketInv, NEW k \in Key, takeScript(k, now)
  PROVE  LET rest == IF Level(k) >= 1 THEN Level(k) - 1 ELSE Level(k)
         IN /\ rest \in 0 .. Capacity[k]
            /\ \E life \in Nat \ {0} : /\ rest + life * Refill[k] >= Capacity[k]
                                       /\ bucket' = [bucket EXCEPT ![k] = [tokens |-> rest, ts |-> now, exp |-> now + life]]
            /\ asked' = <<k, Level(k) >= 1>>
<1> DEFINE rest == IF Level(k) >= 1 THEN Level(k) - 1 ELSE Level(k)
           up == (Capacity[k] - rest + Refill[k] - 1) \div Refill[k]
           life == TimeToLive(k, rest)
<1>1. Level(k) \in 0 .. Capacity[k] /\ rest \in 0 .. Capacity[k] /\ Capacity[k] \in Nat /\ Refill[k] \in Nat \ {0}
  BY LevelBounds, LimitAssumption
<1>2. up \in Nat /\ rest + up * Refill[k] >= Capacity[k]
  BY <1>1, TimeToLiveSuffices
<1>3. life = Greater(1, up)
  BY DEF TimeToLive
<1>4. life \in Nat \ {0} /\ life >= up
  <2> HIDE DEF up, life
  <2> QED BY <1>2, <1>3 DEF Greater
<1>5. rest + life * Refill[k] >= Capacity[k]
  <2> HIDE DEF up, life, rest
  <2>1. life * Refill[k] >= up * Refill[k] /\ life * Refill[k] \in Int /\ up * Refill[k] \in Int
    BY <1>1, <1>2, <1>4, SMT
  <2> QED BY <1>1, <1>2, <2>1
<1>6. (IF Missing(k) THEN now ELSE Greater(now, bucket[k].ts)) = now
  BY DEF BucketInv, Bucket, Greater
<1>7. /\ bucket' = [bucket EXCEPT ![k] = [tokens |-> rest, ts |-> now, exp |-> now + life]]
      /\ asked' = <<k, Level(k) >= 1>>
  BY <1>6 DEF takeScript, Level
<1> QED BY <1>1, <1>4, <1>5, <1>7

LEMMA TakeIsScript == ASSUME Lag = {0}, BucketInv, NEW k \in Key, Take(k) PROVE takeScript(k, now) /\ now' = now
<1>1. now - 0 = now
  BY DEF BucketInv
<1> QED BY <1>1 DEF Take

LEMMA InvNext == ASSUME Lag = {0}, BucketInv, [LimitNext]_limitVars PROVE BucketInv'
<1>1. CASE Tick
  BY <1>1, LimitAssumption DEF Tick, BucketInv, Bucket
<1>2. ASSUME NEW k \in Key, Take(k) PROVE BucketInv'
  <2> DEFINE rest == IF Level(k) >= 1 THEN Level(k) - 1 ELSE Level(k)
  <2>1. now' = now /\ takeScript(k, now)
    BY <1>2, TakeIsScript
  <2>2. PICK life \in Nat \ {0} :
          /\ rest \in 0 .. Capacity[k]
          /\ rest + life * Refill[k] >= Capacity[k]
          /\ bucket' = [bucket EXCEPT ![k] = [tokens |-> rest, ts |-> now, exp |-> now + life]]
    BY <2>1, ScriptWrites
  <2> HIDE DEF rest
  <2>3. now \in Nat /\ (now + life) - now = life /\ rest \in Nat /\ now + life \in Nat
    BY <2>2, LimitAssumption DEF BucketInv
  <2>4. bucket' \in [Key -> Bucket]
    BY <2>2, <2>3 DEF BucketInv, Bucket
  <2>5. ASSUME NEW j \in Key
        PROVE  /\ bucket'[j].tokens <= Capacity[j]
               /\ bucket'[j].ts <= now
               /\ bucket'[j].exp > now
                    => bucket'[j].tokens + (bucket'[j].exp - bucket'[j].ts) * Refill[j] >= Capacity[j]
    <3>1. CASE j = k
      <4>1. bucket'[j] = [tokens |-> rest, ts |-> now, exp |-> now + life]
        BY <2>2, <3>1 DEF BucketInv
      <4> QED BY <2>2, <2>3, <3>1, <4>1, LimitAssumption
    <3>2. CASE j # k
      <4>1. bucket'[j] = bucket[j]
        BY <2>2, <3>2 DEF BucketInv
      <4> QED BY <4>1 DEF BucketInv
    <3> QED BY <3>1, <3>2
  <2> QED BY <2>1, <2>3, <2>4, <2>5 DEF BucketInv
<1>3. CASE UNCHANGED limitVars
  BY <1>3 DEF limitVars, BucketInv
<1> QED BY <1>1, <1>2, <1>3 DEF LimitNext

----------------------------------------------------------------------------
(* Refinement                                                              *)

\* A tick adds what the rate says, also to a key that expires with it.
LEMMA TickRefills ==
  ASSUME BucketInv, Tick, NEW k \in Key
  PROVE  Level(k)' = Ideal!AtMost(Level(k) + Refill[k], Capacity[k])
<1> DEFINE b == bucket[k]
           n == now - b.ts
<1>1. /\ bucket' = bucket /\ now' = now + 1 /\ now \in Nat /\ b \in Bucket /\ n \in Nat
      /\ Capacity[k] \in Nat /\ Refill[k] \in Nat \ {0}
  BY LimitAssumption DEF BucketInv, Bucket, Tick
<1>2. (n + 1) * Refill[k] = n * Refill[k] + Refill[k] /\ n * Refill[k] \in Nat
  <2> HIDE DEF n
  <2> QED BY <1>1, SMT
<1>3. CASE b.exp <= now
  BY <1>1, <1>3 DEF Level, Refilled, Missing, Ideal!AtMost, Bucket
<1>4. CASE b.exp > now
  <2>1. Level(k) = Lesser(Capacity[k], b.tokens + n * Refill[k])
    BY <1>1, <1>4 DEF Level, Refilled, Missing, Greater, Bucket
  <2>2. CASE b.exp > now + 1
    <3>1. Level(k)' = Lesser(Capacity[k], b.tokens + (n + 1) * Refill[k])
      BY <1>1, <2>2 DEF Level, Refilled, Missing, Greater, Bucket
    <3> HIDE DEF n
    <3> QED BY <1>1, <1>2, <2>1, <3>1 DEF Lesser, Ideal!AtMost, Bucket
  <2>3. CASE b.exp = now + 1
    <3>1. Level(k)' = Capacity[k]
      BY <1>1, <2>3 DEF Level, Refilled, Missing, Bucket
    <3>2. b.exp - b.ts = n + 1
      BY <1>1, <2>3 DEF Bucket
    <3>3. b.tokens + (n + 1) * Refill[k] >= Capacity[k]
      BY <1>4, <3>2 DEF BucketInv
    <3> DEFINE x == b.tokens + n * Refill[k]
    <3>4. x \in Nat /\ x + Refill[k] >= Capacity[k]
      <4> HIDE DEF n
      <4> QED BY <1>1, <1>2, <3>3 DEF Bucket
    <3>5. Level(k) = Lesser(Capacity[k], x)
      BY <2>1
    <3> HIDE DEF x
    <3> QED BY <1>1, <3>1, <3>4, <3>5 DEF Lesser, Ideal!AtMost
  <2> QED BY <1>1, <1>4, <2>2, <2>3 DEF Bucket
<1> QED BY <1>1, <1>3, <1>4 DEF Bucket

\* Taking a token, or finding none, is what the ideal bucket does.
LEMMA TakeRefines ==
  ASSUME Lag = {0}, BucketInv, NEW k \in Key, Take(k)
  PROVE  Ideal!Grant(k) \/ Ideal!Refuse(k)
<1> DEFINE rest == IF Level(k) >= 1 THEN Level(k) - 1 ELSE Level(k)
           level == [j \in Key |-> Level(j)]
<1>1. now' = now /\ takeScript(k, now)
  BY TakeIsScript
<1>2. PICK life \in Nat \ {0} :
        /\ rest \in 0 .. Capacity[k]
        /\ bucket' = [bucket EXCEPT ![k] = [tokens |-> rest, ts |-> now, exp |-> now + life]]
        /\ asked' = <<k, Level(k) >= 1>>
  BY <1>1, ScriptWrites
<1>3. now \in Nat /\ Capacity[k] \in Nat /\ Refill[k] \in Nat /\ Level(k) \in Nat
  BY LevelBounds, LimitAssumption DEF BucketInv
<1>4. Level(k)' = rest
  <2> HIDE DEF rest
  <2>1. bucket'[k] = [tokens |-> rest, ts |-> now, exp |-> now + life]
    BY <1>2 DEF BucketInv
  <2>2. Greater(0, now - now) * Refill[k] = 0
    BY <1>3 DEF Greater
  <2>3. Level(k)' = Lesser(Capacity[k], rest + Greater(0, now - now) * Refill[k])
    BY <1>1, <1>2, <1>3, <2>1 DEF Level, Refilled, Missing
  <2> QED BY <1>2, <1>3, <2>2, <2>3 DEF Lesser
<1>5. ASSUME NEW j \in Key, j # k PROVE Level(j)' = Level(j)
  <2>1. bucket'[j] = bucket[j]
    BY <1>2, <1>5 DEF BucketInv
  <2> QED BY <1>1, <2>1 DEF Level, Refilled, Missing
<1>6. level' = [level EXCEPT ![k] = rest]
  <2> HIDE DEF rest
  <2> QED BY <1>4, <1>5
<1>7. CASE Level(k) >= 1
  <2>1. asked' = <<k, TRUE>>
    BY <1>2, <1>7
  <2>2. level[k] = Level(k) /\ rest = level[k] - 1
    BY <1>7
  <2>3. level[k] >= 1 /\ level' = [level EXCEPT ![k] = @ - 1]
    <3> HIDE DEF rest, level
    <3> QED BY <1>6, <1>7, <2>2
  <2> QED BY <2>1, <2>3 DEF Ideal!Grant
<1>8. CASE ~(Level(k) >= 1)
  <2>0. (Level(k) >= 1) = FALSE
    BY <1>3, <1>8
  <2>1. asked' = <<k, FALSE>>
    BY <1>2, <2>0, Zenon
  <2>2. level[k] = Level(k) /\ Level(k) = 0 /\ rest = level[k]
    BY <1>3, <1>8
  <2>3. level \in [Key -> {Level(j) : j \in Key}]
    OBVIOUS
  <2>4. level[k] = 0 /\ level' = level
    <3> HIDE DEF rest, level
    <3> QED BY <1>6, <2>2, <2>3
  <2> QED BY <2>1, <2>4 DEF Ideal!Refuse
<1> QED BY <1>7, <1>8

LEMMA StepRefines ==
  ASSUME Lag = {0}, BucketInv, [LimitNext]_limitVars
  PROVE  [Ideal!Next]_<<[k \in Key |-> Level(k)], asked>>
<1>1. CASE Tick
  <2>1. asked' = asked
    BY <1>1 DEF Tick
  <2> QED BY <1>1, <2>1, TickRefills DEF Ideal!Next, Ideal!Tick
<1>2. ASSUME NEW k \in Key, Take(k) PROVE Ideal!Next
  BY <1>2, TakeRefines DEF Ideal!Next
<1>3. CASE UNCHANGED limitVars
  BY <1>3 DEF limitVars, Level, Refilled, Missing
<1> QED BY <1>1, <1>2, <1>3 DEF LimitNext

\* The key in Redis that expires when its bucket is full answers as an ideal bucket does (limiter.go: "an idle bucket
\* is indistinguishable from a missing one").
THEOREM ScriptIsIdeal ==
  ASSUME Lag = {0}
  PROVE  LimitSpec => BucketsAreIdeal
<1>1. LimitInit => Ideal!Init /\ BucketInv
  <2>1. ASSUME LimitInit PROVE [k \in Key |-> Level(k)] = Capacity /\ asked = <<>>
    BY <2>1, LimitAssumption DEF LimitInit, NoBucket, Level, Refilled, Missing
  <2> QED BY <2>1, InvInit DEF Ideal!Init
<1>2. BucketInv /\ [LimitNext]_limitVars => BucketInv'
  BY InvNext
<1>3. BucketInv /\ [LimitNext]_limitVars => [Ideal!Next]_<<[k \in Key |-> Level(k)], asked>>
  BY StepRefines
<1> QED BY <1>1, <1>2, <1>3, PTL DEF LimitSpec, BucketsAreIdeal, Ideal!Spec

----------------------------------------------------------------------------
(* Types                                                                   *)

LoginSteps == {"create", "verify", "record", "expire", "rehash", "clear", "session"}
TextSteps == {"textQueued", "textSubmit", "textRefused", "textClear", "textFail"}
PaidSteps == {"askUser", "askGlobal", "askSubmit", "await", "routeUser", "routeGlobal", "routeSubmit"}
ClientSteps == {"idle", "ask", "route", "askRefused"} \cup LoginSteps \cup TextSteps \cup PaidSteps
RunSteps == {"find", "found", "asr", "done", "failed", "clear"}
TaskSteps == {"none", "queued", "call", "over"} \cup RunSteps

AccountTypes ==
  /\ pc \in [Client -> ClientSteps] /\ user \in [Client -> User \cup {None}]
  /\ session \in [Client -> User \cup {None}]
  /\ failures \in [User -> Nat] /\ armed \in [User -> BOOLEAN] /\ guesses \in [User -> Nat]
  /\ faults \in Nat
  /\ \A c \in Client : pc[c] # "idle" => user[c] \in User

AdmissionTypes ==
  /\ spent \in [User -> Nat] /\ late \in [Client -> BOOLEAN]
  /\ task \in [Task -> [st : TaskSteps, by : Client \cup {None, "nobody"}, for : User \cup {None}]]
  /\ active \in BOOLEAN /\ text \in BOOLEAN /\ lost \in BOOLEAN
  /\ state \in {"none", "QUEUED", "PROCESSING", "COMPLETED", "FAILED"}

\* The client a task works for waits for it, and for no other.
AwaitInv ==
  /\ \A t \in Task : task[t].by \in Client => At(task[t].by, "await") /\ task[t].st \in {"queued", "call"}
  /\ \A s, t \in Task : task[s].by \in Client /\ task[s].by = task[t].by => s = t

Types == AccountTypes /\ AdmissionTypes /\ AwaitInv

----------------------------------------------------------------------------
(* What is counted                                                         *)

Guessing(u) == {c \in Client : pc[c] \in {"verify", "record"} /\ user[c] = u}
Recording(u) == {c \in Client : pc[c] = "record" /\ user[c] = u}

\* A wrong password was counted, is about to be, or its count was lost to a fault; and the count is exceeded only by
\* those that passed the throttle before it was full.
GuessInv ==
  \A u \in User : /\ guesses[u] <= failures[u] + Cardinality(Recording(u)) + faults
                  /\ failures[u] + Cardinality(Guessing(u)) <= MaxLoginFailures - 1 + Cardinality(Client)

\* A request that came too late is turned away when it is checked: the spending of a day only grows.
AllowanceInv == AllowanceHolds /\ \A c \in Client : late[c] /\ pc[c] \in {"ask", "route"} => spent[user[c]] >= Limit

\* The requests that hold the marker of the transcription; the other holders are Texts.
Holding == {c \in Client : pc[c] \in TextSteps \ {"textFail"}}

\* The marker has at most one holder, and a state that says there is work to come has somebody to replace it.
HangInv ==
  lost \/ /\ active <=> (Holding # {} \/ Texts # {})
          /\ Holding = {} \/ Texts = {}
          /\ \A c, d \in Holding : c = d
          /\ \A s, t \in Texts : s = t
          /\ state \in {"QUEUED", "PROCESSING"} =>
               \/ \E c \in Client : pc[c] \in TextSteps
               \/ \E t \in Texts : task[t].st # "clear"

AdmissionInv == Types /\ LockoutEnds /\ GuessInv /\ AllowanceInv /\ HangInv

----------------------------------------------------------------------------
(* Types                                                                   *)

LEMMA AdmissionTypesInit == ASSUME AdmissionInit PROVE Types
<1> USE DEF AdmissionInit, AccountInit
<1>1. AccountTypes
  BY AccountAssumption DEF AccountTypes, ClientSteps, LoginSteps, TextSteps, PaidSteps
<1>2. AdmissionTypes
  BY DEF AdmissionTypes, TaskSteps, RunSteps, NoTask
<1>3. AwaitInv
  BY AdmissionAssumption DEF AwaitInv, NoTask
<1> QED BY <1>1, <1>2, <1>3 DEF Types

\* What Login does, whoever compares the passwords.
LEMMA LoginDoes ==
  ASSUME NEW c \in Client, Login(c)
  PROVE  /\ pc[c] = "verify" /\ UNCHANGED <<password, failures, armed, session, unarmed, served>>
         /\ \/ Works /\ guesses' = guesses /\ \E step \in {"rehash", "clear"} : Goto(c, step)
            \/ Works /\ guesses' = [guesses EXCEPT ![user[c]] = @ + 1] /\ Goto(c, "record")
            \/ ErrorReturn(c, "db") /\ guesses' = guesses
<1> DEFINE next == IF NeedsRehash(user[c]) THEN "rehash" ELSE "clear"
<1>1. next \in {"rehash", "clear"}
  OBVIOUS
<1>2. \/ Works /\ UNCHANGED guesses /\ Goto(c, next)
      \/ Works /\ guesses' = [guesses EXCEPT ![user[c]] = @ + 1] /\ Goto(c, "record")
      \/ ErrorReturn(c, "db") /\ UNCHANGED guesses
  BY Zenon DEF Login
<1> HIDE DEF next
<1>3. pc[c] = "verify" /\ UNCHANGED <<password, failures, armed, session, unarmed, served>>
  BY DEF Login, At
<1> QED BY <1>1, <1>2, <1>3, Zenon

\* The steps of package auth.
LEMMA TypesAccount ==
  ASSUME Types, AccountNext, UNCHANGED admissionVars
  PROVE  Types'
<1>1. AccountTypes'
  <2> USE DEF Types, AccountTypes, ClientSteps, LoginSteps, TextSteps, PaidSteps, At, Goto, Works, Fault, Arrive, accounts
  <2>1. ASSUME NEW c \in Client, register(c) \/ Create(c) \/ logout(c) \/ SessionExpires(c) PROVE AccountTypes'
    BY <2>1 DEF register, Register, Create, ErrorReturn, logout, RevokeSession, SessionExpires
  <2>2. ASSUME NEW c \in Client, login(c) \/ Login(c) PROVE AccountTypes'
    <3>1. CASE login(c)
      BY <3>1 DEF login
    <3>2. CASE Login(c)
      BY <3>2, LoginDoes DEF ErrorReturn
    <3> QED BY <2>2, <3>1, <3>2
  <2>3. ASSUME NEW c \in Client, recordLoginFailure(c) PROVE AccountTypes'
    BY <2>3 DEF recordLoginFailure, ErrorReturn
  <2>4. ASSUME NEW c \in Client, ExpireFailures(c) PROVE AccountTypes'
    <3>1. armed' \in [User -> BOOLEAN]
      <4>1. CASE armed' = [armed EXCEPT ![user[c]] = failures[user[c]] > 0]
        <5>1. (failures[user[c]] > 0) \in BOOLEAN
          OBVIOUS
        <5> HIDE DEF AccountTypes
        <5> QED BY <4>1, <5>1, Zenon DEF AccountTypes
      <4> QED BY <2>4, <4>1 DEF ExpireFailures
    <3> QED BY <2>4, <3>1 DEF ExpireFailures
  <2>5. ASSUME NEW c \in Client, UpdatePassword(c) \/ CreateSession(c) \/ CrashLogin(c) PROVE AccountTypes'
    BY <2>5 DEF UpdatePassword, CreateSession, CrashLogin, ErrorReturn
  <2>6. ASSUME NEW c \in Client, ClearFailures(c) PROVE AccountTypes'
    <3>1. CASE Works /\ Restart(user[c]) /\ Goto(c, "session") /\ UNCHANGED session
      BY <2>6, <3>1 DEF ClearFailures, Restart
    <3>2. CASE ErrorReturn(c, "redis") /\ UNCHANGED <<failures, armed, guesses, unarmed, session>>
      BY <3>2 DEF ErrorReturn
    <3> QED BY <2>6, <3>1, <3>2 DEF ClearFailures
  <2>7. ASSUME NEW u \in User, WindowEnds(u) PROVE AccountTypes'
    BY <2>7 DEF WindowEnds, Restart
  <2> QED BY <2>1, <2>2, <2>3, <2>4, <2>5, <2>6, <2>7 DEF AccountNext, AccountStep
<1>2. AdmissionTypes'
  BY DEF Types, AdmissionTypes, admissionVars
<1>3. \A c \in Client : pc[c] = "await" => pc'[c] = "await"
  BY DEF Types, AccountTypes, AccountNext, AccountStep, register, Register, Create, login, Login, recordLoginFailure,
         ExpireFailures, UpdatePassword, ClearFailures, CreateSession, logout, CrashLogin, SessionExpires, WindowEnds,
         ErrorReturn, Arrive, Goto, At
<1>4. AwaitInv'
  BY <1>3 DEF Types, AwaitInv, At, admissionVars
<1> QED BY <1>1, <1>2, <1>4 DEF Types

\* A step of a request that is not a login, from one place to another.
Elsewhere == ClientSteps \ LoginSteps
Moved(c, from, to) ==
  /\ pc[c] = from /\ pc' = [pc EXCEPT ![c] = to]
  /\ user' = IF to = "idle" THEN [user EXCEPT ![c] = None]
             ELSE IF from = "idle" THEN [user EXCEPT ![c] = session[c]] ELSE user
  /\ from = "idle" => session[c] \in User
  /\ from = "await" => to = "idle"

LEMMA StepMoves ==
  ASSUME NEW c \in Client, NEW from \in Elsewhere \ {"idle", "await"}, NEW to \in Elsewhere, Step(c, from, to)
  PROVE  (\E f, g \in Elsewhere : Moved(c, f, g)) /\ UNCHANGED accounts
  BY DEF Step, Goto, At, Moved

LEMMA ArriveMoves ==
  ASSUME Types, NEW c \in Client, NEW to \in Elsewhere, Arrive(c, ResolveUser(c), to), ResolveUser(c) # None
  PROVE  \E f, g \in Elsewhere : Moved(c, f, g)
<1>1. session[c] \in User
  BY DEF ResolveUser, Types, AccountTypes
<1>2. Moved(c, "idle", to)
  BY <1>1 DEF Arrive, At, Moved, ResolveUser
<1>3. "idle" \in Elsewhere
  BY DEF Elsewhere, ClientSteps, LoginSteps
<1> QED BY <1>2, <1>3

\* The handlers of Admission leave the accounts alone, and logins where they are.
LEMMA ClientMoves ==
  ASSUME Types, NEW c \in Client, AdmissionStep(c)
  PROVE  /\ UNCHANGED accounts /\ faults' \in {faults, faults + 1}
         /\ \E f, g \in Elsewhere : Moved(c, f, g)
<1> DEFINE Goal == (\E f, g \in Elsewhere : Moved(c, f, g)) /\ UNCHANGED accounts
<1> HIDE DEF Goal
<1>0. /\ {"idle", "ask", "route", "askRefused", "await", "textQueued", "textSubmit", "textRefused", "textClear", "textFail",
          "askUser", "askGlobal", "askSubmit", "routeUser", "routeGlobal", "routeSubmit"} \subseteq Elsewhere
      /\ \A scope \in {"ask", "route"} : /\ Stage[scope].user \in {"askUser", "routeUser"}
                                         /\ Stage[scope].global \in {"askGlobal", "routeGlobal"}
                                         /\ Stage[scope].submit \in {"askSubmit", "routeSubmit"}
  BY DEF Elsewhere, ClientSteps, LoginSteps, TextSteps, PaidSteps, Stage
<1>1. ASSUME followUp(c) \/ evidenceSearch(c) \/ route(c) PROVE Goal
  <2>1. \E to \in {"ask", "route", "idle"} : SignedIn(c, to)
    BY <1>1 DEF followUp, evidenceSearch, route
  <2> QED BY <2>1, <1>0, ArriveMoves DEF SignedIn, Goal
<1>2. ASSUME CheckAllowance(c) PROVE Goal
  <2>1. PICK scope \in {"ask", "route"} : \E to \in {"idle", Stage[scope].user} : Step(c, scope, to)
    BY <1>2 DEF CheckAllowance
  <2> QED BY <2>1, <1>0, StepMoves DEF Goal
<1>3. ASSUME TakeUser(c) PROVE Goal
  <2>1. PICK scope \in {"ask", "route"} : \E to \in {"idle", Stage[scope].global} : Step(c, Stage[scope].user, to)
    BY <1>3 DEF TakeUser
  <2> QED BY <2>1, <1>0, StepMoves DEF Goal
<1>4. ASSUME TakeGlobal(c) PROVE Goal
  <2>1. PICK scope \in {"ask", "route"} : \E to \in {"idle", Stage[scope].submit} : Step(c, Stage[scope].global, to)
    BY <1>4 DEF TakeGlobal
  <2> QED BY <2>1, <1>0, StepMoves DEF Goal
<1>5. ASSUME ClassifyMode(c) \/ InvalidAfterQuota(c) \/ SubmitAsk(c) \/ SubmitText(c) PROVE Goal
  <2>1. \/ Step(c, "routeSubmit", "idle") \/ Step(c, "askSubmit", "idle") \/ Step(c, "askSubmit", "askRefused")
        \/ Step(c, "askSubmit", "await") \/ Step(c, "textSubmit", "textRefused") \/ Step(c, "textSubmit", "idle")
    BY <1>5 DEF ClassifyMode, InvalidAfterQuota, SubmitAsk, SubmitText, Submit
  <2> QED BY <2>1, <1>0, StepMoves DEF Goal
<1>6. ASSUME Rejected(c) \/ SetQueued(c) \/ RejectQueued(c) PROVE Goal
  <2>1. \/ Step(c, "askRefused", "idle") \/ Step(c, "textRefused", "textClear") \/ Step(c, "textQueued", "textSubmit")
        \/ Step(c, "textClear", "textFail") \/ Step(c, "textFail", "idle")
    BY <1>6 DEF Rejected, SetQueued, RejectQueued
  <2> QED BY <2>1, <1>0, StepMoves DEF Goal
<1>7. ASSUME TimeOut(c) PROVE Goal
  BY <1>7, <1>0 DEF TimeOut, Step, Goto, At, Moved, Goal
<1>8. ASSUME transcribe(c) PROVE Goal
  <2>1. \E to \in {"idle", "textQueued"} : Arrive(c, ResolveUser(c), to)
    BY <1>8 DEF transcribe, Queue
  <2> QED BY <1>8, <2>1, <1>0, ArriveMoves DEF transcribe, Goal
<1>9. faults' \in {faults, faults + 1}
  BY DEF AdmissionStep, followUp, evidenceSearch, route, SignedIn, CheckAllowance, TakeUser, TakeGlobal, ClassifyMode,
         InvalidAfterQuota, SubmitAsk, SubmitText, Submit, Rejected, TimeOut, transcribe, SetQueued, RejectQueued,
         SetState, ClearActive, Works, Fault
<1> QED BY <1>1, <1>2, <1>3, <1>4, <1>5, <1>6, <1>7, <1>8, <1>9 DEF AdmissionStep, Goal

\* The steps of everything but package auth leave the accounts alone.
Aside == /\ UNCHANGED accounts /\ faults' \in {faults, faults + 1}
         /\ UNCHANGED <<pc, user>> \/ \E c \in Client, f, g \in Elsewhere : Moved(c, f, g)

LEMMA TaskMoves ==
  ASSUME Types, NEW t \in Task, StartTask(t) \/ FollowUp(t) \/ LeaveTask(t) \/ runTranscription(t)
  PROVE  Aside
<1>1. CASE StartTask(t) \/ LeaveTask(t)
  BY <1>1 DEF StartTask, LeaveTask, accountVars, accounts, Aside
<1>2. CASE FollowUp(t)
  <2>1. CASE task[t].by \in Client
    <3>1. Moved(task[t].by, "await", "idle")
      BY <1>2, <2>1 DEF FollowUp, Types, AwaitInv, At, Goto, Moved
    <3>2. "await" \in Elsewhere /\ "idle" \in Elsewhere
      BY DEF Elsewhere, ClientSteps, LoginSteps, PaidSteps
    <3> QED BY <1>2, <2>1, <3>1, <3>2 DEF FollowUp, accounts, Aside
  <2>2. CASE task[t].by \notin Client
    BY <1>2, <2>2 DEF FollowUp, accounts, Aside
  <2> QED BY <2>1, <2>2
<1>3. CASE runTranscription(t)
  BY <1>3 DEF runTranscription, TranscribeVideo, SetState, ClearActive, Works, Fault, accounts, Aside
<1> QED BY <1>1, <1>2, <1>3

LEMMA Asides ==
  ASSUME Types, [AdmissionNext]_allVars, ~(AccountNext /\ UNCHANGED <<limitVars, admissionVars>>)
  PROVE  Aside
<1>1. ASSUME NEW c \in Client, AdmissionStep(c) PROVE Aside
  BY <1>1, ClientMoves DEF Aside
<1>2. ASSUME NEW t \in Task, StartTask(t) \/ FollowUp(t) \/ LeaveTask(t) \/ runTranscription(t) PROVE Aside
  BY <1>2, TaskMoves
<1>3. ASSUME UNCHANGED accountVars PROVE Aside
  BY <1>3 DEF accountVars, accounts, Aside
<1> QED BY <1>1, <1>2, <1>3 DEF AdmissionNext, NextDay, allVars

LEMMA AsideKeepsAccounts ==
  ASSUME Types, Aside
  PROVE  /\ AccountTypes'
         /\ \A c \in Client : (pc[c] \in LoginSteps \/ pc'[c] \in LoginSteps) => pc'[c] = pc[c] /\ user'[c] = user[c]
         /\ \A c \in Client : pc[c] = "await" => pc'[c] \in {"await", "idle"}
<1>1. CASE UNCHANGED <<pc, user>>
  BY <1>1 DEF Types, AccountTypes, Aside, accounts
<1>2. ASSUME NEW c \in Client, NEW f \in Elsewhere, NEW g \in Elsewhere, Moved(c, f, g)
      PROVE  /\ AccountTypes'
             /\ \A d \in Client : (pc[d] \in LoginSteps \/ pc'[d] \in LoginSteps) => pc'[d] = pc[d] /\ user'[d] = user[d]
             /\ \A d \in Client : pc[d] = "await" => pc'[d] \in {"await", "idle"}
  <2>1. /\ f \in ClientSteps \ LoginSteps /\ g \in ClientSteps \ LoginSteps
        /\ failures' = failures /\ armed' = armed /\ guesses' = guesses /\ session' = session /\ faults' \in Nat
        /\ pc \in [Client -> ClientSteps] /\ user \in [Client -> User \cup {None}]
    BY DEF Elsewhere, Aside, accounts, Types, AccountTypes
  <2>2. pc' \in [Client -> ClientSteps] /\ user' \in [Client -> User \cup {None}]
    BY <1>2, <2>1 DEF Moved
  <2>3. \A d \in Client : pc'[d] # "idle" => user'[d] \in User
    BY <1>2, <2>1, <2>2 DEF Moved, Types, AccountTypes
  <2>4. AccountTypes'
    BY <2>1, <2>2, <2>3 DEF Types, AccountTypes
  <2> QED BY <1>2, <2>1, <2>4 DEF Moved
<1> QED BY <1>1, <1>2 DEF Aside

\* Spending only grows.
LEMMA ChargeGrows ==
  ASSUME AdmissionTypes, NEW u, Charge(u)
  PROVE  spent' \in [User -> Nat] /\ \A v \in User : spent'[v] >= spent[v]
<1>1. PICK cost \in 0 .. MaxCost : spent' = [spent EXCEPT ![u] = @ + cost]
  BY DEF Charge
<1>2. cost \in Nat /\ spent \in [User -> Nat]
  BY AdmissionAssumption DEF AdmissionTypes
<1>3. spent' = [v \in User |-> IF v = u THEN spent[v] + cost ELSE spent[v]]
  BY <1>1, <1>2
<1> QED BY <1>2, <1>3

\* setState and clearActive, whether they work or not.
LEMMA MarksTyped ==
  ASSUME AdmissionTypes
  PROVE  /\ \A s \in {"QUEUED", "PROCESSING", "COMPLETED", "FAILED"} : SetState(s) =>
              state' \in {"none", "QUEUED", "PROCESSING", "COMPLETED", "FAILED"} /\ lost' \in BOOLEAN
         /\ ClearActive => active' \in BOOLEAN /\ lost' \in BOOLEAN
<1>1. ASSUME NEW s \in {"QUEUED", "PROCESSING", "COMPLETED", "FAILED"}, SetState(s)
      PROVE  state' \in {"none", "QUEUED", "PROCESSING", "COMPLETED", "FAILED"} /\ lost' \in BOOLEAN
  BY <1>1, Zenon DEF SetState, AdmissionTypes
<1>2. ASSUME ClearActive PROVE active' \in BOOLEAN /\ lost' \in BOOLEAN
  BY <1>2, Zenon DEF ClearActive, AdmissionTypes
<1> QED BY <1>1, <1>2

\* The tasks of the pool keep their types and the client that waits for them.
LEMMA TypesTask ==
  ASSUME Types, NEW t \in Task, StartTask(t) \/ FollowUp(t) \/ LeaveTask(t) \/ runTranscription(t)
  PROVE  AdmissionTypes' /\ AwaitInv'
<1> USE DEF Types, AccountTypes, AdmissionTypes, TaskSteps, RunSteps, transcription
<1>1. CASE StartTask(t)
  <2>1. AdmissionTypes'
    BY <1>1 DEF StartTask, TaskTo
  <2>2. AwaitInv'
    BY <1>1, AdmissionAssumption DEF StartTask, TaskTo, AwaitInv, accountVars, At
  <2> QED BY <2>1, <2>2
<1>2. CASE FollowUp(t)
  <2>1. AdmissionTypes'
    <3>1. spent' \in [User -> Nat]
      BY <1>2, ChargeGrows DEF FollowUp
    <3>2. task' \in [Task -> [st : TaskSteps, by : Client \cup {None, "nobody"}, for : User \cup {None}]]
      <4> DEFINE over == [task EXCEPT ![t].st = "over"]
      <4>1. over \in [Task -> [st : TaskSteps, by : Client \cup {None, "nobody"}, for : User \cup {None}]]
        OBVIOUS
      <4>2. task' = [over EXCEPT ![t].by = None]
        BY <1>2 DEF FollowUp
      <4> HIDE DEF over
      <4> QED BY <4>1, <4>2
    <3> QED BY <1>2, <3>1, <3>2 DEF FollowUp
  <2>2. AwaitInv'
    BY <1>2, AdmissionAssumption DEF FollowUp, AwaitInv, At, Goto
  <2> QED BY <2>1, <2>2
<1>3. CASE LeaveTask(t)
  BY <1>3, AdmissionAssumption DEF LeaveTask, NoTask, AwaitInv, accountVars, At
<1>4. CASE runTranscription(t)
  <2>1. AdmissionTypes'
    <3>1. \E to \in TaskSteps : task' = [task EXCEPT ![t].st = to]
      BY <1>4 DEF runTranscription, TranscribeVideo, TaskTo
    <3>2. /\ state' \in {"none", "QUEUED", "PROCESSING", "COMPLETED", "FAILED"}
          /\ active' \in BOOLEAN /\ text' \in BOOLEAN /\ lost' \in BOOLEAN
      <4> HIDE DEF AdmissionTypes
      <4> QED BY <1>4, MarksTyped, Zenon DEF runTranscription, TranscribeVideo, AdmissionTypes
    <3>3. spent' = spent /\ late' = late
      BY <1>4 DEF runTranscription
    <3> QED BY <3>1, <3>2, <3>3
  <2>2. \E to \in RunSteps \cup {"over"} : task[t].st \in RunSteps /\ task' = [task EXCEPT ![t].st = to] /\ UNCHANGED pc
    BY <1>4 DEF runTranscription, TranscribeVideo, TaskTo
  <2>3. AwaitInv'
    BY <2>2 DEF AwaitInv, At
  <2> QED BY <2>1, <2>3
<1> QED BY <1>1, <1>2, <1>3, <1>4

LEMMA TypesClient ==
  ASSUME Types, NEW c \in Client, AdmissionStep(c)
  PROVE  AdmissionTypes' /\ AwaitInv'
<1> USE DEF Types, AccountTypes, AdmissionTypes
<1>1. CASE followUp(c) \/ evidenceSearch(c) \/ route(c)
  <2>1. \E step \in {"ask", "idle", "route"} : SignedIn(c, step)
    BY <1>1 DEF followUp, evidenceSearch, route
  <2>2. UNCHANGED task /\ pc[c] = "idle" /\ \E step : pc' = [pc EXCEPT ![c] = step]
    BY <2>1 DEF SignedIn, Arrive, At, pool
  <2>3. AwaitInv'
    BY <2>2 DEF AwaitInv, At
  <2>4. AdmissionTypes'
    <3>1. (spent[ResolveUser(c)] >= Limit) \in BOOLEAN
      OBVIOUS
    <3>2. late' \in [Client -> BOOLEAN]
      BY <2>1, <3>1, Zenon DEF SignedIn
    <3> QED BY <2>1, <3>2 DEF SignedIn, pool, transcription
  <2> QED BY <2>3, <2>4
<1>2. CASE CheckAllowance(c) \/ TakeUser(c) \/ TakeGlobal(c)
  <2>1. /\ UNCHANGED task /\ pc[c] # "await" /\ \E step : pc' = [pc EXCEPT ![c] = step]
    BY <1>2 DEF CheckAllowance, TakeUser, TakeGlobal, Stage, Step, At, Goto, pool, admissionVars
  <2>2. AwaitInv'
    BY <2>1 DEF AwaitInv, At
  <2> QED BY <1>2, <2>2 DEF CheckAllowance, TakeUser, TakeGlobal, pool, admissionVars, transcription
<1>3. CASE ClassifyMode(c) \/ InvalidAfterQuota(c) \/ Rejected(c) \/ SetQueued(c) \/ RejectQueued(c)
  <2>1. /\ UNCHANGED task /\ pc[c] # "await" /\ \E step : pc' = [pc EXCEPT ![c] = step]
    BY <1>3 DEF ClassifyMode, InvalidAfterQuota, Rejected, SetQueued, RejectQueued, Step, At, Goto, pool, admissionVars
  <2>2. AwaitInv'
    BY <2>1 DEF AwaitInv, At
  <2>3. AdmissionTypes'
    <3>1. CASE ClassifyMode(c)
      <4>1. spent' \in [User -> Nat]
        BY <3>1, ChargeGrows DEF ClassifyMode
      <4> QED BY <3>1, <4>1 DEF ClassifyMode, pool, transcription
    <3>2. CASE InvalidAfterQuota(c) \/ Rejected(c)
      BY <3>2 DEF InvalidAfterQuota, Rejected, admissionVars, transcription
    <3>3. CASE SetQueued(c) \/ RejectQueued(c)
      BY <3>3, MarksTyped DEF SetQueued, RejectQueued, SetState, ClearActive, pool
    <3> QED BY <1>3, <3>1, <3>2, <3>3
  <2> QED BY <2>2, <2>3
<1>4. CASE SubmitAsk(c) \/ SubmitText(c)
  <2> USE DEF SubmitAsk, SubmitText, Submit, Step, At, Goto, transcription, TaskSteps
  <2>1. pc[c] \notin {"idle", "await"} /\ user[c] \in User
    BY <1>4
  <2>2. AdmissionTypes'
    BY <1>4, <2>1
  <2>3. AwaitInv'
    BY <1>4, <2>1, AdmissionAssumption DEF AwaitInv
  <2> QED BY <2>2, <2>3
<1>5. CASE TimeOut(c)
  <2>1. AdmissionTypes'
    BY <1>5 DEF TimeOut, transcription
  <2>2. AwaitInv'
    BY <1>5, AdmissionAssumption DEF TimeOut, Step, At, Goto, AwaitInv
  <2> QED BY <2>1, <2>2
<1>6. CASE transcribe(c)
  BY <1>6 DEF transcribe, Queue, Arrive, At, AwaitInv, pool
<1> QED BY <1>1, <1>2, <1>3, <1>4, <1>5, <1>6 DEF AdmissionStep

LEMMA TypesNext == ASSUME Types, [AdmissionNext]_allVars PROVE Types'
<1>1. CASE AccountNext /\ UNCHANGED <<limitVars, admissionVars>>
  BY <1>1, TypesAccount
<1>2. CASE ~(AccountNext /\ UNCHANGED <<limitVars, admissionVars>>)
  <2>1. AccountTypes'
    BY <1>2, Asides, AsideKeepsAccounts
  <2>2. CASE UNCHANGED <<accountVars, admissionVars>> \/ NextDay
    <3>1. task' = task /\ pc' = pc
      BY <2>2 DEF NextDay, accountVars, admissionVars, pool
    <3>2. AdmissionTypes'
      <4>1. CASE UNCHANGED <<accountVars, admissionVars>>
        BY <4>1 DEF Types, AdmissionTypes, admissionVars
      <4>2. CASE NextDay
        <5>1. spent' \in [User -> Nat] /\ late' \in [Client -> BOOLEAN]
          BY <4>2 DEF NextDay
        <5> QED BY <4>2, <5>1 DEF NextDay, Types, AdmissionTypes, pool, transcription
      <4> QED BY <2>2, <4>1, <4>2
    <3>3. AwaitInv'
      BY <3>1 DEF Types, AwaitInv, At
    <3> QED BY <2>1, <3>2, <3>3 DEF Types
  <2>3. ASSUME NEW c \in Client, AdmissionStep(c) PROVE Types'
    BY <2>1, <2>3, TypesClient DEF Types
  <2>4. ASSUME NEW t \in Task, StartTask(t) \/ FollowUp(t) \/ LeaveTask(t) \/ runTranscription(t) PROVE Types'
    BY <2>1, <2>4, TypesTask DEF Types
  <2> QED BY <1>2, <2>2, <2>3, <2>4 DEF AdmissionNext, allVars
<1> QED BY <1>1, <1>2

----------------------------------------------------------------------------
(* The login throttle                                                      *)

LEMMA LockoutNext ==
  ASSUME Types, LockoutEnds, [AdmissionNext]_allVars
  PROVE  LockoutEnds'
<1>1. CASE ~(AccountNext /\ UNCHANGED <<limitVars, admissionVars>>)
  <2>1. failures' = failures /\ armed' = armed /\ unarmed' = unarmed
    BY <1>1, Asides DEF Aside, accounts
  <2>2. \A c \in Client : pc[c] = "expire" => pc'[c] = "expire" /\ user'[c] = user[c]
    BY <1>1, Asides, AsideKeepsAccounts DEF LoginSteps
  <2> QED BY <2>1, <2>2 DEF LockoutEnds, At
<1>2. CASE AccountNext
  <2> USE DEF Types, AccountTypes, LockoutEnds, At, Goto, Works, Fault, Arrive, accounts
  <2>1. ASSUME NEW c \in Client, register(c) \/ Create(c) \/ logout(c) \/ SessionExpires(c) PROVE LockoutEnds'
    BY <2>1 DEF register, Register, Create, ErrorReturn, logout, RevokeSession, SessionExpires
  <2>2. ASSUME NEW c \in Client, login(c) \/ Login(c) PROVE LockoutEnds'
    <3>1. CASE login(c)
      BY <3>1 DEF login
    <3>2. CASE Login(c)
      BY <3>2, LoginDoes DEF ErrorReturn
    <3> QED BY <2>2, <3>1, <3>2
  <2>3. ASSUME NEW c \in Client, recordLoginFailure(c) PROVE LockoutEnds'
    <3>1. CASE ErrorReturn(c, "redis") /\ UNCHANGED failures
      BY <2>3, <3>1 DEF recordLoginFailure, ErrorReturn
    <3>2. CASE failures' = [failures EXCEPT ![user[c]] = @ + 1] /\ failures'[user[c]] = 1 /\ Goto(c, "expire")
      BY <2>3, <3>2 DEF recordLoginFailure
    <3>3. CASE failures' = [failures EXCEPT ![user[c]] = @ + 1] /\ failures'[user[c]] # 1 /\ Goto(c, "idle")
      BY <2>3, <3>3 DEF recordLoginFailure
    <3> QED BY <2>3, <3>1, <3>2, <3>3 DEF recordLoginFailure
  <2>4. ASSUME NEW c \in Client, ExpireFailures(c) PROVE LockoutEnds'
    <3>1. /\ \A d \in Client \ {c} : pc'[d] = pc[d] /\ user'[d] = user[d]
          /\ failures' = failures /\ user[c] \in User
      BY <2>4 DEF ExpireFailures
    <3>2. CASE armed' = [armed EXCEPT ![user[c]] = failures[user[c]] > 0] /\ UNCHANGED unarmed
      <4>1. \A u \in User : (u # user[c] => armed'[u] = armed[u]) /\ (u = user[c] /\ failures[u] > 0 => armed'[u])
        BY <3>1, <3>2
      <4> QED BY <3>1, <3>2, <4>1
    <3>3. CASE unarmed' = unarmed \cup {user[c]} /\ UNCHANGED armed
      BY <3>1, <3>3
    <3> QED BY <2>4, <3>2, <3>3 DEF ExpireFailures
  <2>5. ASSUME NEW c \in Client, UpdatePassword(c) \/ CreateSession(c) \/ CrashLogin(c) PROVE LockoutEnds'
    BY <2>5 DEF UpdatePassword, CreateSession, CrashLogin, ErrorReturn
  <2>6. ASSUME NEW c \in Client, ClearFailures(c) PROVE LockoutEnds'
    BY <2>6 DEF ClearFailures, Restart, ErrorReturn
  <2>7. ASSUME NEW u \in User, WindowEnds(u) PROVE LockoutEnds'
    BY <2>7 DEF WindowEnds, Restart
  <2> QED BY <1>2, <2>1, <2>2, <2>3, <2>4, <2>5, <2>6, <2>7 DEF AccountNext, AccountStep
<1> QED BY <1>1, <1>2

\* Counting clients.
LEMMA ClientCounts ==
  ASSUME NEW S \in SUBSET Client
  PROVE  /\ Cardinality(S) \in Nat /\ Cardinality(Client) \in Nat /\ Cardinality(S) <= Cardinality(Client)
         /\ \A c \in S : Cardinality(S \ {c}) = Cardinality(S) - 1
         /\ \A c : c \notin S => S \ {c} = S /\ Cardinality(S \cup {c}) = Cardinality(S) + 1
  BY AccountAssumption, FS_Subset, FS_CardinalityType, FS_AddElement, FS_RemoveElement

\* What a step leaves of the tally of a user's guesses.
Tally(u) == /\ guesses[u] <= failures[u] + Cardinality(Recording(u)) + faults
            /\ failures[u] + Cardinality(Guessing(u)) <= MaxLoginFailures - 1 + Cardinality(Client)

\* A client leaves the guessing by an error, or never took part.
LEMMA TallyLeft ==
  ASSUME Types, NEW u \in User, Tally(u), NEW c,
         guesses'[u] = guesses[u], failures'[u] = failures[u], faults' \in Nat,
         Guessing(u)' = Guessing(u) \ {c},
         \/ Recording(u)' = Recording(u) /\ faults' >= faults
         \/ Recording(u)' = Recording(u) \ {c} /\ faults' >= faults + 1
  PROVE  Tally(u)'
<1>1. Recording(u) \subseteq Client /\ Guessing(u) \subseteq Client
  BY DEF Recording, Guessing
<1>2. /\ Cardinality(Recording(u)) \in Nat /\ Cardinality(Guessing(u)) \in Nat /\ Cardinality(Client) \in Nat
      /\ Cardinality(Recording(u) \ {c}) \in {Cardinality(Recording(u)), Cardinality(Recording(u)) - 1}
      /\ Cardinality(Guessing(u) \ {c}) \in {Cardinality(Guessing(u)), Cardinality(Guessing(u)) - 1}
  BY <1>1, ClientCounts
<1>3. guesses[u] \in Nat /\ failures[u] \in Nat /\ faults \in Nat /\ MaxLoginFailures \in Nat
  BY AccountAssumption DEF Types, AccountTypes
<1>4. guesses'[u] <= failures'[u] + Cardinality(Recording(u)') + faults'
  BY <1>2, <1>3 DEF Tally
<1>5. failures'[u] + Cardinality(Guessing(u)') <= MaxLoginFailures - 1 + Cardinality(Client)
  BY <1>2, <1>3 DEF Tally
<1> QED BY <1>4, <1>5 DEF Tally

LEMMA TallyKept ==
  ASSUME Types, NEW u \in User, Tally(u), UNCHANGED <<guesses, failures>>, faults' \in {faults, faults + 1},
         Recording(u)' = Recording(u), Guessing(u)' = Guessing(u)
  PROVE  Tally(u)'
<1>1. /\ Cardinality(Recording(u)) \in Nat /\ Cardinality(Guessing(u)) \in Nat /\ Cardinality(Client) \in Nat
  BY ClientCounts DEF Recording, Guessing
<1>2. guesses[u] \in Nat /\ failures[u] \in Nat /\ faults \in Nat
  BY DEF Types, AccountTypes
<1> QED BY <1>1, <1>2 DEF Tally

LEMMA GuessNext ==
  ASSUME Types, GuessInv, [AdmissionNext]_allVars
  PROVE  GuessInv'
<1> SUFFICES ASSUME NEW u \in User PROVE Tally(u)'
  BY DEF GuessInv, Tally
<1>0. /\ Tally(u) /\ faults \in Nat /\ guesses[u] \in Nat /\ failures[u] \in Nat /\ MaxLoginFailures \in Nat \ {0}
      /\ Recording(u) \subseteq Client /\ Guessing(u) \subseteq Client
      /\ guesses \in [User -> Nat] /\ failures \in [User -> Nat]
  BY AccountAssumption DEF GuessInv, Tally, Types, AccountTypes, Recording, Guessing
<1>1. CASE ~(AccountNext /\ UNCHANGED <<limitVars, admissionVars>>)
  <2>1. UNCHANGED <<guesses, failures>> /\ faults' \in {faults, faults + 1}
    BY <1>1, Asides DEF Aside, accounts
  <2>2. \A c \in Client : (pc[c] \in LoginSteps \/ pc'[c] \in LoginSteps) => pc'[c] = pc[c] /\ user'[c] = user[c]
    BY <1>1, Asides, AsideKeepsAccounts
  <2>3. Recording(u)' = Recording(u) /\ Guessing(u)' = Guessing(u)
    BY <2>2 DEF LoginSteps, Recording, Guessing
  <2> QED BY <1>0, <2>1, <2>3, TallyKept
<1>2. CASE AccountNext
  <2> USE DEF At, Goto, Works, Fault, Arrive, accounts
  <2>1. ASSUME NEW c \in Client,
               \/ register(c) \/ Create(c) \/ logout(c) \/ SessionExpires(c) \/ UpdatePassword(c) \/ CreateSession(c)
               \/ ExpireFailures(c)
        PROVE  Tally(u)'
    <3> USE DEF Types, AccountTypes, ErrorReturn
    <3>1. CASE register(c) \/ logout(c)
      <4>1. UNCHANGED <<guesses, failures>> /\ faults' \in {faults, faults + 1}
        BY <3>1 DEF register, logout
      <4>2. Recording(u)' = Recording(u) /\ Guessing(u)' = Guessing(u)
        BY <3>1 DEF register, Register, logout, Recording, Guessing
      <4> HIDE DEF Types
      <4> QED BY <1>0, <4>1, <4>2, TallyKept
    <3>2. CASE Create(c) \/ SessionExpires(c)
      <4>1. UNCHANGED <<guesses, failures>> /\ faults' \in {faults, faults + 1}
        BY <3>2 DEF Create, SessionExpires
      <4>2. Recording(u)' = Recording(u) /\ Guessing(u)' = Guessing(u)
        BY <3>2 DEF Create, SessionExpires, Recording, Guessing
      <4> HIDE DEF Types
      <4> QED BY <1>0, <4>1, <4>2, TallyKept
    <3>3. CASE UpdatePassword(c) \/ CreateSession(c) \/ ExpireFailures(c)
      <4>1. UNCHANGED <<guesses, failures>> /\ faults' \in {faults, faults + 1}
        BY <3>3 DEF UpdatePassword, CreateSession, ExpireFailures
      <4>2. Recording(u)' = Recording(u) /\ Guessing(u)' = Guessing(u)
        BY <3>3 DEF UpdatePassword, CreateSession, ExpireFailures, Recording, Guessing
      <4> HIDE DEF Types
      <4> QED BY <1>0, <4>1, <4>2, TallyKept
    <3> QED BY <2>1, <3>1, <3>2, <3>3
  <2>2. ASSUME NEW c \in Client, login(c) PROVE Tally(u)'
    <3>1. /\ UNCHANGED <<guesses, failures>> /\ faults' = faults /\ Recording(u)' = Recording(u)
          /\ Guessing(u)' \subseteq Client
      BY <2>2 DEF login, Types, AccountTypes, Recording, Guessing
    <3>2. CASE Guessing(u)' = Guessing(u)
      BY <1>0, <3>1, <3>2, TallyKept
    <3>3. CASE failures[u] < MaxLoginFailures
      <4>1. /\ Cardinality(Guessing(u)') <= Cardinality(Client) /\ Cardinality(Guessing(u)') \in Nat
            /\ Cardinality(Client) \in Nat
        BY <3>1, ClientCounts
      <4> QED BY <1>0, <3>1, <3>3, <4>1 DEF Tally
    <3>4. Guessing(u)' = Guessing(u) \/ failures[u] < MaxLoginFailures
      BY <2>2 DEF login, LoginAttemptAllowed, Types, AccountTypes, Guessing
    <3> QED BY <3>2, <3>3, <3>4
  <2>3. ASSUME NEW c \in Client, Login(c) PROVE Tally(u)'
    <3>1. CASE Works /\ guesses' = [guesses EXCEPT ![user[c]] = @ + 1] /\ Goto(c, "record")
      <4>1. pc[c] = "verify" /\ failures' = failures /\ faults' = faults
        BY <2>3, <3>1, LoginDoes
      <4>2. Guessing(u)' = Guessing(u)
        BY <3>1, <4>1 DEF Types, AccountTypes, Guessing
      <4>3. CASE user[c] = u
        <5>1. Recording(u)' = Recording(u) \cup {c} /\ c \notin Recording(u)
          BY <3>1, <4>1, <4>3 DEF Types, AccountTypes, Recording
        <5>2. Cardinality(Recording(u)') = Cardinality(Recording(u)) + 1 /\ Cardinality(Recording(u)) \in Nat
          BY <1>0, <5>1, ClientCounts
        <5>3. guesses'[u] = guesses[u] + 1
          BY <1>0, <3>1, <4>3
        <5> QED BY <1>0, <4>1, <4>2, <5>2, <5>3 DEF Tally
      <4>4. CASE user[c] # u
        <5>1. Recording(u)' = Recording(u) /\ guesses'[u] = guesses[u]
          BY <1>0, <3>1, <4>1, <4>4 DEF Types, AccountTypes, Recording
        <5> QED BY <1>0, <4>1, <4>2, <5>1 DEF Tally
      <4> QED BY <4>3, <4>4
    <3>2. CASE guesses' = guesses /\ ((\E step \in {"rehash", "clear"} : Works /\ Goto(c, step)) \/ ErrorReturn(c, "db"))
      <4>1. failures' = failures /\ faults' \in {faults, faults + 1} /\ pc[c] = "verify"
        BY <2>3, <3>2, LoginDoes DEF ErrorReturn
      <4>2. Recording(u)' = Recording(u) /\ Guessing(u)' = Guessing(u) \ {c}
        BY <3>2, <4>1 DEF ErrorReturn, Types, AccountTypes, Recording, Guessing
      <4>3. faults' \in Nat /\ faults' >= faults
        BY <1>0, <4>1
      <4> QED BY <1>0, <3>2, <4>1, <4>2, <4>3, TallyLeft
    <3> QED BY <2>3, <3>1, <3>2, LoginDoes
  <2>4. ASSUME NEW c \in Client, recordLoginFailure(c) PROVE Tally(u)'
    <3>1. pc[c] = "record" /\ guesses' = guesses
      BY <2>4 DEF recordLoginFailure
    <3>2. Recording(u)' = Recording(u) \ {c} /\ Guessing(u)' = Guessing(u) \ {c}
      BY <2>4 DEF recordLoginFailure, ErrorReturn, Types, AccountTypes, Recording, Guessing
    <3>3. CASE ErrorReturn(c, "redis") /\ UNCHANGED failures
      <4>1. faults' \in Nat /\ faults' >= faults + 1
        BY <1>0, <3>3 DEF ErrorReturn
      <4> QED BY <1>0, <3>1, <3>2, <3>3, <4>1, TallyLeft
    <3>4. CASE faults' = faults /\ failures' = [failures EXCEPT ![user[c]] = @ + 1]
      <4>1. CASE user[c] = u
        <5>1. c \in Recording(u) /\ c \in Guessing(u) /\ failures'[u] = failures[u] + 1
          BY <1>0, <3>1, <3>4, <4>1 DEF Recording, Guessing
        <5>2. /\ Cardinality(Recording(u)') = Cardinality(Recording(u)) - 1 /\ Cardinality(Recording(u)) \in Nat
              /\ Cardinality(Guessing(u)') = Cardinality(Guessing(u)) - 1 /\ Cardinality(Guessing(u)) \in Nat
              /\ Cardinality(Client) \in Nat
          BY <1>0, <3>2, <5>1, ClientCounts
        <5> QED BY <1>0, <3>1, <3>4, <5>1, <5>2 DEF Tally
      <4>2. CASE user[c] # u
        <5>1. failures'[u] = failures[u] /\ Recording(u)' = Recording(u)
          BY <1>0, <3>2, <3>4, <4>2 DEF Recording
        <5>2. guesses'[u] = guesses[u] /\ faults' \in Nat /\ faults' >= faults
          BY <1>0, <3>1, <3>4
        <5> QED BY <1>0, <3>2, <5>1, <5>2, TallyLeft
      <4> QED BY <4>1, <4>2
    <3> QED BY <2>4, <3>3, <3>4 DEF recordLoginFailure
  <2>5. ASSUME NEW c \in Client, CrashLogin(c) PROVE Tally(u)'
    <3>1. guesses' = guesses /\ failures' = failures /\ faults' \in Nat /\ faults' >= faults + 1
      BY <1>0, <2>5 DEF CrashLogin
    <3>2. Recording(u)' = Recording(u) \ {c} /\ Guessing(u)' = Guessing(u) \ {c}
      BY <2>5 DEF CrashLogin, Types, AccountTypes, Recording, Guessing
    <3> QED BY <1>0, <3>1, <3>2, TallyLeft
  <2>6. ASSUME NEW v \in User, Restart(v), UNCHANGED faults, Recording(u)' = Recording(u), Guessing(u)' = Guessing(u)
        PROVE  Tally(u)'
    <3>1. CASE u = v
      <4>1. guesses'[u] = 0 /\ failures'[u] = 0
        BY <1>0, <2>6, <3>1 DEF Restart
      <4>2. /\ Cardinality(Guessing(u)) <= Cardinality(Client) /\ Cardinality(Guessing(u)) \in Nat
            /\ Cardinality(Client) \in Nat /\ Cardinality(Recording(u)) \in Nat
        BY <1>0, ClientCounts
      <4> QED BY <1>0, <2>6, <4>1, <4>2 DEF Tally
    <3>2. CASE u # v
      <4>1. guesses'[u] = guesses[u] /\ failures'[u] = failures[u]
        BY <1>0, <2>6, <3>2 DEF Restart
      <4> QED BY <1>0, <2>6, <4>1 DEF Tally
    <3> QED BY <3>1, <3>2
  <2>7. ASSUME NEW c \in Client, ClearFailures(c) PROVE Tally(u)'
    <3>1. /\ user[c] \in User
          /\ \/ UNCHANGED <<guesses, failures>> /\ faults' = faults + 1
             \/ Restart(user[c]) /\ UNCHANGED faults
      BY <2>7 DEF ClearFailures, ErrorReturn, Types, AccountTypes
    <3>2. Recording(u)' = Recording(u) /\ Guessing(u)' = Guessing(u)
      BY <2>7 DEF ClearFailures, ErrorReturn, Types, AccountTypes, Recording, Guessing
    <3> QED BY <1>0, <2>6, <3>1, <3>2, TallyKept
  <2>8. ASSUME NEW v \in User, WindowEnds(v) PROVE Tally(u)'
    <3>1. Recording(u)' = Recording(u) /\ Guessing(u)' = Guessing(u)
      BY <2>8 DEF WindowEnds, Recording, Guessing
    <3> QED BY <2>6, <2>8, <3>1 DEF WindowEnds
  <2> QED BY <1>2, <2>1, <2>2, <2>3, <2>4, <2>5, <2>7, <2>8 DEF AccountNext, AccountStep
<1> QED BY <1>1, <1>2

LEMMA GuessesFollow == ASSUME Types, GuessInv PROVE GuessesBounded
<1> SUFFICES ASSUME NEW u \in User PROVE guesses[u] <= MaxLoginFailures - 1 + Cardinality(Client) + faults
  BY DEF GuessesBounded
<1>1. Recording(u) \subseteq Guessing(u) /\ IsFiniteSet(Guessing(u)) /\ Guessing(u) \subseteq Client
  BY AccountAssumption, FS_Subset DEF Recording, Guessing
<1>2. /\ Cardinality(Recording(u)) <= Cardinality(Guessing(u)) /\ Cardinality(Recording(u)) \in Nat
      /\ Cardinality(Guessing(u)) \in Nat /\ Cardinality(Client) \in Nat
  BY <1>1, FS_Subset, ClientCounts
<1>3. guesses[u] \in Nat /\ failures[u] \in Nat /\ faults \in Nat /\ MaxLoginFailures \in Nat
  BY AccountAssumption DEF Types, AccountTypes
<1> QED BY <1>2, <1>3 DEF GuessInv

----------------------------------------------------------------------------
(* The allowance                                                           *)

\* Logins stay among themselves.
LEMMA AccountMoves ==
  ASSUME Types, AccountNext
  PROVE  \A d \in Client : \/ pc'[d] = pc[d] /\ user'[d] = user[d]
                           \/ {pc[d], pc'[d]} \subseteq LoginSteps \cup {"idle"}
<1> DEFINE Goal == \A d \in Client : \/ pc'[d] = pc[d] /\ user'[d] = user[d]
                                     \/ {pc[d], pc'[d]} \subseteq LoginSteps \cup {"idle"}
<1>0. ASSUME NEW c \in Client, NEW from \in LoginSteps \cup {"idle"}, NEW to \in LoginSteps \cup {"idle"},
             pc[c] = from, pc' = [pc EXCEPT ![c] = to], NEW v, user' = user \/ user' = [user EXCEPT ![c] = v]
      PROVE  Goal
  BY <1>0 DEF Types, AccountTypes
<1> HIDE DEF Goal
<1> USE DEF LoginSteps, At, Goto, Arrive, ErrorReturn
<1>1. ASSUME NEW c \in Client, register(c) \/ logout(c) PROVE Goal
  BY <1>0, <1>1 DEF register, Register, logout
<1>2. ASSUME NEW c \in Client, login(c) PROVE Goal
  BY <1>0, <1>2 DEF login
<1>3. ASSUME NEW c \in Client, Login(c) PROVE Goal
  BY <1>0, <1>3, LoginDoes
<1>4. ASSUME NEW c \in Client, Create(c) \/ recordLoginFailure(c) \/ ExpireFailures(c) PROVE Goal
  BY <1>0, <1>4 DEF Create, recordLoginFailure, ExpireFailures
<1>5. ASSUME NEW c \in Client, UpdatePassword(c) \/ ClearFailures(c) \/ CreateSession(c) \/ CrashLogin(c) PROVE Goal
  BY <1>0, <1>5 DEF UpdatePassword, ClearFailures, CreateSession, CrashLogin
<1>6. ASSUME UNCHANGED <<pc, user>> PROVE Goal
  BY <1>6 DEF Goal
<1>7. Goal
  BY <1>1, <1>2, <1>3, <1>4, <1>5, <1>6 DEF AccountNext, AccountStep, SessionExpires, WindowEnds
<1> QED BY <1>7 DEF Goal

\* A step that leaves the requests that came too late turned away, and the others where a model call may follow.
Bills == spent' \in [User -> Nat] /\ (\A v \in User : spent'[v] >= spent[v]) /\ late' = late
Pays == \A d \in Client : \/ pc'[d] = pc[d] /\ user'[d] = user[d]
                          \/ pc'[d] \notin PaidSteps \cup {"ask", "route"}
                          \/ pc[d] \in PaidSteps /\ pc'[d] \in PaidSteps

LEMMA AllowanceKept ==
  ASSUME Types, AllowanceInv, Bills, Pays
  PROVE  AllowanceInv'
<1> USE DEF Bills, Pays
<1>1. AllowanceHolds'
  BY DEF AllowanceInv, AllowanceHolds, PaidSteps
<1>2. ASSUME NEW d \in Client, late'[d], pc'[d] \in {"ask", "route"} PROVE spent'[user'[d]] >= Limit
  <2>1. pc'[d] = pc[d] /\ user'[d] = user[d]
    BY <1>2 DEF PaidSteps
  <2>2. user[d] \in User /\ spent[user[d]] >= Limit
    BY <1>2, <2>1 DEF Types, AccountTypes, AllowanceInv
  <2>3. spent[user[d]] \in Nat /\ spent'[user[d]] \in Nat /\ spent'[user[d]] >= spent[user[d]] /\ Limit \in Nat
    BY <2>2, AdmissionAssumption DEF Types, AdmissionTypes
  <2> QED BY <2>1, <2>2, <2>3
<1> QED BY <1>1, <1>2 DEF AllowanceInv

LEMMA Unbilled == ASSUME Types, spent' = spent, late' = late PROVE Bills
  BY DEF Types, AdmissionTypes, Bills

\* From one place to another.
LEMMA StepPays ==
  ASSUME Types, NEW c \in Client, NEW from, NEW to, Step(c, from, to),
         to \notin PaidSteps \cup {"ask", "route"} \/ {from, to} \subseteq PaidSteps
  PROVE  Pays
  BY DEF Types, AccountTypes, Pays, Step, At, Goto

LEMMA AllowanceClient ==
  ASSUME Types, AllowanceInv, NEW c \in Client, AdmissionStep(c)
  PROVE  AllowanceInv'
<1>0. /\ \A scope \in {"ask", "route"} : {Stage[scope].user, Stage[scope].global, Stage[scope].submit} \subseteq PaidSteps
      /\ {"askSubmit", "await"} \subseteq PaidSteps
      /\ {"idle", "askRefused", "textRefused", "textClear"} \cap (PaidSteps \cup {"ask", "route"}) = {}
  BY DEF Stage, PaidSteps
<1>1. CASE followUp(c) \/ evidenceSearch(c) \/ route(c)
  <2>1. PICK step \in {"ask", "idle", "route"} : SignedIn(c, step)
    BY <1>1 DEF followUp, evidenceSearch, route
  <2>2. /\ pc' = [pc EXCEPT ![c] = step] /\ spent' = spent
        /\ user' = [user EXCEPT ![c] = IF step = "idle" THEN None ELSE session[c]]
    BY <2>1 DEF SignedIn, Arrive, ResolveUser
  <2>3. /\ \A d \in Client \ {c} : late'[d] = late[d] /\ pc'[d] = pc[d] /\ user'[d] = user[d]
        /\ step # "idle" => (late'[c] => spent[session[c]] >= Limit) /\ user'[c] = session[c]
        /\ pc'[c] = step
    BY <2>1, <2>2 DEF SignedIn, ResolveUser, Types, AccountTypes, AdmissionTypes
  <2>4. AllowanceHolds'
    BY <2>3 DEF AllowanceInv, AllowanceHolds
  <2>5. \A d \in Client : late'[d] /\ pc'[d] \in {"ask", "route"} => spent[user'[d]] >= Limit
    BY <2>3 DEF AllowanceInv
  <2> QED BY <2>2, <2>4, <2>5 DEF AllowanceInv
<1>2. CASE CheckAllowance(c)
  <2>1. PICK scope \in {"ask", "route"} :
          /\ \/ /\ At(c, scope) /\ UNCHANGED late
                /\ Step(c, scope, IF Check(user[c]) THEN "idle" ELSE Stage[scope].user)
             \/ Step(c, scope, Stage[scope].user) /\ late' = [late EXCEPT ![c] = FALSE]
          /\ spent' = spent
    BY <1>2 DEF CheckAllowance
  <2>2. CASE At(c, scope) /\ UNCHANGED late /\ Check(user[c]) /\ Step(c, scope, "idle")
    <3>1. Pays
      BY <1>0, <2>2, StepPays
    <3> QED BY <2>1, <2>2, <3>1, Unbilled, AllowanceKept
  <2>3. CASE ~late'[c] /\ Step(c, scope, Stage[scope].user) /\ \A d \in Client \ {c} : late'[d] = late[d]
    <3>1. \A d \in Client \ {c} : pc'[d] = pc[d] /\ user'[d] = user[d] /\ late'[d] = late[d]
      BY <2>3, <1>0 DEF Step, Goto, Types, AccountTypes
    <3> QED BY <2>1, <2>3, <3>1, <1>0 DEF AllowanceInv, AllowanceHolds, Step, Goto, Stage, Types, AccountTypes
  <2>4. CASE UNCHANGED late /\ ~Check(user[c]) /\ Step(c, scope, Stage[scope].user)
    <3>1. ~late[c]
      BY <2>4 DEF Step, At, Check, AllowanceInv
    <3> QED BY <2>3, <2>4, <3>1
  <2>5. late' = [late EXCEPT ![c] = FALSE] => ~late'[c] /\ \A d \in Client \ {c} : late'[d] = late[d]
    BY DEF Types, AdmissionTypes
  <2> QED BY <2>1, <2>2, <2>3, <2>4, <2>5
<1>3. CASE TakeUser(c) \/ TakeGlobal(c)
  <2>1. /\ late' = late /\ spent' = spent
        /\ \E from \in PaidSteps, to \in PaidSteps \cup {"idle"} : Step(c, from, to)
    BY <1>0, <1>3 DEF TakeUser, TakeGlobal, admissionVars
  <2>2. Pays
    BY <1>0, <2>1, StepPays
  <2> QED BY <2>1, <2>2, Unbilled, AllowanceKept
<1>4. CASE ClassifyMode(c) \/ InvalidAfterQuota(c) \/ SubmitAsk(c) \/ SubmitText(c) \/ Rejected(c) \/ TimeOut(c)
  <2>1. Bills
    <3>1. CASE ClassifyMode(c)
      BY <3>1, ChargeGrows DEF ClassifyMode, Bills, Types
    <3>2. CASE spent' = spent /\ late' = late
      BY <3>2, Unbilled
    <3> QED BY <1>4, <3>1, <3>2 DEF InvalidAfterQuota, SubmitAsk, SubmitText, Rejected, TimeOut, admissionVars
  <2>2. \/ \E from, to : to \in {"idle", "askRefused", "textRefused", "textClear"} /\ Step(c, from, to)
        \/ Step(c, "askSubmit", "await")
    BY <1>4, Zenon DEF ClassifyMode, InvalidAfterQuota, SubmitAsk, SubmitText, Submit, Rejected, TimeOut
  <2>3. Pays
    BY <1>0, <2>2, StepPays
  <2> QED BY <2>1, <2>3, AllowanceKept
<1>5. CASE transcribe(c) \/ SetQueued(c) \/ RejectQueued(c)
  <2>1. spent' = spent /\ late' = late
    BY <1>5 DEF transcribe, SetQueued, RejectQueued
  <2>2. Pays
    BY <1>5 DEF transcribe, Queue, Arrive, SetQueued, RejectQueued, Step, Goto, PaidSteps, Pays, Types, AccountTypes
  <2> QED BY <2>1, <2>2, Unbilled, AllowanceKept
<1> QED BY <1>1, <1>2, <1>3, <1>4, <1>5 DEF AdmissionStep

LEMMA AllowanceNext ==
  ASSUME Types, AllowanceInv, [AdmissionNext]_allVars
  PROVE  AllowanceInv'
<1>1. CASE AccountNext /\ UNCHANGED <<limitVars, admissionVars>>
  <2>1. spent' = spent /\ late' = late
    BY <1>1 DEF admissionVars
  <2>2. Pays
    BY <1>1, AccountMoves DEF LoginSteps, PaidSteps, Pays
  <2> QED BY <2>1, <2>2, Unbilled, AllowanceKept
<1>2. CASE UNCHANGED <<accountVars, admissionVars>>
  <2>1. spent' = spent /\ late' = late /\ pc' = pc /\ user' = user
    BY <1>2 DEF accountVars, admissionVars
  <2>2. Pays
    BY <2>1 DEF Pays
  <2> QED BY <2>1, <2>2, Unbilled, AllowanceKept
<1>3. CASE NextDay
  BY <1>3 DEF NextDay, AllowanceInv, AllowanceHolds
<1>4. ASSUME NEW t \in Task, StartTask(t) \/ FollowUp(t) \/ LeaveTask(t) \/ runTranscription(t) PROVE AllowanceInv'
  <2>1. Bills
    <3>1. CASE FollowUp(t)
      BY <3>1, ChargeGrows DEF FollowUp, Types, Bills
    <3>2. CASE spent' = spent /\ late' = late
      BY <3>2, Unbilled
    <3> QED BY <1>4, <3>1, <3>2 DEF StartTask, LeaveTask, runTranscription
  <2>2. Pays
    BY <1>4 DEF Pays, StartTask, FollowUp, LeaveTask, runTranscription, Goto, PaidSteps, Types, AccountTypes, accountVars
  <2> QED BY <2>1, <2>2, AllowanceKept
<1> QED BY <1>1, <1>2, <1>3, <1>4, AllowanceClient DEF AdmissionNext, allVars

----------------------------------------------------------------------------
(* Transcriptions                                                          *)

\* Requests and tasks that do not transcribe leave those that do alone.
Quiet == /\ active' = active /\ state' = state /\ lost' = lost
         /\ \A d \in Client : pc[d] \in TextSteps \/ pc'[d] \in TextSteps => pc'[d] = pc[d]
         /\ Texts' = Texts /\ \A t \in Texts : task'[t].st = "clear" <=> task[t].st = "clear"

LEMMA QuietKeeps == ASSUME HangInv, Quiet PROVE HangInv'
<1>1. Holding' = Holding
  BY DEF Quiet, Holding
<1>2. /\ (\E c \in Client : pc[c] \in TextSteps) => \E c \in Client : pc'[c] \in TextSteps
      /\ (\E t \in Texts : task[t].st # "clear") => \E t \in Texts' : task'[t].st # "clear"
  BY DEF Quiet
<1> QED BY <1>1, <1>2 DEF Quiet, HangInv

\* The requests of Admission that have nothing to do with transcriptions.
LEMMA HangAsk ==
  ASSUME Types, HangInv, NEW c \in Client,
         \/ followUp(c) \/ evidenceSearch(c) \/ route(c) \/ CheckAllowance(c) \/ TakeUser(c) \/ TakeGlobal(c)
         \/ ClassifyMode(c) \/ InvalidAfterQuota(c) \/ SubmitAsk(c) \/ TimeOut(c)
  PROVE  HangInv'
<1>1. /\ active' = active /\ state' = state /\ lost' = lost
  BY DEF followUp, evidenceSearch, route, SignedIn, CheckAllowance, TakeUser, TakeGlobal, ClassifyMode, InvalidAfterQuota,
         SubmitAsk, TimeOut, transcription, admissionVars
<1>2. \A d \in Client : pc[d] \in TextSteps \/ pc'[d] \in TextSteps => pc'[d] = pc[d]
  <2>1. /\ pc[c] \notin TextSteps
        /\ \E to : pc' = [pc EXCEPT ![c] = to] /\ to \notin TextSteps
    <3>1. CASE followUp(c) \/ evidenceSearch(c) \/ route(c)
      BY <3>1 DEF followUp, evidenceSearch, route, SignedIn, Arrive, At, TextSteps
    <3>2. CASE CheckAllowance(c) \/ TakeUser(c) \/ TakeGlobal(c)
      BY <3>2 DEF CheckAllowance, TakeUser, TakeGlobal, Stage, Step, At, Goto, TextSteps
    <3>3. CASE ClassifyMode(c) \/ InvalidAfterQuota(c) \/ SubmitAsk(c) \/ TimeOut(c)
      BY <3>3 DEF ClassifyMode, InvalidAfterQuota, SubmitAsk, Submit, TimeOut, Step, At, Goto, TextSteps
    <3> QED BY <3>1, <3>2, <3>3
  <2> QED BY <2>1 DEF Types, AccountTypes
<1>3. Texts' = Texts /\ \A t \in Texts : task'[t].st = "clear" <=> task[t].st = "clear"
  <2>1. CASE task' = task
    BY <2>1 DEF Texts
  <2>2. CASE SubmitAsk(c) /\ task' # task
    <3>1. PICK t \in Task : /\ task[t].st = "none"
                            /\ task' = [task EXCEPT ![t] = [st |-> "queued", by |-> c, for |-> user[c]]]
      <4>1. PICK t \in Task \ Accepted : task' = [task EXCEPT ![t] = [st |-> "queued", by |-> IF "askSubmit" = "askSubmit" THEN c ELSE None, for |-> user[c]]]
        BY <2>2, Zenon DEF SubmitAsk, Submit
      <4> QED BY <4>1 DEF Accepted
    <3> QED BY <3>1, AdmissionAssumption DEF Texts, Types, AdmissionTypes
  <2>3. CASE TimeOut(c)
    <3>1. \A t \in Task : task'[t].st = task[t].st /\ (task'[t].by = None <=> task[t].by = None)
      BY <2>3, AdmissionAssumption DEF TimeOut, Types, AdmissionTypes
    <3> QED BY <3>1 DEF Texts
  <2> QED BY <2>1, <2>2, <2>3 DEF followUp, evidenceSearch, route, SignedIn, CheckAllowance, TakeUser, TakeGlobal,
         ClassifyMode, InvalidAfterQuota, pool, admissionVars
<1>4. Quiet
  BY <1>1, <1>2, <1>3 DEF Quiet
<1> QED BY <1>4, QuietKeeps

\* The requests of a transcription, up to the task or its refusal.
LEMMA HangText ==
  ASSUME Types, HangInv, NEW c \in Client,
         transcribe(c) \/ SetQueued(c) \/ SubmitText(c) \/ Rejected(c) \/ RejectQueued(c)
  PROVE  HangInv'
<1>0. pc \in [Client -> ClientSteps] /\ task \in [Task -> [st : TaskSteps, by : Client \cup {None, "nobody"}, for : User \cup {None}]]
  BY DEF Types, AccountTypes, AdmissionTypes
<1>1. CASE lost'
  BY <1>1 DEF HangInv
<1>2. CASE ~lost'
  <2>0. /\ ~lost
        /\ active <=> (Holding # {} \/ Texts # {})
        /\ Holding = {} \/ Texts = {}
        /\ \A d, e \in Holding : d = e
        /\ \A s, t \in Texts : s = t
        /\ state \in {"QUEUED", "PROCESSING"} =>
             \/ \E d \in Client : pc[d] \in TextSteps
             \/ \E t \in Texts : task[t].st # "clear"
    BY <1>2 DEF HangInv, transcribe, SetQueued, SetState, SubmitText, Rejected, RejectQueued, ClearActive, transcription
  <2>1. CASE transcribe(c)
    <3>1. Texts' = Texts /\ task' = task /\ state' = state /\ pc[c] = "idle" /\ active \in BOOLEAN
      BY <2>1 DEF transcribe, Queue, Arrive, At, Texts, pool, Types, AdmissionTypes
    <3>2. CASE pc' = [pc EXCEPT ![c] = "idle"] /\ active' = active
      <4>1. Quiet
        BY <1>0, <2>1, <3>1, <3>2 DEF Quiet, TextSteps, transcribe
      <4> QED BY <4>1, QuietKeeps
    <3>3. CASE pc' = [pc EXCEPT ![c] = "textQueued"] /\ active' = TRUE /\ ~active
      <4>1. Holding = {} /\ Texts = {} /\ Holding' = {c}
        BY <1>0, <2>0, <3>1, <3>3 DEF Holding, TextSteps
      <4>2. pc'[c] \in TextSteps
        BY <1>0, <3>3 DEF TextSteps
      <4> QED BY <3>1, <3>3, <4>1, <4>2 DEF HangInv
    <3> QED BY <2>1, <3>1, <3>2, <3>3 DEF transcribe, Queue, Arrive
  <2>2. CASE \/ SetQueued(c)
             \/ Rejected(c) /\ pc[c] = "textRefused"
             \/ SubmitText(c) /\ Step(c, "textSubmit", "textRefused") /\ task' = task
    <3>1. /\ pc[c] \in TextSteps \ {"textFail"} /\ \E to \in TextSteps \ {"textFail"} : pc' = [pc EXCEPT ![c] = to]
          /\ task' = task /\ active' = active
      BY <2>2 DEF SetQueued, Rejected, SubmitText, Step, At, Goto, TextSteps, pool, transcription
    <3>2. Holding' = Holding /\ Texts' = Texts /\ pc'[c] \in TextSteps
      BY <1>0, <3>1 DEF Holding, Texts
    <3> QED BY <2>0, <3>1, <3>2 DEF HangInv
  <2>3. CASE Rejected(c) /\ pc[c] = "askRefused"
    <3>1. Quiet
      BY <1>0, <2>3 DEF Quiet, Rejected, Step, At, Goto, TextSteps, Texts, transcription
    <3> QED BY <3>1, QuietKeeps
  <2>4. CASE /\ SubmitText(c) /\ Step(c, "textSubmit", "idle")
             /\ \E t \in Task : task' = [task EXCEPT ![t] = [st |-> "queued", by |-> None, for |-> user[c]]]
    <3>1. pc[c] = "textSubmit" /\ pc' = [pc EXCEPT ![c] = "idle"] /\ active' = active /\ state' = state
      BY <2>4 DEF SubmitText, Step, At, Goto, transcription
    <3>2. PICK t \in Task : task' = [task EXCEPT ![t] = [st |-> "queued", by |-> None, for |-> user[c]]]
      BY <2>4
    <3>3. c \in Holding
      BY <3>1 DEF Holding, TextSteps
    <3>4. Texts = {} /\ Holding = {c} /\ active
      BY <2>0, <3>3
    <3>5. Holding' = {}
      BY <1>0, <3>1, <3>4 DEF Holding, TextSteps
    <3>6. Texts' = {t} /\ task'[t].st # "clear"
      BY <1>0, <3>2, <3>4 DEF Texts
    <3> QED BY <3>1, <3>4, <3>5, <3>6 DEF HangInv
  <2>5. CASE RejectQueued(c) /\ pc[c] = "textClear"
    <3>1. pc' = [pc EXCEPT ![c] = "textFail"] /\ active' = FALSE /\ state' = state /\ task' = task
      BY <1>2, <2>5 DEF RejectQueued, ClearActive, Step, At, Goto, pool
    <3>2. c \in Holding
      BY <2>5 DEF Holding, TextSteps
    <3>3. Texts = {} /\ Holding = {c} /\ Texts' = Texts
      BY <2>0, <3>1, <3>2 DEF Texts
    <3>4. Holding' = {} /\ pc'[c] \in TextSteps
      BY <1>0, <3>1, <3>3 DEF Holding, TextSteps
    <3> QED BY <3>1, <3>3, <3>4 DEF HangInv
  <2>6. CASE RejectQueued(c) /\ pc[c] = "textFail"
    <3>1. pc' = [pc EXCEPT ![c] = "idle"] /\ active' = active /\ state' = "FAILED" /\ task' = task
      BY <1>2, <2>6 DEF RejectQueued, SetState, Step, At, Goto, pool
    <3>2. Texts' = Texts /\ Holding' = Holding
      BY <1>0, <2>6, <3>1 DEF Holding, Texts, TextSteps
    <3> QED BY <2>0, <3>1, <3>2 DEF HangInv
  <2>7. CASE SubmitText(c)
    BY <2>2, <2>4, <2>7 DEF SubmitText, Submit
  <2> QED BY <2>1, <2>2, <2>3, <2>5, <2>6, <2>7 DEF Rejected, RejectQueued, Step, At
<1> QED BY <1>1, <1>2

\* The tasks of the pool.
LEMMA HangTask ==
  ASSUME Types, HangInv, NEW t \in Task, StartTask(t) \/ FollowUp(t) \/ LeaveTask(t) \/ runTranscription(t)
  PROVE  HangInv'
<1>0. pc \in [Client -> ClientSteps] /\ task \in [Task -> [st : TaskSteps, by : Client \cup {None, "nobody"}, for : User \cup {None}]]
  BY DEF Types, AccountTypes, AdmissionTypes
<1>1. CASE StartTask(t) \/ FollowUp(t) \/ LeaveTask(t)
  <2>1. Texts' = Texts /\ \A s \in Texts : task'[s].st = "clear" <=> task[s].st = "clear"
    <3>1. CASE StartTask(t)
      BY <1>0, <3>1 DEF StartTask, TaskTo, Texts
    <3>2. CASE FollowUp(t)
      <4>1. task[t].st = "call" /\ task'[t].st = "over" /\ \A s \in Task \ {t} : task'[s] = task[s]
        BY <1>0, <3>2 DEF FollowUp
      <4> QED BY <4>1 DEF Texts
    <3>3. CASE LeaveTask(t)
      BY <1>0, <3>3 DEF LeaveTask, NoTask, Texts
    <3> QED BY <1>1, <3>1, <3>2, <3>3
  <2>2. /\ active' = active /\ state' = state /\ lost' = lost
    BY <1>1 DEF StartTask, FollowUp, LeaveTask, transcription
  <2>3. \A d \in Client : pc[d] \in TextSteps \/ pc'[d] \in TextSteps => pc'[d] = pc[d]
    BY <1>0, <1>1 DEF StartTask, FollowUp, LeaveTask, accountVars, Goto, Types, AwaitInv, At, TextSteps
  <2>4. Quiet
    BY <2>1, <2>2, <2>3 DEF Quiet
  <2> QED BY <2>4, QuietKeeps
<1>2. CASE runTranscription(t) /\ lost'
  BY <1>2 DEF HangInv
<1>3. CASE runTranscription(t) /\ ~lost'
  <2>0. /\ pc' = pc /\ Holding' = Holding
        /\ ~lost
        /\ active <=> (Holding # {} \/ Texts # {})
        /\ Holding = {} \/ Texts = {}
        /\ \A d, e \in Holding : d = e
        /\ \A r, s \in Texts : r = s
        /\ state \in {"QUEUED", "PROCESSING"} =>
             \/ \E d \in Client : pc[d] \in TextSteps
             \/ \E s \in Texts : task[s].st # "clear"
    BY <1>3 DEF HangInv, runTranscription, TranscribeVideo, SetState, ClearActive, transcription, Holding
  <2>1. t \in Texts
    BY <1>3 DEF runTranscription, TranscribeVideo, TaskTo, Texts
  <2>2. CASE /\ active' = active /\ state' = state /\ task[t].st \in {"find", "asr"}
             /\ \E to \in {"found", "done", "failed"} : task' = [task EXCEPT ![t].st = to]
    <3>1. Texts' = Texts /\ task'[t].st # "clear"
      BY <1>0, <2>2 DEF Texts
    <3> QED BY <2>0, <2>1, <2>2, <3>1 DEF HangInv
  <2>3. CASE active' = active /\ task[t].st = "found" /\ task' = [task EXCEPT ![t].st = "asr"]
    <3>1. Texts' = Texts /\ task'[t].st # "clear"
      BY <1>0, <2>3 DEF Texts
    <3> QED BY <2>0, <2>1, <2>3, <3>1 DEF HangInv
  <2>4. CASE /\ active' = active /\ state' \in {"COMPLETED", "FAILED"} /\ task[t].st \in {"done", "failed"}
             /\ task' = [task EXCEPT ![t].st = "clear"]
    <3>1. Texts' = Texts
      BY <1>0, <2>4 DEF Texts
    <3> QED BY <2>0, <2>4, <3>1 DEF HangInv
  <2>5. CASE active' = FALSE /\ state' = state /\ task[t].st = "clear" /\ task' = [task EXCEPT ![t].st = "over"]
    <3>1. Texts = {t} /\ Holding = {}
      BY <2>0, <2>1
    <3>2. Texts' = {}
      BY <1>0, <2>5, <3>1 DEF Texts
    <3>3. state \in {"QUEUED", "PROCESSING"} => \E d \in Client : pc[d] \in TextSteps
      BY <2>0, <2>5, <3>1
    <3> QED BY <2>0, <2>5, <3>1, <3>2, <3>3 DEF HangInv
  <2> QED BY <1>3, <2>2, <2>3, <2>4, <2>5 DEF runTranscription, TranscribeVideo, TaskTo, SetState, ClearActive, transcription
<1> QED BY <1>1, <1>2, <1>3

LEMMA HangNext ==
  ASSUME Types, HangInv, [AdmissionNext]_allVars
  PROVE  HangInv'
<1>1. CASE AccountNext /\ UNCHANGED <<limitVars, admissionVars>>
  <2>1. Quiet
    BY <1>1, AccountMoves DEF Quiet, LoginSteps, TextSteps, admissionVars, Texts
  <2> QED BY <2>1, QuietKeeps
<1>2. CASE UNCHANGED <<accountVars, admissionVars>> \/ NextDay
  <2>1. Quiet
    BY <1>2 DEF Quiet, NextDay, accountVars, admissionVars, pool, transcription, Texts
  <2> QED BY <2>1, QuietKeeps
<1> QED BY <1>1, <1>2, HangAsk, HangText, HangTask DEF AdmissionNext, AdmissionStep, allVars

LEMMA HangFollows == ASSUME Types, HangInv PROVE DoesNotHang
<1> SUFFICES ASSUME Status \in {"QUEUED", "PROCESSING"}, ~lost PROVE Texts # {} \/ \E c \in Client : pc[c] \in TextSteps
  BY DEF DoesNotHang, TextSteps
<1>1. ~text /\ (state \in {"QUEUED", "PROCESSING"} \/ (state = "none" /\ active))
  BY DEF Status, Types, AdmissionTypes
<1>2. CASE state \in {"QUEUED", "PROCESSING"}
  BY <1>2 DEF HangInv
<1>3. CASE active
  BY <1>3 DEF HangInv, Holding
<1> QED BY <1>1, <1>2, <1>3

----------------------------------------------------------------------------
(* The system                                                              *)

LEMMA AdmissionInvariant == AdmissionSpec => []AdmissionInv
<1>1. AdmissionInit => AdmissionInv
  <2> SUFFICES ASSUME AdmissionInit PROVE AdmissionInv
    OBVIOUS
  <2>1. Types
    BY AdmissionTypesInit
  <2>2. LockoutEnds /\ AllowanceInv /\ Holding = {} /\ Texts = {} /\ active = FALSE /\ state = "none"
    BY DEF AdmissionInit, AccountInit, LockoutEnds, AllowanceInv, AllowanceHolds, Holding, TextSteps, Texts, NoTask
  <2>3. HangInv
    BY <2>2 DEF HangInv
  <2>4. ASSUME NEW u \in User PROVE Tally(u)
    <3>1. Recording(u) = {} /\ Guessing(u) = {} /\ failures[u] = 0 /\ guesses[u] = 0 /\ faults = 0
      BY DEF AdmissionInit, AccountInit, Recording, Guessing
    <3>2. Cardinality(Recording(u)) = 0 /\ Cardinality(Guessing(u)) = 0 /\ Cardinality(Client) \in Nat
      BY <3>1, FS_EmptySet, ClientCounts
    <3> QED BY <3>1, <3>2, AccountAssumption DEF Tally
  <2> QED BY <2>1, <2>2, <2>3, <2>4 DEF AdmissionInv, GuessInv, Tally
<1>2. AdmissionInv /\ [AdmissionNext]_allVars => AdmissionInv'
  BY TypesNext, LockoutNext, GuessNext, AllowanceNext, HangNext DEF AdmissionInv
<1> QED BY <1>1, <1>2, PTL DEF AdmissionSpec

\* A locked-out username gets its chance back: the failure counter of auth.go always has a time to live, a request
\* that is about to set one, or a failed EXPIRE to blame, for every number of clients, users and faults.
THEOREM LockoutEndsAlways == AdmissionSpec => []LockoutEnds
<1>1. AdmissionInv => LockoutEnds
  BY DEF AdmissionInv
<1> QED BY <1>1, AdmissionInvariant, PTL

\* However many clients guess a password at once, the wrong guesses beyond maxLoginFailures are at most one for each
\* client and one for each failure: LoginAttemptAllowed reads a counter that Login's failure adds to only later.
THEOREM GuessesAreBounded == AdmissionSpec => []GuessesBounded
<1>1. AdmissionInv => GuessesBounded
  BY GuessesFollow DEF AdmissionInv
<1> QED BY <1>1, AdmissionInvariant, PTL

\* A request that comes after Ledger.Check's allowance is used up never reaches a bucket, the pool or a model, in either
\* of the orders the handlers check in.
THEOREM AllowanceAlwaysHolds == AdmissionSpec => []AllowanceHolds
<1>1. AdmissionInv => AllowanceHolds
  BY DEF AdmissionInv, AllowanceInv
<1> QED BY <1>1, AdmissionInvariant, PTL

\* A transcription that is reported as queued or running has a task, or a request, that will end the report: the
\* marker of Queue has one holder from SETNX to clearActive, through refusals and failures.
THEOREM TranscriptionDoesNotHang == AdmissionSpec => []DoesNotHang
<1>1. AdmissionInv => DoesNotHang
  BY HangFollows DEF AdmissionInv
<1> QED BY <1>1, AdmissionInvariant, PTL

\* The handlers touch the buckets only through Take.
LEMMA LimitSteps ==
  ASSUME Types, [AdmissionNext]_allVars
  PROVE  [LimitNext]_limitVars
<1>1. ASSUME NEW c \in Client, TakeUser(c) \/ TakeGlobal(c) PROVE [LimitNext]_limitVars
  <2>1. CASE UNCHANGED limitVars
    BY <2>1
  <2>2. ASSUME NEW scope \in {"ask", "route"}, At(c, Stage[scope].user), Take(<<scope, user[c]>>) PROVE LimitNext
    <3>1. user[c] \in User
      BY <2>2 DEF At, Stage, Types, AccountTypes
    <3>2. <<scope, user[c]>> \in Key
      BY <3>1, AdmissionAssumption
    <3> QED BY <2>2, <3>2 DEF LimitNext
  <2>3. ASSUME NEW scope \in {"ask", "route"}, Take(<<scope, None>>) PROVE LimitNext
    <3>1. <<scope, None>> \in Key
      BY AdmissionAssumption
    <3> QED BY <2>3, <3>1 DEF LimitNext
  <2>4. CASE TakeUser(c)
    BY <2>1, <2>2, <2>4 DEF TakeUser
  <2>5. CASE TakeGlobal(c)
    BY <2>1, <2>3, <2>5 DEF TakeGlobal
  <2> QED BY <1>1, <2>4, <2>5
<1>2. ASSUME NEW c \in Client, AdmissionStep(c), ~TakeUser(c), ~TakeGlobal(c) PROVE UNCHANGED limitVars
  BY <1>2 DEF AdmissionStep, followUp, evidenceSearch, route, SignedIn, CheckAllowance, ClassifyMode, InvalidAfterQuota,
              SubmitAsk, SubmitText, Rejected, TimeOut, transcribe, SetQueued, RejectQueued
<1>3. ASSUME NEW t \in Task, StartTask(t) \/ FollowUp(t) \/ LeaveTask(t) \/ runTranscription(t) PROVE UNCHANGED limitVars
  BY <1>3 DEF StartTask, FollowUp, LeaveTask, runTranscription
<1>4. CASE Tick
  BY <1>4 DEF LimitNext
<1>5. CASE NextDay \/ UNCHANGED allVars
  BY <1>5 DEF NextDay, allVars
<1> QED BY <1>1, <1>2, <1>3, <1>4, <1>5 DEF AdmissionNext

\* In the whole gateway too a bucket is the ideal one: nothing but Take's script writes its key, and every key the
\* handlers use has one.
THEOREM AdmissionBucketsIdeal ==
  ASSUME Lag = {0}
  PROVE  AdmissionSpec => BucketsAreIdeal
<1>1. AdmissionInit => LimitInit
  BY DEF AdmissionInit
<1>2. AdmissionInv /\ [AdmissionNext]_allVars => [LimitNext]_limitVars
  BY LimitSteps DEF AdmissionInv
<1>3. AdmissionSpec => LimitSpec
  BY <1>1, <1>2, AdmissionInvariant, PTL DEF AdmissionSpec, LimitSpec
<1>4. LimitSpec => BucketsAreIdeal
  BY ScriptIsIdeal
<1> QED BY <1>3, <1>4

=============================================================================
