------------------------ MODULE PartitionRunnerProofs ------------------------
(***************************************************************************)
(* The runner of one partition, for any number of records and goroutines   *)
(* and any batch size: a paused partition is never forgotten, and no       *)
(* record is skipped, although more than one batch may be queued.          *)
(***************************************************************************)
EXTENDS PartitionRunner, TLAPS

Dispatching == loop \in {"dispatch", "pause", "enqueue"}

PauseType ==
    /\ loop \in {"poll", "dispatch", "pause", "enqueue", "closing", "closed"}
    /\ cur \in Worker \union {None}
    /\ pc \in [Worker -> {"gone", "loop", "next", "resume", "wait", "handle"}]
    /\ wake \in [Worker -> BOOLEAN] /\ done \in [Worker -> BOOLEAN]
    /\ assigned \in BOOLEAN /\ paused \in BOOLEAN

\* The worker on the map runs and has not been stopped, an ended goroutine leaves nothing behind,
\* and only an assigned partition is dispatched or paused.
PauseInv ==
    /\ PauseType
    /\ PausedMeansBusy
    /\ cur # None => ~done[cur] /\ pc[cur] # "gone"
    /\ \A w \in Worker : pc[w] = "gone" => ~done[w]
    /\ Dispatching => assigned
    /\ loop \in {"pause", "enqueue"} => cur # None
    /\ loop = "poll" /\ ~assigned => ~paused /\ cur = None
    /\ loop \in {"closing", "closed"} => cur = None

USE DEF Dispatching

LEMMA PauseRun ==
    ASSUME PauseInv, Run
    PROVE  PauseInv'
<1>1. CASE Poll
  BY <1>1 DEF PauseInv, PauseType, PausedMeansBusy, Poll, workerVars
<1>2. CASE Dispatch
  <2>1. CASE cur # None
    BY <1>2, <2>1 DEF PauseInv, PauseType, PausedMeansBusy, Dispatch, workerVars, kafkaVars
  <2>2. CASE cur = None
    BY <1>2, <2>2, RunnerAssumption
       DEF PauseInv, PauseType, PausedMeansBusy, Dispatch, workerVars, kafkaVars
  <2> QED BY <2>1, <2>2
<1>3. CASE Pause
  BY <1>3 DEF PauseInv, PauseType, PausedMeansBusy, Pause, workerVars
<1>4. CASE Enqueue
  BY <1>4 DEF PauseInv, PauseType, PausedMeansBusy, Enqueue, kafkaVars
<1> QED BY <1>1, <1>2, <1>3, <1>4 DEF Run

LEMMA PauseWork ==
    ASSUME PauseInv, NEW w \in Worker, Work(w)
    PROVE  PauseInv'
<1>1. CASE CheckStopped(w)
  BY <1>1 DEF PauseInv, PauseType, PausedMeansBusy, CheckStopped, Return, Goto, runVars, kafkaVars
<1>2. CASE Take(w)
  BY <1>2 DEF PauseInv, PauseType, PausedMeansBusy, Take, Goto, runVars, kafkaVars
<1>3. CASE Resume(w)
  BY <1>3 DEF PauseInv, PauseType, PausedMeansBusy, Resume, Goto, runVars
<1>4. CASE Wait(w)
  BY <1>4 DEF PauseInv, PauseType, PausedMeansBusy, Wait, Return, Goto, runVars, kafkaVars
<1>5. CASE HandleOK(w)
  BY <1>5 DEF PauseInv, PauseType, PausedMeansBusy, HandleOK, Goto, runVars
<1>6. CASE GiveUp(w)
  BY <1>6 DEF PauseInv, PauseType, PausedMeansBusy, GiveUp, Return, Goto, runVars, kafkaVars
<1> QED BY <1>1, <1>2, <1>3, <1>4, <1>5, <1>6 DEF Work

LEMMA PauseGroup ==
    ASSUME PauseInv, Group
    PROVE  PauseInv'
<1>1. CASE OnRevoked
  BY <1>1, RunnerAssumption DEF PauseInv, PauseType, PausedMeansBusy, OnRevoked
<1>2. CASE Assign
  BY <1>2 DEF PauseInv, PauseType, PausedMeansBusy, Assign, runVars, workerVars
<1>3. CASE OtherMember
  BY <1>3 DEF PauseInv, PauseType, PausedMeansBusy, OtherMember, runVars, workerVars
<1>4. CASE Shutdown
  BY <1>4, RunnerAssumption DEF PauseInv, PauseType, PausedMeansBusy, Shutdown, kafkaVars
<1>5. CASE CloseAllowingRebalance
  BY <1>5 DEF PauseInv, PauseType, PausedMeansBusy, CloseAllowingRebalance, workerVars
<1> QED BY <1>1, <1>2, <1>3, <1>4, <1>5 DEF Group

LEMMA PauseInit == Init => PauseInv
BY RunnerAssumption DEF Init, PauseInv, PauseType, PausedMeansBusy

LEMMA PauseStep == PauseInv /\ [Next]_vars => PauseInv'
<1> SUFFICES ASSUME PauseInv, [Next]_vars PROVE PauseInv' OBVIOUS
<1>1. CASE UNCHANGED vars
  BY <1>1 DEF PauseInv, PauseType, PausedMeansBusy, vars, runVars, workerVars, kafkaVars
<1> QED BY <1>1, PauseRun, PauseWork, PauseGroup DEF Next

\* No lost wakeup (PauseFetchPartitions in dispatch against ResumeFetchPartitions in next): a
\* partition that is paused between polls always has a worker that will resume it.
THEOREM NoLostWakeup == Spec => []PausedMeansBusy
<1>1. PauseInv => PausedMeansBusy BY DEF PauseInv
<1> QED BY <1>1, PauseInit, PauseStep, PTL DEF Spec

-----------------------------------------------------------------------------
(* Offsets *)

\* s holds the offsets after a, in order and without gaps.
After(s, a) == \A i \in 1 .. Len(s) : s[i] = a + i

\* The last record that has been handed to a worker.
Queued == fetch - Len(batch)

OffsetType ==
    /\ batch \in Seq(Nat) /\ q \in [Worker -> Seq(Nat)] /\ rec \in [Worker -> Nat]
    /\ fetch \in Nat /\ committed \in Nat

\* What a worker has in hand and in its queue continues what has been handled.
ChainInv(w) ==
    /\ pc[w] = "handle" => After(q[w], rec[w]) /\ rec[w] > 0 /\ 1 .. rec[w] - 1 \subseteq handled
    /\ pc[w] # "handle" /\ q[w] # <<>> =>
          After(q[w], q[w][1] - 1) /\ q[w][1] > 0 /\ 1 .. q[w][1] - 1 \subseteq handled
    /\ pc[w] = "gone" => q[w] = <<>>

\* The current worker's queue ends where the next batch starts.
CurInv ==
    /\ cur # None =>
         /\ pc[cur] = "handle" => rec[cur] + Len(q[cur]) = Queued
         /\ pc[cur] # "handle" /\ q[cur] # <<>> => q[cur][1] - 1 + Len(q[cur]) = Queued
         /\ pc[cur] # "handle" /\ q[cur] = <<>> => 1 .. Queued \subseteq handled
    /\ cur = None /\ assigned /\ loop \in {"poll", "dispatch"} => 1 .. Queued \subseteq handled

\* The inductive invariant.
OffsetInv ==
    /\ PauseInv /\ OffsetType
    /\ \A w \in Worker : ChainInv(w)
    /\ CurInv
    /\ 1 .. committed \subseteq handled
    /\ After(batch, Queued) /\ Queued \in Nat
    /\ IF Dispatching THEN batch # <<>> ELSE batch = <<>>

\* Steps that leave the queues and what is in hand alone.
LEMMA OffsetFrame ==
    ASSUME OffsetInv, PauseInv', UNCHANGED <<q, rec, batch, fetch, committed>>,
           handled \subseteq handled',
           Dispatching' = Dispatching,
           \A w \in Worker : (pc'[w] = "handle" <=> pc[w] = "handle") /\ (pc'[w] = "gone" => pc[w] = "gone"),
           cur' = cur \/ (cur' = None /\ ~(assigned' /\ loop' \in {"poll", "dispatch"})),
           assigned' /\ loop' \in {"poll", "dispatch"} => assigned /\ loop \in {"poll", "dispatch"}
    PROVE  OffsetInv'
<1>1. OffsetType' /\ Queued' = Queued BY DEF OffsetInv, OffsetType, Queued
<1>2. ASSUME NEW w \in Worker PROVE ChainInv(w)'
  <2>1. ChainInv(w) BY DEF OffsetInv
  <2> QED BY <2>1 DEF ChainInv, After
<1>3. CurInv'
  <2>1. CurInv BY DEF OffsetInv
  <2>2. cur \in Worker \union {None} BY DEF OffsetInv, PauseInv, PauseType
  <2> QED BY <1>1, <2>1, <2>2 DEF CurInv
<1>4. (After(batch, Queued) /\ Queued \in Nat)'
  BY <1>1 DEF OffsetInv, After
<1> QED BY <1>1, <1>2, <1>3, <1>4 DEF OffsetInv

LEMMA OffsetPoll ==
    ASSUME OffsetInv, PauseInv', Poll
    PROVE  OffsetInv'
<1>1. PICK n \in 1 .. MaxBatch :
        /\ batch' = [i \in 1 .. n |-> fetch + i] /\ fetch' = fetch + n
  BY DEF Poll
<1>2. /\ loop = "poll" /\ loop' = "dispatch" /\ assigned /\ batch = <<>>
      /\ UNCHANGED <<cur, pc, q, rec, assigned, committed, handled>>
  BY DEF Poll, workerVars, OffsetInv
<1>3. n \in Nat \ {0} /\ fetch \in Nat BY RunnerAssumption DEF OffsetInv, OffsetType
<1>4. batch' \in Seq(Nat) /\ Len(batch') = n /\ \A i \in 1 .. n : batch'[i] = fetch + i
  BY <1>1, <1>3
<1>5. Queued = fetch /\ Queued' = fetch BY <1>1, <1>2, <1>3, <1>4 DEF Queued
<1>6. OffsetType' BY <1>1, <1>2, <1>3, <1>4 DEF OffsetInv, OffsetType
<1>7. ASSUME NEW w \in Worker PROVE ChainInv(w)'
  BY <1>2 DEF OffsetInv, ChainInv, After
<1>8. CurInv' BY <1>2, <1>5 DEF OffsetInv, CurInv
<1>9. After(batch, Queued)' /\ (Queued \in Nat)' BY <1>3, <1>4, <1>5 DEF After
<1>10. batch' # <<>> BY <1>3, <1>4
<1> QED BY <1>2, <1>6, <1>7, <1>8, <1>9, <1>10 DEF OffsetInv

LEMMA OffsetDispatch ==
    ASSUME OffsetInv, PauseInv', Dispatch
    PROVE  OffsetInv'
<1>1. /\ loop = "dispatch" /\ loop' = "pause"
      /\ UNCHANGED <<q, rec, batch, assigned, fetch, committed, handled>>
  BY DEF Dispatch, workerVars, kafkaVars
<1>2. CASE cur # None
  BY <1>1, <1>2, OffsetFrame DEF Dispatch, workerVars
<1>3. CASE cur = None
  <2>1. PICK w \in Worker : pc[w] = "gone" /\ cur' = w /\ pc' = [pc EXCEPT ![w] = "loop"]
    BY <1>3 DEF Dispatch
  <2>2. q[w] = <<>> /\ pc'[w] = "loop" /\ w # None
    BY <2>1, RunnerAssumption DEF OffsetInv, ChainInv, PauseInv, PauseType
  <2>3. Queued' = Queued /\ 1 .. Queued \subseteq handled
    BY <1>1, <1>3 DEF OffsetInv, CurInv, Queued, PauseInv
  <2>4. CurInv' BY <1>1, <2>1, <2>2, <2>3 DEF CurInv
  <2>5. ASSUME NEW u \in Worker PROVE ChainInv(u)'
    <3>1. ChainInv(u) BY DEF OffsetInv
    <3>2. (pc'[u] = "handle" <=> pc[u] = "handle") /\ (pc'[u] = "gone" => pc[u] = "gone")
      BY <2>1 DEF OffsetInv, PauseInv, PauseType
    <3> QED BY <1>1, <3>1, <3>2 DEF ChainInv, After
  <2>6. OffsetType' /\ (After(batch, Queued) /\ Queued \in Nat)'
    BY <1>1, <2>3 DEF OffsetInv, OffsetType, After
  <2> QED BY <1>1, <2>4, <2>5, <2>6 DEF OffsetInv
<1> QED BY <1>2, <1>3

\* The batch is appended to a queue that ends where it starts.
LEMMA OffsetEnqueue ==
    ASSUME OffsetInv, PauseInv', Enqueue
    PROVE  OffsetInv'
<1> DEFINE s == q[cur] \o batch
<1>1. /\ loop = "enqueue" /\ loop' = "poll" /\ batch' = <<>> /\ q' = [q EXCEPT ![cur] = s]
      /\ UNCHANGED <<cur, pc, rec, assigned, fetch, committed, handled>>
  BY DEF Enqueue, kafkaVars
<1>2. cur \in Worker /\ cur # None BY <1>1 DEF OffsetInv, PauseInv, PauseType
<1>3. /\ q[cur] \in Seq(Nat) /\ batch \in Seq(Nat) /\ batch # <<>> /\ fetch \in Nat
      /\ rec[cur] \in Nat
  BY <1>1, <1>2 DEF OffsetInv, OffsetType
<1>4. /\ s \in Seq(Nat) /\ Len(s) = Len(q[cur]) + Len(batch)
      /\ \A i \in 1 .. Len(q[cur]) : s[i] = q[cur][i]
      /\ \A i \in 1 .. Len(batch) : s[Len(q[cur]) + i] = batch[i]
      /\ Len(batch) > 0
  BY <1>3
<1>5. After(batch, Queued) /\ Queued + Len(batch) = fetch /\ Queued \in Nat
  BY <1>3 DEF OffsetInv, Queued
<1>6. Queued' = fetch BY <1>1, <1>3 DEF Queued
<1> HIDE DEF s
<1>7. ChainInv(cur) /\ CurInv /\ pc[cur] # "gone" BY <1>2 DEF OffsetInv, PauseInv
<1>8. Len(q[cur]) \in Nat /\ Len(batch) \in Nat /\ Len(s) \in Nat BY <1>3, <1>4
<1>9. ASSUME NEW a \in Int, After(q[cur], a), a + Len(q[cur]) = Queued
      PROVE  After(s, a) /\ a + Len(s) = fetch
  <2>0. a + Len(q[cur]) = Queued /\ Queued + Len(batch) = fetch
    BY <1>5, <1>9
  <2>1. ASSUME NEW i \in 1 .. Len(s) PROVE s[i] = a + i
    <3>1. CASE i <= Len(q[cur])
      BY <1>4, <1>8, <1>9, <3>1 DEF After
    <3>2. CASE i > Len(q[cur])
      <4> DEFINE k == i - Len(q[cur])
      <4>1. k \in 1 .. Len(batch) /\ Len(q[cur]) + k = i BY <1>4, <1>8, <3>2
      <4>2. s[Len(q[cur]) + k] = batch[k] BY <1>4, <4>1
      <4>3. batch[k] = Queued + k BY <1>5, <4>1 DEF After
      <4>4. Queued + k = a + i BY <1>8, <2>0
      <4> QED BY <4>1, <4>2, <4>3, <4>4
    <3> QED BY <1>8, <3>1, <3>2
  <2>2. a + Len(s) = fetch BY <1>4, <1>8, <2>0
  <2> QED BY <2>1, <2>2 DEF After
<1>10. q'[cur] = s /\ s # <<>> BY <1>1, <1>2, <1>3, <1>4 DEF OffsetInv, OffsetType
<1>11. ChainInv(cur)' /\ CurInv'
  <2>1. CASE pc[cur] = "handle"
    <3>1. After(s, rec[cur]) /\ rec[cur] + Len(s) = fetch
      BY <1>2, <1>3, <1>7, <1>9, <2>1 DEF ChainInv, CurInv
    <3>2. ChainInv(cur)' BY <1>1, <1>7, <1>10, <2>1, <3>1 DEF ChainInv, After
    <3>3. CurInv' BY <1>1, <1>2, <1>6, <1>10, <2>1, <3>1 DEF CurInv
    <3> QED BY <3>2, <3>3
  <2>2. CASE pc[cur] # "handle"
    <3> SUFFICES ASSUME /\ s[1] \in Nat \ {0} /\ After(s, s[1] - 1) /\ s[1] - 1 + Len(s) = fetch
                        /\ 1 .. s[1] - 1 \subseteq handled
                 PROVE  ChainInv(cur)' /\ CurInv'
      <4>1. CASE q[cur] # <<>>
        <5>1. 1 \in 1 .. Len(q[cur]) BY <1>3, <1>8, <4>1
        <5>2. q[cur][1] \in Nat /\ s[1] = q[cur][1]
          <6>1. q[cur][1] \in Nat BY <1>3, <5>1
          <6>2. s[1] = q[cur][1] BY <1>4, <5>1
          <6> QED BY <6>1, <6>2
        <5>3. /\ q[cur][1] > 0 /\ 1 .. q[cur][1] - 1 \subseteq handled
              /\ After(q[cur], q[cur][1] - 1) /\ q[cur][1] - 1 + Len(q[cur]) = Queued
          BY <1>2, <1>7, <2>2, <4>1 DEF ChainInv, CurInv
        <5>4. After(s, q[cur][1] - 1) /\ q[cur][1] - 1 + Len(s) = fetch BY <1>9, <5>2, <5>3
        <5> QED BY <5>2, <5>3, <5>4
      <4>2. CASE q[cur] = <<>>
        <5>1. Len(q[cur]) = 0 BY <4>2
        <5>2. After(s, Queued) /\ Queued + Len(s) = fetch BY <1>5, <1>9, <5>1 DEF After
        <5>3. s[1] = Queued + 1 BY <1>4, <1>8, <5>1, <5>2 DEF After
        <5>4. 1 .. Queued \subseteq handled BY <1>2, <1>7, <2>2, <4>2 DEF CurInv
        <5>5. s[1] - 1 = Queued /\ s[1] \in Nat \ {0} BY <1>5, <5>3
        <5> QED BY <5>2, <5>4, <5>5
      <4> QED BY <4>1, <4>2
    <3>1. ChainInv(cur)' BY <1>1, <1>7, <1>10, <2>2 DEF ChainInv, After
    <3>2. CurInv' BY <1>1, <1>2, <1>6, <1>10, <2>2 DEF CurInv
    <3> QED BY <3>1, <3>2
  <2> QED BY <2>1, <2>2
<1>12. ASSUME NEW u \in Worker PROVE ChainInv(u)'
  <2>1. CASE u = cur BY <1>11, <2>1, <1>1 DEF ChainInv
  <2>2. CASE u # cur
    <3>1. q'[u] = q[u] /\ ChainInv(u) BY <1>1, <2>2 DEF OffsetInv, OffsetType
    <3> QED BY <1>1, <3>1 DEF ChainInv, After
  <2> QED BY <2>1, <2>2
<1>13. OffsetType' BY <1>1, <1>2, <1>3, <1>4 DEF OffsetInv, OffsetType
<1>14. After(batch, Queued)' /\ (Queued \in Nat)' BY <1>1, <1>3, <1>6 DEF After
<1> QED BY <1>1, <1>11, <1>12, <1>13, <1>14 DEF OffsetInv

\* The head of the queue is the record after what has been handled.
LEMMA OffsetTake ==
    ASSUME OffsetInv, PauseInv', NEW w \in Worker, Take(w)
    PROVE  OffsetInv'
<1>1. pc[w] = "next" /\ UNCHANGED <<loop, batch, cur, assigned, fetch, committed, handled>>
  BY DEF Take, runVars, kafkaVars
<1>2. CASE q[w] = <<>>
  <2>1. UNCHANGED <<q, rec>> /\ pc' = [pc EXCEPT ![w] = IF done[w] THEN "wait" ELSE "resume"]
    BY <1>2 DEF Take, Goto
  <2> QED BY <1>1, <2>1, OffsetFrame DEF OffsetInv, PauseInv, PauseType
<1>3. CASE q[w] # <<>>
  <2>1. /\ rec' = [rec EXCEPT ![w] = Head(q[w])] /\ q' = [q EXCEPT ![w] = Tail(q[w])]
        /\ pc' = [pc EXCEPT ![w] = "handle"]
    BY <1>3 DEF Take, Goto
  <2>2. q[w] \in Seq(Nat) /\ ChainInv(w) /\ CurInv BY DEF OffsetInv, OffsetType
  <2>3. /\ Head(q[w]) = q[w][1] /\ Head(q[w]) \in Nat /\ Tail(q[w]) \in Seq(Nat)
        /\ Len(q[w]) \in Nat \ {0} /\ Len(Tail(q[w])) = Len(q[w]) - 1
        /\ \A i \in 1 .. Len(q[w]) - 1 : Tail(q[w])[i] = q[w][i + 1]
    BY <1>3, <2>2
  <2>4. pc'[w] = "handle" /\ rec'[w] = q[w][1] /\ q'[w] = Tail(q[w])
    BY <2>1, <2>3 DEF OffsetInv, OffsetType, PauseInv, PauseType
  <2>5. After(q[w], q[w][1] - 1) /\ 1 .. q[w][1] - 1 \subseteq handled
    BY <1>1, <1>3, <2>2 DEF ChainInv
  <2>6. After(Tail(q[w]), q[w][1])
    <3> SUFFICES ASSUME NEW i \in 1 .. Len(q[w]) - 1 PROVE Tail(q[w])[i] = q[w][1] + i
      BY <2>3 DEF After
    <3>1. i + 1 \in 1 .. Len(q[w]) BY <2>3
    <3>2. q[w][i + 1] = q[w][1] - 1 + (i + 1) BY <2>5, <3>1 DEF After
    <3> QED BY <2>3, <3>2
  <2>7. q[w][1] > 0
    BY <1>1, <1>3, <2>2 DEF ChainInv
  <2>8. Queued' = Queued BY <1>1 DEF Queued
  <2>9. ASSUME NEW u \in Worker PROVE ChainInv(u)'
    <3>1. CASE u = w BY <1>1, <2>4, <2>5, <2>6, <2>7, <3>1 DEF ChainInv, After
    <3>2. CASE u # w
      <4>1. pc'[u] = pc[u] /\ rec'[u] = rec[u] /\ q'[u] = q[u]
        BY <2>1, <3>2 DEF OffsetInv, OffsetType, PauseInv, PauseType
      <4> QED BY <1>1, <4>1 DEF OffsetInv, ChainInv, After
    <3> QED BY <3>1, <3>2
  <2>10. CurInv'
    <3>1. CASE cur = w
      <4>1. q[w][1] - 1 + Len(q[w]) = Queued /\ w # None
        BY <1>1, <1>3, <2>2, <3>1, RunnerAssumption DEF CurInv
      <4>2. q[w][1] + Len(Tail(q[w])) = Queued BY <2>3, <4>1
      <4> QED BY <1>1, <2>4, <2>8, <3>1, <4>1, <4>2 DEF CurInv
    <3>2. CASE cur # w
      <4>1. cur # None => pc'[cur] = pc[cur] /\ rec'[cur] = rec[cur] /\ q'[cur] = q[cur]
        BY <2>1, <3>2 DEF OffsetInv, OffsetType, PauseInv, PauseType
      <4> QED BY <1>1, <2>2, <2>8, <4>1 DEF CurInv
    <3> QED BY <3>1, <3>2
  <2>11. OffsetType' BY <1>1, <2>1, <2>3 DEF OffsetInv, OffsetType
  <2> QED BY <1>1, <2>8, <2>9, <2>10, <2>11 DEF OffsetInv, After
<1> QED BY <1>2, <1>3

\* The record is handled: what follows it in the queue is next.
LEMMA OffsetHandle ==
    ASSUME OffsetInv, PauseInv', NEW w \in Worker, HandleOK(w)
    PROVE  OffsetInv'
<1>1. /\ pc[w] = "handle" /\ handled' = handled \union {rec[w]}
      /\ pc' = [pc EXCEPT ![w] = "loop"] /\ rec' = [rec EXCEPT ![w] = 0]
      /\ committed' \in {committed, rec[w]}
      /\ UNCHANGED <<loop, batch, cur, q, assigned, fetch>>
  BY DEF HandleOK, Goto, runVars
<1>2. ChainInv(w) /\ CurInv /\ q[w] \in Seq(Nat) /\ rec[w] \in Nat
  BY DEF OffsetInv, OffsetType
<1>3. After(q[w], rec[w]) /\ rec[w] > 0 /\ 1 .. rec[w] - 1 \subseteq handled
  BY <1>1, <1>2 DEF ChainInv
<1>4. 1 .. rec[w] \subseteq handled' /\ handled \subseteq handled'
  BY <1>1, <1>2, <1>3
<1>5. pc'[w] = "loop" BY <1>1 DEF OffsetInv, PauseInv, PauseType
<1>6. Queued' = Queued BY <1>1 DEF Queued
<1>7. ASSUME q[w] # <<>> PROVE q[w][1] = rec[w] + 1 /\ q[w][1] - 1 = rec[w]
  <2>1. 1 \in 1 .. Len(q[w]) BY <1>2, <1>7
  <2>2. q[w][1] = rec[w] + 1 BY <1>3, <2>1 DEF After
  <2> QED BY <1>2, <2>2
<1>8. ASSUME NEW u \in Worker PROVE ChainInv(u)'
  <2>1. CASE u = w
    BY <1>1, <1>2, <1>3, <1>4, <1>5, <1>7, <2>1 DEF ChainInv, After
  <2>2. CASE u # w
    <3>1. pc'[u] = pc[u] /\ rec'[u] = rec[u] /\ ChainInv(u)
      BY <1>1, <2>2 DEF OffsetInv, OffsetType, PauseInv, PauseType
    <3> QED BY <1>1, <1>4, <3>1 DEF ChainInv, After
  <2> QED BY <2>1, <2>2
<1>9. CurInv'
  <2>1. CASE cur = w
    <3>1. rec[w] + Len(q[w]) = Queued /\ w # None
      BY <1>1, <1>2, <2>1, RunnerAssumption DEF CurInv
    <3>2. q[w] = <<>> => rec[w] = Queued BY <1>2, <3>1
    <3> QED BY <1>1, <1>4, <1>5, <1>6, <1>7, <2>1, <3>1, <3>2 DEF CurInv
  <2>2. CASE cur # w
    <3>1. cur # None => pc'[cur] = pc[cur] /\ rec'[cur] = rec[cur]
      BY <1>1, <2>2 DEF OffsetInv, OffsetType, PauseInv, PauseType
    <3> QED BY <1>1, <1>2, <1>4, <1>6, <3>1 DEF CurInv
  <2> QED BY <2>1, <2>2
<1>10. OffsetType' BY <1>1, <1>2 DEF OffsetInv, OffsetType
<1>11. 1 .. committed' \subseteq handled' BY <1>1, <1>4 DEF OffsetInv
<1> QED BY <1>1, <1>6, <1>8, <1>9, <1>10, <1>11 DEF OffsetInv, After

\* Only a stopped worker returns, and the current one is not stopped.
LEMMA OffsetReturn ==
    ASSUME OffsetInv, PauseInv', NEW w \in Worker, done[w], Return(w),
           UNCHANGED <<runVars, kafkaVars, handled>>
    PROVE  OffsetInv'
<1>1. /\ pc' = [pc EXCEPT ![w] = "gone"] /\ q' = [q EXCEPT ![w] = <<>>]
      /\ rec' = [rec EXCEPT ![w] = 0]
      /\ UNCHANGED <<loop, batch, cur, assigned, fetch, committed, handled>>
  BY DEF Return, Goto, runVars, kafkaVars
<1>2. cur # w BY RunnerAssumption DEF OffsetInv, PauseInv
<1>3. Queued' = Queued BY <1>1 DEF Queued
<1>4. ASSUME NEW u \in Worker PROVE ChainInv(u)'
  <2>1. CASE u = w
    BY <1>1, <2>1 DEF ChainInv, OffsetInv, OffsetType, PauseInv, PauseType
  <2>2. CASE u # w
    <3>1. pc'[u] = pc[u] /\ rec'[u] = rec[u] /\ q'[u] = q[u] /\ ChainInv(u)
      BY <1>1, <2>2 DEF OffsetInv, OffsetType, PauseInv, PauseType
    <3> QED BY <1>1, <3>1 DEF ChainInv, After
  <2> QED BY <2>1, <2>2
<1>5. CurInv'
  <2>1. cur # None => pc'[cur] = pc[cur] /\ rec'[cur] = rec[cur] /\ q'[cur] = q[cur]
    BY <1>1, <1>2 DEF OffsetInv, OffsetType, PauseInv, PauseType
  <2> QED BY <1>1, <1>3, <2>1 DEF OffsetInv, CurInv
<1>6. OffsetType' BY <1>1 DEF OffsetInv, OffsetType
<1> QED BY <1>1, <1>3, <1>4, <1>5, <1>6 DEF OffsetInv, After

LEMMA OffsetWork ==
    ASSUME OffsetInv, PauseInv', NEW w \in Worker, Work(w)
    PROVE  OffsetInv'
<1>1. CASE CheckStopped(w)
  <2>1. CASE done[w] BY <1>1, <2>1, OffsetReturn DEF CheckStopped
  <2>2. CASE ~done[w]
    BY <1>1, <2>2, OffsetFrame
       DEF CheckStopped, Goto, runVars, kafkaVars, OffsetInv, PauseInv, PauseType
  <2> QED BY <2>1, <2>2
<1>2. CASE Take(w) BY <1>2, OffsetTake
<1>3. CASE Resume(w)
  BY <1>3, OffsetFrame DEF Resume, Goto, runVars, OffsetInv, PauseInv, PauseType
<1>4. CASE Wait(w)
  <2>1. CASE done[w] /\ Return(w) BY <1>4, <2>1, OffsetReturn DEF Wait
  <2>2. CASE ~(done[w] /\ Return(w))
    BY <1>4, <2>2, OffsetFrame
       DEF Wait, Goto, runVars, kafkaVars, OffsetInv, PauseInv, PauseType
  <2> QED BY <2>1, <2>2
<1>5. CASE HandleOK(w) BY <1>5, OffsetHandle
<1>6. CASE GiveUp(w) BY <1>6, OffsetReturn DEF GiveUp
<1> QED BY <1>1, <1>2, <1>3, <1>4, <1>5, <1>6 DEF Work

LEMMA OffsetGroup ==
    ASSUME OffsetInv, PauseInv', Group
    PROVE  OffsetInv'
<1>1. CASE OnRevoked BY <1>1, OffsetFrame DEF OnRevoked
<1>2. CASE Assign
  <2>1. /\ loop = "poll" /\ fetch' = committed /\ assigned' = TRUE
        /\ UNCHANGED <<loop, batch, cur, pc, q, rec, committed, handled>>
    BY <1>2 DEF Assign, runVars, workerVars
  <2>2. batch = <<>> /\ committed \in Nat BY <2>1 DEF OffsetInv, OffsetType
  <2>3. Queued' = committed BY <2>1, <2>2 DEF Queued
  <2>4. cur = None BY <1>2 DEF Assign, OffsetInv, PauseInv
  <2>5. CurInv' BY <2>1, <2>3, <2>4 DEF CurInv, OffsetInv
  <2>6. ASSUME NEW u \in Worker PROVE ChainInv(u)'
    BY <2>1 DEF OffsetInv, ChainInv, After
  <2>7. After(batch, Queued)' /\ (Queued \in Nat)' /\ OffsetType'
    BY <2>1, <2>2, <2>3 DEF After, OffsetInv, OffsetType
  <2> QED BY <2>1, <2>5, <2>6, <2>7 DEF OffsetInv
<1>3. CASE OtherMember
  <2>1. /\ ~assigned /\ committed' = committed + 1 /\ handled' = handled \union {committed + 1}
        /\ UNCHANGED <<loop, batch, cur, pc, q, rec, assigned, fetch>>
    BY <1>3 DEF OtherMember, runVars, workerVars
  <2>2. Queued' = Queued /\ committed \in Nat BY <2>1 DEF Queued, OffsetInv, OffsetType
  <2>3. 1 .. committed' \subseteq handled' BY <2>1, <2>2 DEF OffsetInv
  <2>4. CurInv' BY <2>1, <2>2 DEF CurInv, OffsetInv
  <2>5. ASSUME NEW u \in Worker PROVE ChainInv(u)'
    BY <2>1 DEF OffsetInv, ChainInv, After
  <2>6. OffsetType' BY <2>1, <2>2 DEF OffsetInv, OffsetType
  <2> QED BY <2>1, <2>2, <2>3, <2>4, <2>5, <2>6 DEF OffsetInv, After
<1>4. CASE Shutdown BY <1>4, OffsetFrame DEF Shutdown, kafkaVars
<1>5. CASE CloseAllowingRebalance
  BY <1>5, OffsetFrame DEF CloseAllowingRebalance, workerVars
<1> QED BY <1>1, <1>2, <1>3, <1>4, <1>5 DEF Group

\* The runner hands records over in order and without gaps, whatever the batches, rebalances and
\* detached workers: the record in a worker's hand follows what has been handled.
THEOREM RecordsInOrder == Spec => []NothingSkipped
<1>1. Init => OffsetInv
  <2> SUFFICES ASSUME Init PROVE OffsetInv OBVIOUS
  <2>0. <<>> \in Seq(Nat) /\ Len(<<>>) = 0 OBVIOUS
  <2>1. OffsetType /\ Queued = 0
    <3>1. q \in [Worker -> Seq(Nat)] /\ rec \in [Worker -> Nat] BY <2>0 DEF Init
    <3>2. batch = <<>> /\ fetch = 0 /\ committed = 0 BY DEF Init
    <3>3. OffsetType BY <2>0, <3>1, <3>2 DEF OffsetType
    <3>4. Len(batch) = 0 BY <3>2
    <3>5. fetch \in Nat /\ Len(batch) \in Nat /\ fetch = Len(batch) BY <3>2, <3>4
    <3>6. fetch - Len(batch) = 0 BY <3>5
    <3> QED BY <3>3, <3>6 DEF Queued
  <2>2. \A w \in Worker : ChainInv(w) BY DEF Init, ChainInv
  <2>3. CurInv BY <2>1 DEF Init, CurInv
  <2>4. After(batch, Queued) /\ Queued \in Nat BY <2>1 DEF Init, After
  <2> QED BY <2>1, <2>2, <2>3, <2>4, PauseInit DEF Init, OffsetInv
<1>2. OffsetInv /\ [Next]_vars => OffsetInv'
  <2> SUFFICES ASSUME OffsetInv, [Next]_vars PROVE OffsetInv' OBVIOUS
  <2>1. PauseInv' BY PauseStep DEF OffsetInv
  <2>2. CASE UNCHANGED vars
    BY <2>1, <2>2, OffsetFrame DEF vars, runVars, workerVars, kafkaVars
  <2>3. CASE Run
    <3>1. CASE Poll BY <2>1, <3>1, OffsetPoll
    <3>2. CASE Dispatch BY <2>1, <3>2, OffsetDispatch
    <3>3. CASE Pause BY <2>1, <3>3, OffsetFrame DEF Pause, workerVars
    <3>4. CASE Enqueue BY <2>1, <3>4, OffsetEnqueue
    <3> QED BY <2>3, <3>1, <3>2, <3>3, <3>4 DEF Run
  <2>4. CASE \E w \in Worker : Work(w) BY <2>1, <2>4, OffsetWork
  <2>5. CASE Group BY <2>1, <2>5, OffsetGroup
  <2> QED BY <2>2, <2>3, <2>4, <2>5 DEF Next
<1>3. OffsetInv => NothingSkipped BY DEF OffsetInv, ChainInv, NothingSkipped
<1> QED BY <1>1, <1>2, <1>3, PTL DEF Spec
=============================================================================
