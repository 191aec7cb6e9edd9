------------------------- MODULE TaskPipelineProofs -------------------------
(***************************************************************************)
(* What the pipeline keeps, for any number of partitions, workers and      *)
(* requests.  Under every fault: it commits only what it has handled, and  *)
(* what it gave up on can be found by an administrator.  Without a fault   *)
(* that loses a task (Losing): no task is lost, not even when a partition  *)
(* changes hands while a worker holds one of its records.  Without a fault *)
(* that undoes finished work (Disturbing): a redelivered analysis is       *)
(* absorbed.  Without a fault that gives a key two tasks (Doubling), and   *)
(* until a partition changes hands: the active marker stays during         *)
(* retries, and every task ends visibly.                                   *)
(*                                                                         *)
(* Each actor's step is first reduced to what it moves (the ...Moves       *)
(* lemmas); the invariants then argue from those.                          *)
(***************************************************************************)
EXTENDS TaskPipeline, TLAPS

\* Every record of p up to offset n has been handled.
HandledUpTo(p, n) == \A o \in 1 .. n : Handled(p, o)

PC == {"idle", "lock", "process", "prepare", "analyze", "run", "conclude", "route", "settle",
       "unlock", "commit", "backoff", "poison"}
Verdict == Outcome \union {"none", "transient", "permanent", "redeliver"}
Job == [part : Topic \X (Keys \union {None}), off : Nat]

PositionType ==
    /\ committed \in [Partition -> Nat] /\ pos \in [Partition -> Nat]
    /\ pc \in [Worker -> PC] /\ job \in [Worker -> Job] /\ verdict \in [Worker -> Verdict]

\* What a worker relies on: everything before its record has been handled; when it commits, the
\* record too; when it is about to return, Handle has an outcome.
WorkerInv(w) ==
    /\ pc[w] # "idle" => /\ job[w].part \in Partition /\ job[w].off \in Nat \ {0}
                         /\ HandledUpTo(job[w].part, job[w].off - 1)
    /\ pc[w] = "commit" => Handled(job[w].part, job[w].off)
    /\ pc[w] \in {"settle", "unlock"} => verdict[w] \in Outcome \union {"redeliver"}

\* The inductive invariant.
PositionInv ==
    /\ PositionType
    /\ \A p \in Partition : HandledUpTo(p, committed[p]) /\ HandledUpTo(p, pos[p])
    /\ \A w \in Worker : WorkerInv(w)

-----------------------------------------------------------------------------
(* Steps that leave offsets and positions alone *)

\* What has been handled stays handled.
LEMMA HandledGrows ==
    ASSUME handled \subseteq handled', NEW p, NEW n
    PROVE  /\ Handled(p, n) => Handled(p, n)'
           /\ HandledUpTo(p, n) => HandledUpTo(p, n)'
BY DEF Handled, HandledUpTo

\* A worker the step does not concern.
LEMMA SameWorker ==
    ASSUME PositionInv, NEW u \in Worker, handled \subseteq handled',
           pc'[u] = pc[u], job'[u] = job[u], verdict'[u] = verdict[u]
    PROVE  WorkerInv(u)'
<1>1. WorkerInv(u) BY DEF PositionInv
<1>2. HandledUpTo(job[u].part, job[u].off - 1) => HandledUpTo(job[u].part, job[u].off - 1)'
  BY HandledGrows
<1>3. Handled(job[u].part, job[u].off) => Handled(job[u].part, job[u].off)'
  BY HandledGrows
<1> QED BY <1>1, <1>2, <1>3 DEF WorkerInv

\* Nothing a worker relies on changes (requests, the environment).
LEMMA IdleStep ==
    ASSUME PositionInv, UNCHANGED <<committed, pos, pc, job, verdict, handled>>
    PROVE  PositionInv'
BY DEF PositionInv, PositionType, WorkerInv, HandledUpTo, Handled

\* A worker goes on with its record: it does not rest, reaches "commit" only with the record
\* handled, and "settle" and "unlock" only with an outcome.
LEMMA WorkStep ==
    ASSUME PositionInv, NEW w \in Worker, NEW l \in PC \ {"idle"}, NEW v \in Verdict,
           pc[w] # "idle", UNCHANGED <<committed, pos, job>>, handled \subseteq handled',
           pc' = [pc EXCEPT ![w] = l], verdict' = [verdict EXCEPT ![w] = v],
           l = "commit" => Handled(job[w].part, job[w].off)',
           l \in {"settle", "unlock"} => v \in Outcome \union {"redeliver"}
    PROVE  PositionInv'
<1>1. PositionType' BY DEF PositionInv, PositionType
<1>2. \A p \in Partition : (HandledUpTo(p, committed[p]) /\ HandledUpTo(p, pos[p]))'
  BY HandledGrows DEF PositionInv
<1>3. ASSUME NEW u \in Worker PROVE WorkerInv(u)'
  <2>1. CASE u = w
    <3>1. WorkerInv(w) BY DEF PositionInv
    <3>2. HandledUpTo(job[w].part, job[w].off - 1) => HandledUpTo(job[w].part, job[w].off - 1)'
      BY HandledGrows
    <3> QED BY <2>1, <3>1, <3>2 DEF WorkerInv, PositionInv, PositionType
  <2>2. CASE u # w
    BY <2>2, SameWorker DEF PositionInv, PositionType
  <2> QED BY <2>1, <2>2
<1> QED BY <1>1, <1>2, <1>3 DEF PositionInv

-----------------------------------------------------------------------------
(* The steps that move offsets and positions *)

\* A worker takes the record after the position, which is handled up to there.
LEMMA DeliverStep ==
    ASSUME PositionInv, NEW w \in Worker, NEW p \in Partition, Deliver(w, p)
    PROVE  PositionInv'
<1> DEFINE j == [part |-> p, off |-> pos[p] + 1]
           l == FirstStep(log[p][pos[p] + 1])
<1>1. /\ UNCHANGED <<committed, pos, verdict, handled>>
      /\ job' = [job EXCEPT ![w] = j] /\ pc' = [pc EXCEPT ![w] = l]
  BY DEF Deliver, Goto, kafkaVars
<1>2. l \in {"poison", "lock"} BY DEF FirstStep
<1>3. j \in Job /\ j.part = p /\ j.off = pos[p] + 1 /\ pos[p] \in Nat
  BY DEF PositionInv, PositionType, Job, Partition
<1> HIDE DEF j, l
<1>4. PositionType'
  BY <1>1, <1>2, <1>3 DEF PositionInv, PositionType, PC
<1>5. \A q \in Partition : (HandledUpTo(q, committed[q]) /\ HandledUpTo(q, pos[q]))'
  BY <1>1 DEF PositionInv, HandledUpTo, Handled
<1>6. ASSUME NEW u \in Worker PROVE WorkerInv(u)'
  <2>1. CASE u = w
    <3>1. pc'[u] = l /\ job'[u] = j BY <1>1, <2>1 DEF PositionInv, PositionType
    <3>2. HandledUpTo(p, pos[p]) /\ (job'[u]).off - 1 = pos[p] /\ (job'[u]).part = p
      BY <1>3, <3>1 DEF PositionInv
    <3>3. HandledUpTo(job[u].part, job[u].off - 1)'
      BY <1>1, <3>2 DEF HandledUpTo, Handled
    <3>4. (job'[u]).off \in Nat \ {0} BY <1>3, <3>1
    <3> QED BY <3>1, <3>2, <3>3, <3>4, <1>2 DEF WorkerInv
  <2>2. CASE u # w
    BY <1>1, <2>2, SameWorker DEF PositionInv, PositionType
  <2> QED BY <2>1, <2>2
<1> QED BY <1>4, <1>5, <1>6 DEF PositionInv

\* A worker rests; the offsets it leaves behind stand on handled records.
LEMMA RestStep ==
    ASSUME PositionInv, NEW w \in Worker, Rest(w), UNCHANGED handled,
           committed' \in [Partition -> Nat], pos' \in [Partition -> Nat],
           \A p \in Partition : HandledUpTo(p, committed'[p]) /\ HandledUpTo(p, pos'[p])
    PROVE  PositionInv'
<1>1. /\ pc' = [pc EXCEPT ![w] = "idle"] /\ verdict' = [verdict EXCEPT ![w] = "none"]
      /\ job' = [job EXCEPT ![w] = NoJob]
  BY DEF Rest, Return, Goto
<1>2. NoJob \in Job BY DEF NoJob, Job, Topic, Main
<1>3. PositionType'
  BY <1>1, <1>2 DEF PositionInv, PositionType, PC, Verdict
<1>4. \A p \in Partition : (HandledUpTo(p, committed[p]) /\ HandledUpTo(p, pos[p]))'
  BY DEF HandledUpTo, Handled
<1>5. ASSUME NEW u \in Worker PROVE WorkerInv(u)'
  <2>1. CASE u = w
    BY <1>1, <2>1 DEF PositionInv, PositionType, WorkerInv
  <2>2. CASE u # w
    BY <1>1, <2>2, SameWorker DEF PositionInv, PositionType
  <2> QED BY <2>1, <2>2
<1> QED BY <1>3, <1>4, <1>5 DEF PositionInv

\* commit: the record and everything before it has been handled.
LEMMA CommitStep ==
    ASSUME PositionInv, NEW w \in Worker, Commit(w)
    PROVE  PositionInv'
<1> DEFINE p == job[w].part
           n == job[w].off
<1>1. pc[w] = "commit" /\ Rest(w) /\ UNCHANGED handled BY DEF Commit
<1>2. p \in Partition /\ n \in Nat \ {0} /\ HandledUpTo(p, n - 1) /\ Handled(p, n)
  BY <1>1 DEF PositionInv, WorkerInv
<1>3. committed' = [committed EXCEPT ![p] = n] \/ committed' = committed
  BY DEF Commit
<1>4. pos' = [pos EXCEPT ![p] = n] \/ pos' = pos
  BY DEF Commit
<1> HIDE DEF p, n
<1>5. HandledUpTo(p, n)
  BY <1>2 DEF HandledUpTo
<1>6. committed' \in [Partition -> Nat] /\ pos' \in [Partition -> Nat]
  BY <1>2, <1>3, <1>4 DEF PositionInv, PositionType
<1>7. ASSUME NEW q \in Partition PROVE HandledUpTo(q, committed'[q]) /\ HandledUpTo(q, pos'[q])
  <2>1. committed'[q] \in {n, committed[q]} /\ (committed'[q] # committed[q] => q = p)
    BY <1>2, <1>3 DEF PositionInv, PositionType
  <2>2. pos'[q] \in {n, pos[q]} /\ (pos'[q] # pos[q] => q = p)
    BY <1>2, <1>4 DEF PositionInv, PositionType
  <2>3. HandledUpTo(q, committed[q]) /\ HandledUpTo(q, pos[q]) BY DEF PositionInv
  <2> QED BY <2>1, <2>2, <2>3, <1>5
<1> QED BY <1>1, <1>6, <1>7, RestStep

\* The position goes back to the committed offset.
LEMMA RebalanceStep ==
    ASSUME PositionInv, NEW p \in Partition, Rebalance(p)
    PROVE  PositionInv'
<1>1. /\ UNCHANGED <<committed, pc, job, verdict, handled>>
      /\ pos' = [pos EXCEPT ![p] = committed[p]]
  BY DEF Rebalance
<1> QED BY <1>1 DEF PositionInv, PositionType, WorkerInv, HandledUpTo, Handled

LEMMA CrashStep ==
    ASSUME PositionInv, NEW w \in Worker, Crash(w)
    PROVE  PositionInv'
<1>1. /\ Rest(w) /\ UNCHANGED <<handled, committed>> /\ pc[w] # "idle"
      /\ \/ pos' = pos
         \/ pos' = [pos EXCEPT ![job[w].part] = committed[job[w].part]]
  BY DEF Crash
<1>2. job[w].part \in Partition BY <1>1 DEF PositionInv, WorkerInv
<1>3. committed' \in [Partition -> Nat] /\ pos' \in [Partition -> Nat]
  BY <1>1, <1>2 DEF PositionInv, PositionType
<1>4. ASSUME NEW q \in Partition PROVE HandledUpTo(q, committed'[q]) /\ HandledUpTo(q, pos'[q])
  <2>1. pos'[q] \in {pos[q], committed[q]} /\ committed'[q] = committed[q]
    BY <1>1, <1>2 DEF PositionInv, PositionType
  <2> QED BY <2>1 DEF PositionInv
<1> QED BY <1>1, <1>3, <1>4, RestStep

LEMMA RedeliverStep ==
    ASSUME PositionInv, NEW w \in Worker, Redeliver(w)
    PROVE  PositionInv'
<1>1. pc[w] = "backoff" /\ UNCHANGED <<committed, pos, handled>>
  BY DEF Redeliver, kafkaVars
<1>2. CASE mine[w]
  <2> DEFINE l == FirstStep(Rec(w))
  <2>1. UNCHANGED job /\ pc' = [pc EXCEPT ![w] = l] /\ verdict' = [verdict EXCEPT ![w] = "none"]
    BY <1>2 DEF Redeliver, Return, Goto
  <2>2. l \in {"poison", "lock"} BY DEF FirstStep
  <2> HIDE DEF l
  <2>3. l \in PC \ {"idle"} /\ "none" \in Verdict BY <2>2 DEF PC, Verdict
  <2> QED BY <1>1, <2>1, <2>2, <2>3, WorkStep
<1>3. CASE ~mine[w]
  <2>1. Rest(w) BY <1>3 DEF Redeliver
  <2> QED BY <1>1, <2>1, RestStep DEF PositionInv, PositionType
<1> QED BY <1>2, <1>3

-----------------------------------------------------------------------------
(* Handle *)

\* The form of every step of Handle that does not end it.
LEMMA HandleStep ==
    ASSUME PositionInv, NEW w \in Worker, pc[w] # "idle",
           UNCHANGED <<committed, pos, job, handled>>,
           \E l \in PC \ {"idle", "commit"}, v \in Verdict :
               /\ pc' = [pc EXCEPT ![w] = l] /\ verdict' = [verdict EXCEPT ![w] = v]
               /\ l \in {"settle", "unlock"} => v \in Outcome \union {"redeliver"}
    PROVE  PositionInv'
<1>1. PICK l \in PC \ {"idle", "commit"}, v \in Verdict :
               /\ pc' = [pc EXCEPT ![w] = l] /\ verdict' = [verdict EXCEPT ![w] = v]
               /\ l \in {"settle", "unlock"} => v \in Outcome \union {"redeliver"}
  OBVIOUS
<1> QED BY <1>1, WorkStep

\* A step that only moves the program counter keeps the verdict.
LEMMA GotoStep ==
    ASSUME PositionInv, NEW w \in Worker, pc[w] # "idle", UNCHANGED <<committed, pos, job, verdict, handled>>,
           NEW l \in PC \ {"idle", "commit", "settle", "unlock"}, Goto(w, l)
    PROVE  PositionInv'
<1>1. verdict' = [verdict EXCEPT ![w] = verdict[w]] /\ verdict[w] \in Verdict
  BY DEF PositionInv, PositionType
<1> QED BY <1>1, HandleStep DEF Goto

\* A step that decides how Handle goes on.
LEMMA ReturnStep ==
    ASSUME PositionInv, NEW w \in Worker, pc[w] # "idle", UNCHANGED <<committed, pos, job, handled>>,
           NEW l, NEW v, Return(w, v, l),
           \/ l \in {"route", "backoff"} /\ v \in {"transient", "permanent", "redeliver"}
           \/ l \in {"settle", "unlock"} /\ v \in Outcome \union {"redeliver"}
    PROVE  PositionInv'
<1>1. l \in PC \ {"idle", "commit"} /\ v \in Verdict BY DEF PC, Verdict
<1> QED BY <1>1, HandleStep DEF Return, Goto

\* A step that ends Handle: the record is handled and may be committed.
LEMMA FinishStep ==
    ASSUME PositionInv, NEW w \in Worker, pc[w] # "idle", UNCHANGED <<committed, pos, job>>,
           NEW v \in Outcome, Return(w, v, "commit"), Finish(w, v)
    PROVE  PositionInv'
<1>1. handled \subseteq handled' /\ Handled(job[w].part, job[w].off)'
  BY DEF Finish, Handled
<1>2. "commit" \in PC \ {"idle"} /\ v \in Verdict BY DEF PC, Verdict
<1> QED BY <1>1, <1>2, WorkStep DEF Return, Goto

LEMMA TryLockStep ==
    ASSUME PositionInv, NEW w \in Worker, TryLock(w) \/ TryLockOrphaned(w)
    PROVE  PositionInv'
<1>1. pc[w] = "lock" /\ UNCHANGED <<committed, pos, job>>
  BY DEF TryLock, TryLockOrphaned, kafkaVars
<1>2. \/ Goto(w, "process") /\ UNCHANGED <<verdict, handled>>
      \/ Return(w, "skipped", "commit") /\ Finish(w, "skipped")
      \/ Return(w, "transient", "route") /\ UNCHANGED handled
  BY DEF TryLock, TryLockOrphaned
<1>3. "skipped" \in Outcome /\ "process" \in PC \ {"idle", "commit", "settle", "unlock"}
  BY DEF Outcome, PC
<1> QED BY <1>1, <1>2, <1>3, GotoStep, ReturnStep, FinishStep

LEMMA ProcessStep ==
    ASSUME PositionInv, NEW w \in Worker,
           \/ CheckMedia(w) \/ BeginRevision(w) \/ TryReuse(w) \/ AsyncAnalyze(w)
           \/ Run(w) \/ Conclude(w) \/ CallFails(w)
    PROVE  PositionInv'
<1> DEFINE On == \/ \E l \in {"prepare", "analyze", "run", "conclude"} : Goto(w, l) /\ UNCHANGED verdict
                 \/ \E v \in {"transient", "permanent"} : Return(w, v, "route")
                 \/ \E v \in {"gone", "reused", "budget", "success"} : Return(w, v, "settle")
<1>1. pc[w] # "idle" /\ UNCHANGED <<committed, pos, job, handled>> /\ On
  <2>1. CASE CheckMedia(w) BY <2>1 DEF CheckMedia, kafkaVars
  <2>2. CASE BeginRevision(w) BY <2>2 DEF BeginRevision, kafkaVars
  <2>3. CASE TryReuse(w) BY <2>3 DEF TryReuse, kafkaVars
  <2>4. CASE AsyncAnalyze(w) BY <2>4 DEF AsyncAnalyze, kafkaVars
  <2>5. CASE Run(w) BY <2>5 DEF Run, MapError, Codes, kafkaVars
  <2>6. CASE Conclude(w) BY <2>6 DEF Conclude, kafkaVars
  <2>7. CASE CallFails(w) BY <2>7 DEF CallFails, kafkaVars
  <2> QED BY <2>1, <2>2, <2>3, <2>4, <2>5, <2>6, <2>7
<1>2. CASE \E l \in {"prepare", "analyze", "run", "conclude"} : Goto(w, l) /\ UNCHANGED verdict
  <2>1. {"prepare", "analyze", "run", "conclude"} \subseteq PC \ {"idle", "commit", "settle", "unlock"}
    BY DEF PC
  <2> QED BY <1>1, <1>2, <2>1, GotoStep
<1>3. CASE \E v \in {"transient", "permanent"} : Return(w, v, "route")
  BY <1>1, <1>3, ReturnStep
<1>4. CASE \E v \in {"gone", "reused", "budget", "success"} : Return(w, v, "settle")
  <2>1. {"gone", "reused", "budget", "success"} \subseteq Outcome BY DEF Outcome
  <2> QED BY <1>1, <1>4, <2>1, ReturnStep
<1> QED BY <1>1, <1>2, <1>3, <1>4

LEMMA RouteStep ==
    ASSUME PositionInv, NEW w \in Worker, ForwardRetry(w) \/ DeadLetter(w) \/ RouteFails(w)
    PROVE  PositionInv'
<1>1. pc[w] = "route" /\ UNCHANGED <<committed, pos, job, handled>>
  BY DEF ForwardRetry, DeadLetter, RouteFails, kafkaVars
<1>2. \/ \E v \in {"retry", "dlq"} : Return(w, v, "settle")
      \/ Return(w, "redeliver", "unlock")
  BY DEF ForwardRetry, DeadLetter, RouteFails
<1>3. {"retry", "dlq"} \subseteq Outcome BY DEF Outcome
<1> QED BY <1>1, <1>2, <1>3, ReturnStep

LEMMA SettleStep ==
    ASSUME PositionInv, NEW w \in Worker, Settle(w)
    PROVE  PositionInv'
<1>1. /\ pc[w] = "settle" /\ UNCHANGED <<committed, pos, job, verdict, handled>>
      /\ pc' = [pc EXCEPT ![w] = "unlock"]
  BY DEF Settle, Goto, kafkaVars
<1>2. verdict' = [verdict EXCEPT ![w] = verdict[w]] /\ verdict[w] \in Outcome \union {"redeliver"}
  BY <1>1 DEF PositionInv, PositionType, WorkerInv
<1>3. "unlock" \in PC \ {"idle", "commit"} /\ verdict[w] \in Verdict BY <1>2 DEF PC, Verdict
<1> QED BY <1>1, <1>2, <1>3, HandleStep

LEMMA UnlockStep ==
    ASSUME PositionInv, NEW w \in Worker, Unlock(w)
    PROVE  PositionInv'
<1>1. /\ pc[w] = "unlock" /\ UNCHANGED <<committed, pos, job, verdict>>
      /\ IF verdict[w] = "redeliver"
         THEN Goto(w, "backoff") /\ UNCHANGED handled
         ELSE Goto(w, "commit") /\ Finish(w, verdict[w])
  BY DEF Unlock, kafkaVars
<1>2. verdict' = [verdict EXCEPT ![w] = verdict[w]] /\ verdict[w] \in Outcome \union {"redeliver"}
  BY <1>1 DEF PositionInv, PositionType, WorkerInv
<1>3. CASE verdict[w] = "redeliver"
  <2>1. "backoff" \in PC \ {"idle", "commit", "settle", "unlock"} BY DEF PC
  <2> QED BY <1>1, <1>3, <2>1, GotoStep
<1>4. CASE verdict[w] # "redeliver"
  BY <1>1, <1>2, <1>4, FinishStep DEF Return
<1> QED BY <1>3, <1>4

LEMMA DiscardPoisonStep ==
    ASSUME PositionInv, NEW w \in Worker, DiscardPoison(w)
    PROVE  PositionInv'
<1>1. pc[w] = "poison" /\ UNCHANGED <<committed, pos, job>>
  BY DEF DiscardPoison, kafkaVars
<1>2. \/ Return(w, "poison", "commit") /\ Finish(w, "poison")
      \/ Return(w, "redeliver", "backoff") /\ UNCHANGED handled
  BY DEF DiscardPoison
<1>3. "poison" \in Outcome BY DEF Outcome
<1> QED BY <1>1, <1>2, <1>3, FinishStep, ReturnStep

\* Losing the lock only sends the worker to the failure route.
LEMMA LoseLockStep ==
    ASSUME PositionInv, NEW w \in Worker, LoseLock(w)
    PROVE  PositionInv'
<1>1. UNCHANGED <<committed, pos, job, handled>>
  BY DEF LoseLock, kafkaVars
<1>2. CASE pc[w] \in {"process", "prepare", "analyze", "run", "conclude"}
  <2>1. Return(w, "transient", "route") /\ pc[w] # "idle" BY <1>2 DEF LoseLock
  <2> QED BY <1>1, <2>1, ReturnStep
<1>3. CASE pc[w] \notin {"process", "prepare", "analyze", "run", "conclude"}
  <2>1. UNCHANGED <<pc, verdict>> BY <1>3 DEF LoseLock
  <2> QED BY <1>1, <2>1, IdleStep
<1> QED BY <1>2, <1>3

-----------------------------------------------------------------------------

LEMMA PositionInit == Init => PositionInv
<1> SUFFICES ASSUME Init PROVE PositionInv OBVIOUS
<1>1. NoJob \in Job BY DEF NoJob, Job, Topic, Main
<1>2. PositionType BY <1>1 DEF Init, PositionType, PC, Verdict
<1>3. \A p \in Partition : HandledUpTo(p, committed[p]) /\ HandledUpTo(p, pos[p])
  BY DEF Init, HandledUpTo
<1>4. \A w \in Worker : WorkerInv(w)
  BY DEF Init, WorkerInv
<1> QED BY <1>2, <1>3, <1>4 DEF PositionInv

LEMMA RequestStep ==
    ASSUME PositionInv, NEW r \in Request, Submission(r) \/ Replay(r)
    PROVE  PositionInv'
<1>1. UNCHANGED <<committed, pos, pc, job, verdict, handled>>
  <2>1. CASE \E m \in Media : aiAnalyze(r, m) \/ reviseAgentResult(r, m)
    BY <2>1 DEF aiAnalyze, reviseAgentResult, SubmitReserve, kafkaVars, workerVars
  <2>2. CASE SubmitRateLimited(r) BY <2>2 DEF SubmitRateLimited, kafkaVars, workerVars
  <2>3. CASE SubmitStage(r) BY <2>3 DEF SubmitStage, kafkaVars, workerVars
  <2>4. CASE SubmitPublish(r) BY <2>4 DEF SubmitPublish, workerVars
  <2>5. CASE SubmitFail(r) BY <2>5 DEF SubmitFail, workerVars
  <2>6. CASE failedReplay(r)
    BY <2>6 DEF failedReplay, ReplayRead, kafkaVars, workerVars
  <2>7. CASE ReplayReserve(r) BY <2>7 DEF ReplayReserve, kafkaVars, workerVars
  <2>8. CASE ReplayPublish(r) BY <2>8 DEF ReplayPublish, workerVars
  <2>9. CASE ReplayMark(r) BY <2>9 DEF ReplayMark, kafkaVars, workerVars
  <2> QED BY <2>1, <2>2, <2>3, <2>4, <2>5, <2>6, <2>7, <2>8, <2>9 DEF Submission, Replay
<1> QED BY <1>1, IdleStep

LEMMA WorkerStep ==
    ASSUME PositionInv, NEW w \in Worker, Work(w)
    PROVE  PositionInv'
<1>1. CASE \E p \in Partition : Deliver(w, p) BY <1>1, DeliverStep
<1>2. CASE Handle(w)
  BY <1>2, TryLockStep, ProcessStep, RouteStep, SettleStep, UnlockStep, DiscardPoisonStep
     DEF Handle
<1>3. CASE Redeliver(w) BY <1>3, RedeliverStep
<1>4. CASE Commit(w) BY <1>4, CommitStep
<1> QED BY <1>1, <1>2, <1>3, <1>4 DEF Work

LEMMA EnvironmentStep ==
    ASSUME PositionInv, Environment
    PROVE  PositionInv'
<1>1. CASE \E w \in Worker : LoseLock(w) BY <1>1, LoseLockStep
<1>2. CASE \E w \in Worker : Crash(w) BY <1>2, CrashStep
<1>3. CASE \E p \in Partition : Rebalance(p) BY <1>3, RebalanceStep
<1>4. CASE \E k \in Keys : Lapse(k) \/ OrphanExpires(k) \/ MarkerExpires(k)
  BY <1>4, IdleStep DEF Lapse, OrphanExpires, MarkerExpires, kafkaVars, workerVars
<1>5. CASE \E r \in Request : RequestCrash(r)
  BY <1>5, IdleStep DEF RequestCrash, kafkaVars, workerVars
<1>6. CASE \E m \in Media : DeleteMedia(m) \/ ForeignPublish(m)
  BY <1>6, IdleStep DEF DeleteMedia, ForeignPublish, kafkaVars, workerVars
<1> QED BY <1>1, <1>2, <1>3, <1>4, <1>5, <1>6 DEF Environment

LEMMA NextPosition ==
    ASSUME PositionInv, [Next]_vars
    PROVE  PositionInv'
<1>1. CASE \E r \in Request : Submission(r) \/ Replay(r) BY <1>1, RequestStep
<1>2. CASE \E w \in Worker : Work(w) BY <1>2, WorkerStep
<1>3. CASE Environment BY <1>3, EnvironmentStep
<1>4. CASE UNCHANGED vars BY <1>4, IdleStep DEF vars, kafkaVars, workerVars
<1> QED BY <1>1, <1>2, <1>3, <1>4 DEF Next

LEMMA AlwaysPosition == Spec => []PositionInv
<1>1. PositionInv /\ [Next]_vars => PositionInv' BY NextPosition
<1> QED BY PositionInit, <1>1, PTL DEF Spec

\* At-least-once (the runner's manual commits): whatever crashes, rebalances, lock losses and
\* failed forwards happen, in any order and any number, an offset is committed only when Handle
\* has finished every record of the partition up to it.
THEOREM CommitsOnlyHandled == Spec => []CommitImpliesHandled
<1>1. PositionInv => CommitImpliesHandled
  BY DEF PositionInv, CommitImpliesHandled, HandledUpTo
<1> QED BY AlwaysPosition, <1>1, PTL

-----------------------------------------------------------------------------
(* Failures are recorded *)

Row == [media : Media, action : Actions \union {"BAD"}, status : {"FAILED", "REQUEUED"},
        replays : Nat]
RequestState == [do : {"new", "done"}]
                \union [do : {"quota", "publish"}, media : Media, action : Actions]
                \union [do : {"replay", "replayPublish", "replayMark"}, row : Nat]

\* The logs, the ledger and the requests: what is published and what is replayed is well-formed.
LogType ==
    /\ log \in [Partition -> Seq(Record)]
    /\ ledger \in Seq(Row)
    /\ req \in [Request -> RequestState]
    /\ \A r \in Request : req[r].do \in {"replay", "replayPublish", "replayMark"}
          => req[r].row \in DOMAIN ledger /\ ledger[req[r].row].action # "BAD"

\* A worker's record exists.
JobsExist ==
    \A w \in Worker : pc[w] # "idle" => job[w].off \in 1 .. Len(log[job[w].part])

\* Someone who looks for the failed message finds it.
Found(r) ==
    \/ \E i \in DOMAIN ledger : ledger[i].media = r.media /\ ledger[i].action = r.action
    \/ \E d \in dlq : d.media = r.media /\ d.action = r.action

Failed == {"dlq", "poison"}

\* What has been handled exists, and is found if it failed; a worker that is about to report a
\* failure has recorded it.
HandledExists ==
    \A h \in handled : h[1] \in Partition /\ h[2] \in 1 .. Len(log[h[1]])
FailuresFound ==
    /\ \A h \in handled : h[3] \in Failed => Found(log[h[1]][h[2]])
    /\ \A w \in Worker : Settled(w) /\ verdict[w] \in Failed => Found(Rec(w))

RecordInv == PositionInv /\ LogType /\ JobsExist /\ HandledExists /\ FailuresFound

\* Kafka appends, the ledger keeps what identifies a row, the DLQ keeps everything.
LogGrows ==
    \A p \in Partition : /\ Len(log[p]) <= Len(log'[p])
                         /\ \A o \in 1 .. Len(log[p]) : log'[p][o] = log[p][o]
LedgerGrows ==
    /\ Len(ledger) <= Len(ledger')
    /\ \A i \in 1 .. Len(ledger) : /\ ledger'[i].media = ledger[i].media
                                   /\ ledger'[i].action = ledger[i].action
Grows == LogGrows /\ LedgerGrows /\ dlq \subseteq dlq'

LEMMA SameGrows ==
    ASSUME LogType
    PROVE  /\ UNCHANGED log => LogGrows
           /\ UNCHANGED ledger => LedgerGrows
<1>1. \A p \in Partition : Len(log[p]) \in Nat BY DEF LogType
<1>2. Len(ledger) \in Nat BY DEF LogType
<1> QED BY <1>1, <1>2 DEF LogGrows, LedgerGrows

\* A record is appended to a partition (or dropped, if there is no such partition).
LEMMA ProduceGrows ==
    ASSUME LogType, NEW p, NEW x \in Record, Produce(p, x)
    PROVE  /\ log' \in [Partition -> Seq(Record)] /\ LogGrows
           /\ p \in Partition => /\ Len(log'[p]) = Len(log[p]) + 1
                                 /\ log'[p][Len(log[p]) + 1] = x
<1>1. log' = [log EXCEPT ![p] = Append(log[p], x)] /\ log \in [Partition -> Seq(Record)]
  BY DEF Produce, LogType
<1>2. ASSUME NEW s \in Seq(Record)
      PROVE  /\ Append(s, x) \in Seq(Record) /\ Len(s) \in Nat
             /\ Len(Append(s, x)) = Len(s) + 1 /\ Append(s, x)[Len(s) + 1] = x
             /\ \A o \in 1 .. Len(s) : Append(s, x)[o] = s[o]
  OBVIOUS
<1>3. ASSUME NEW q \in Partition
      PROVE  /\ log'[q] \in Seq(Record) /\ Len(log[q]) <= Len(log'[q])
             /\ \A o \in 1 .. Len(log[q]) : log'[q][o] = log[q][o]
  <2>1. log'[q] = log[q] \/ (q = p /\ log'[q] = Append(log[q], x)) BY <1>1
  <2>2. log[q] \in Seq(Record) BY <1>1
  <2> DEFINE s == log[q]
             t == log'[q]
  <2>3. s \in Seq(Record) /\ (t = s \/ t = Append(s, x)) BY <2>1, <2>2
  <2> HIDE DEF s, t
  <2>4. t \in Seq(Record) /\ Len(s) <= Len(t) /\ \A o \in 1 .. Len(s) : t[o] = s[o]
    <3>1. CASE t = s BY <2>3, <3>1
    <3>2. CASE t = Append(s, x) BY <1>2, <2>3, <3>2
    <3> QED BY <2>3, <3>1, <3>2
  <2> QED BY <2>4 DEF s, t
<1>4. DOMAIN log' = Partition /\ log' = [q \in Partition |-> log'[q]] BY <1>1
<1>5. log' \in [Partition -> Seq(Record)] BY <1>3, <1>4
<1>6. LogGrows BY <1>3 DEF LogGrows
<1>7. p \in Partition => /\ Len(log'[p]) = Len(log[p]) + 1
                         /\ log'[p][Len(log[p]) + 1] = x
  BY <1>1, <1>2
<1> QED BY <1>5, <1>6, <1>7

\* A new row: the failed message is found.
LEMMA RecordGrows ==
    ASSUME LogType, NEW x \in Record, RecordFailure(x)
    PROVE  /\ ledger' \in Seq(Row) /\ LedgerGrows /\ Found(x)'
           /\ \A i \in DOMAIN ledger : ledger'[i] = ledger[i]
<1> DEFINE row == [media |-> x.media, action |-> x.action, status |-> "FAILED", replays |-> 0]
<1>1. row \in Row /\ row.media = x.media /\ row.action = x.action BY DEF Row, Record
<1>2. ledger' = Append(ledger, row) /\ ledger \in Seq(Row) BY DEF RecordFailure, LogType
<1> HIDE DEF row
<1>3. /\ ledger' \in Seq(Row) /\ Len(ledger') = Len(ledger) + 1 /\ Len(ledger) \in Nat
      /\ ledger'[Len(ledger) + 1] = row /\ \A i \in 1 .. Len(ledger) : ledger'[i] = ledger[i]
      /\ DOMAIN ledger' = 1 .. Len(ledger') /\ DOMAIN ledger = 1 .. Len(ledger)
  BY <1>1, <1>2
<1>4. LedgerGrows BY <1>3 DEF LedgerGrows
<1>5. Found(x)'
  <2>1. Len(ledger) + 1 \in DOMAIN ledger' BY <1>3
  <2> QED BY <2>1, <1>1, <1>3 DEF Found
<1> QED BY <1>3, <1>4, <1>5

\* A field of a row other than its media and action changes.
LEMMA RowChanges ==
    ASSUME LogType, NEW i \in DOMAIN ledger, NEW y \in Row,
           ledger' = [ledger EXCEPT ![i] = y],
           y.media = ledger[i].media, y.action = ledger[i].action
    PROVE  ledger' \in Seq(Row) /\ LedgerGrows /\ DOMAIN ledger' = DOMAIN ledger
<1>1. ledger \in Seq(Row) /\ DOMAIN ledger = 1 .. Len(ledger) /\ Len(ledger) \in Nat
  BY DEF LogType
<1>2. ledger' \in Seq(Row) /\ Len(ledger') = Len(ledger) BY <1>1
<1>3. DOMAIN ledger' = DOMAIN ledger BY <1>1
<1>4. ASSUME NEW j \in 1 .. Len(ledger)
      PROVE  ledger'[j].media = ledger[j].media /\ ledger'[j].action = ledger[j].action
  <2>1. CASE j = i BY <2>1, <1>1
  <2>2. CASE j # i BY <2>2, <1>1
  <2> QED BY <2>1, <2>2
<1> QED BY <1>1, <1>2, <1>3, <1>4 DEF LedgerGrows

\* What was found is still found.
LEMMA FoundStays ==
    ASSUME LogType, LogType', LedgerGrows, dlq \subseteq dlq', NEW r, Found(r)
    PROVE  Found(r)'
<1>1. DOMAIN ledger = 1 .. Len(ledger) /\ DOMAIN ledger' = 1 .. Len(ledger')
      /\ Len(ledger) \in Nat /\ Len(ledger') \in Nat
  BY DEF LogType
<1>2. CASE \E d \in dlq : d.media = r.media /\ d.action = r.action
  BY <1>2 DEF Found
<1>3. CASE \E i \in DOMAIN ledger : ledger[i].media = r.media /\ ledger[i].action = r.action
  <2>1. PICK i \in 1 .. Len(ledger) : ledger[i].media = r.media /\ ledger[i].action = r.action
    BY <1>1, <1>3
  <2>2. i \in DOMAIN ledger' BY <1>1 DEF LedgerGrows
  <2>3. ledger'[i].media = r.media /\ ledger'[i].action = r.action BY <2>1 DEF LedgerGrows
  <2> QED BY <2>2, <2>3 DEF Found
<1> QED BY <1>2, <1>3 DEF Found

\* A request moves on; the logs and the ledger only grow.
LEMMA RequestMoves ==
    ASSUME LogType, NEW r \in Request, NEW x \in RequestState, req' = [req EXCEPT ![r] = x],
           log' \in [Partition -> Seq(Record)], ledger' \in Seq(Row), LedgerGrows,
           x.do \in {"replay", "replayPublish", "replayMark"}
             => x.row \in DOMAIN ledger /\ ledger[x.row].action # "BAD"
    PROVE  LogType'
<1>1. DOMAIN ledger = 1 .. Len(ledger) /\ DOMAIN ledger' = 1 .. Len(ledger')
      /\ Len(ledger) \in Nat /\ Len(ledger') \in Nat
  BY DEF LogType
<1>2. \A i \in DOMAIN ledger : i \in DOMAIN ledger' /\ ledger'[i].action = ledger[i].action
  BY <1>1 DEF LedgerGrows
<1>3. req' \in [Request -> RequestState] BY DEF LogType
<1>4. ASSUME NEW s \in Request, req'[s].do \in {"replay", "replayPublish", "replayMark"}
      PROVE  req'[s].row \in DOMAIN ledger' /\ ledger'[req'[s].row].action # "BAD"
  <2>1. CASE s = r BY <2>1, <1>2, <1>4 DEF LogType
  <2>2. CASE s # r BY <2>2, <1>2, <1>4 DEF LogType
  <2> QED BY <2>1, <2>2
<1> QED BY <1>3, <1>4 DEF LogType

\* No request moves.
LEMMA RequestsRest ==
    ASSUME LogType, UNCHANGED req, log' \in [Partition -> Seq(Record)], ledger' \in Seq(Row),
           LedgerGrows
    PROVE  LogType'
<1>1. DOMAIN ledger = 1 .. Len(ledger) /\ DOMAIN ledger' = 1 .. Len(ledger')
      /\ Len(ledger) \in Nat /\ Len(ledger') \in Nat
  BY DEF LogType
<1>2. \A i \in DOMAIN ledger : i \in DOMAIN ledger' /\ ledger'[i].action = ledger[i].action
  BY <1>1 DEF LedgerGrows
<1> QED BY <1>2 DEF LogType

\* What the request asks to be published is a record of a partition there is.
LEMMA SubmissionRecord ==
    ASSUME LogType, NEW r \in Request, req[r].do \in {"quota", "publish"}
    PROVE  /\ req[r].media \in Media /\ req[r].action \in Actions
           /\ [media |-> req[r].media, action |-> req[r].action, attempt |-> 1] \in Record
           /\ Key(req[r].media, req[r].action) \in Keys
           /\ <<Main, Key(req[r].media, req[r].action)>> \in Partition
           /\ req[r] \in [do : {"quota", "publish"}, media : Media, action : Actions]
<1>1. req[r] \in [do : {"quota", "publish"}, media : Media, action : Actions]
  BY DEF LogType, RequestState
<1>2. Key(req[r].media, req[r].action) \in Keys
  BY <1>1, PipelineAssumption DEF Key, Keys
<1>3. Main \in Topic BY DEF Topic
<1>4. [media |-> req[r].media, action |-> req[r].action, attempt |-> 1] \in Record
  BY <1>1 DEF Record, MaxAttempts
<1> QED BY <1>1, <1>2, <1>3, <1>4 DEF Partition

LEMMA ReplayRecord ==
    ASSUME LogType, NEW i \in DOMAIN ledger, ledger[i].action # "BAD"
    PROVE  /\ ledger[i] \in Row /\ ledger[i].media \in Media /\ ledger[i].action \in Actions
           /\ [media |-> ledger[i].media, action |-> ledger[i].action, attempt |-> 1] \in Record
           /\ Key(ledger[i].media, ledger[i].action) \in Keys
           /\ <<Main, Key(ledger[i].media, ledger[i].action)>> \in Partition
<1>1. ledger[i] \in Row BY DEF LogType
<1>2. ledger[i].media \in Media /\ ledger[i].action \in Actions BY <1>1 DEF Row
<1>3. Key(ledger[i].media, ledger[i].action) \in Keys
  BY <1>2, PipelineAssumption DEF Key, Keys
<1>4. Main \in Topic BY DEF Topic
<1>5. [media |-> ledger[i].media, action |-> ledger[i].action, attempt |-> 1] \in Record
  BY <1>2 DEF Record, MaxAttempts
<1> QED BY <1>1, <1>2, <1>3, <1>4, <1>5 DEF Partition

LEMMA ReplayRow ==
    ASSUME LogType, NEW r \in Request, req[r].do \in {"replay", "replayPublish", "replayMark"}
    PROVE  /\ req[r].row \in DOMAIN ledger /\ ledger[req[r].row].action # "BAD"
           /\ req[r] \in [do : {"replay", "replayPublish", "replayMark"}, row : Nat]
<1>1. req[r] \in [do : {"replay", "replayPublish", "replayMark"}, row : Nat]
  BY DEF LogType, RequestState
<1> QED BY <1>1 DEF LogType

\* Submissions and replays publish well-formed records and keep the rows.
LEMMA SubmissionGrows ==
    ASSUME LogType, NEW r \in Request, Submission(r)
    PROVE  LogType' /\ Grows
<1>0. /\ log \in [Partition -> Seq(Record)] /\ ledger \in Seq(Row)
      /\ UNCHANGED log => LogGrows
      /\ UNCHANGED ledger => LedgerGrows
  BY SameGrows DEF LogType
<1>1. [do |-> "done"] \in RequestState BY DEF RequestState
<1>2. CASE \E m \in Media : aiAnalyze(r, m) \/ reviseAgentResult(r, m)
  <2>1. PICK m \in Media, a \in Actions : SubmitReserve(r, m, a)
    BY <1>2 DEF aiAnalyze, reviseAgentResult, SubmitReserve
  <2>2. UNCHANGED <<log, ledger, dlq>> BY <2>1 DEF SubmitReserve, kafkaVars, failVars
  <2>3. \E x \in {[do |-> "done"], [do |-> "quota", media |-> m, action |-> a]} :
           req' = [req EXCEPT ![r] = x]
    BY <2>1 DEF SubmitReserve, SetReq, Done
  <2>4. /\ [do |-> "quota", media |-> m, action |-> a] \in RequestState
        /\ [do |-> "quota", media |-> m, action |-> a].do = "quota"
    BY DEF RequestState
  <2>5. LogType' BY <1>0, <1>1, <2>2, <2>3, <2>4, RequestMoves
  <2> QED BY <1>0, <2>2, <2>5 DEF Grows
<1>3. CASE SubmitRateLimited(r)
  <2>1. UNCHANGED <<log, ledger, dlq>> /\ req' = [req EXCEPT ![r] = [do |-> "done"]]
    BY <1>3 DEF SubmitRateLimited, kafkaVars, failVars, Done, SetReq
  <2>2. LogType' BY <1>0, <1>1, <2>1, RequestMoves
  <2> QED BY <1>0, <2>1, <2>2 DEF Grows
<1>4. CASE SubmitStage(r)
  <2>1. /\ UNCHANGED <<log, ledger, dlq>> /\ req[r].do = "quota"
        /\ req' = [req EXCEPT ![r] = [req[r] EXCEPT !.do = "publish"]]
    BY <1>4 DEF SubmitStage, kafkaVars, failVars, SetReq
  <2>2. /\ [req[r] EXCEPT !.do = "publish"] \in RequestState
        /\ [req[r] EXCEPT !.do = "publish"].do = "publish"
    BY <2>1, SubmissionRecord DEF RequestState
  <2>3. LogType' BY <1>0, <2>1, <2>2, RequestMoves
  <2> QED BY <1>0, <2>1, <2>3 DEF Grows
<1>5. CASE SubmitPublish(r)
  <2>1. /\ UNCHANGED <<ledger, dlq>> /\ req[r].do = "publish"
        /\ req' = [req EXCEPT ![r] = [do |-> "done"]]
        /\ Produce(<<Main, Key(req[r].media, req[r].action)>>,
                   [media |-> req[r].media, action |-> req[r].action, attempt |-> 1])
    BY <1>5 DEF SubmitPublish, failVars, Done, SetReq
  <2>2. log' \in [Partition -> Seq(Record)] /\ LogGrows
    BY <2>1, SubmissionRecord, ProduceGrows
  <2>3. LogType' BY <1>0, <1>1, <2>1, <2>2, RequestMoves
  <2> QED BY <1>0, <2>1, <2>2, <2>3 DEF Grows
<1>6. CASE SubmitFail(r)
  <2>1. /\ UNCHANGED <<ledger, dlq>> /\ req[r].do \in {"quota", "publish"}
        /\ req' = [req EXCEPT ![r] = [do |-> "done"]]
        /\ \/ UNCHANGED log
           \/ Produce(<<Main, Key(req[r].media, req[r].action)>>,
                      [media |-> req[r].media, action |-> req[r].action, attempt |-> 1])
    BY <1>6 DEF SubmitFail, failVars, Done, SetReq
  <2>2. log' \in [Partition -> Seq(Record)] /\ LogGrows
    BY <1>0, <2>1, SubmissionRecord, ProduceGrows
  <2>3. LogType' BY <1>0, <1>1, <2>1, <2>2, RequestMoves
  <2> QED BY <1>0, <2>1, <2>2, <2>3 DEF Grows
<1> QED BY <1>2, <1>3, <1>4, <1>5, <1>6 DEF Submission

LEMMA ReplayGrows ==
    ASSUME LogType, NEW r \in Request, Replay(r)
    PROVE  LogType' /\ Grows
<1>0. /\ log \in [Partition -> Seq(Record)] /\ ledger \in Seq(Row)
      /\ UNCHANGED log => LogGrows
      /\ UNCHANGED ledger => LedgerGrows
  BY SameGrows DEF LogType
<1>1. [do |-> "done"] \in RequestState BY DEF RequestState
<1>2. CASE failedReplay(r)
  <2>1. PICK i \in DOMAIN ledger : ReplayRead(r, i) BY <1>2 DEF failedReplay
  <2>2. /\ UNCHANGED <<log, ledger, dlq>> /\ ledger[i].action # "BAD"
        /\ req' = [req EXCEPT ![r] = [do |-> "replay", row |-> i]]
    BY <2>1 DEF ReplayRead, kafkaVars, failVars, SetReq
  <2>3. /\ [do |-> "replay", row |-> i] \in RequestState
        /\ [do |-> "replay", row |-> i].row = i
    BY <1>0 DEF RequestState
  <2>4. LogType' BY <1>0, <2>2, <2>3, RequestMoves
  <2> QED BY <1>0, <2>2, <2>4 DEF Grows
<1>3. CASE ReplayReserve(r)
  <2>1. /\ UNCHANGED <<log, ledger, dlq>> /\ req[r].do = "replay"
        /\ \/ req' = [req EXCEPT ![r] = [do |-> "done"]]
           \/ req' = [req EXCEPT ![r] = [req[r] EXCEPT !.do = "replayPublish"]]
    BY <1>3 DEF ReplayReserve, kafkaVars, failVars, SetReq, Done
  <2>2. /\ [req[r] EXCEPT !.do = "replayPublish"] \in RequestState
        /\ [req[r] EXCEPT !.do = "replayPublish"].row = req[r].row
    BY <2>1, ReplayRow DEF RequestState
  <2>3. LogType' BY <1>0, <1>1, <2>1, <2>2, ReplayRow, RequestMoves
  <2> QED BY <1>0, <2>1, <2>3 DEF Grows
<1>4. CASE ReplayPublish(r)
  <2> DEFINE i == req[r].row
             row == ledger[i]
             k == Key(row.media, row.action)
             x == [media |-> row.media, action |-> row.action, attempt |-> 1]
             y == [row EXCEPT !.replays = @ + 1]
  <2>1. UNCHANGED dlq /\ req[r].do = "replayPublish" BY <1>4 DEF ReplayPublish
  <2>2. /\ \/ UNCHANGED <<log, ledger>>
           \/ Produce(<<Main, k>>, x) /\ ledger' = [ledger EXCEPT ![i] = y]
        /\ \/ req' = [req EXCEPT ![r] = [do |-> "done"]]
           \/ req' = [req EXCEPT ![r] = [req[r] EXCEPT !.do = "replayMark"]]
    BY <1>4 DEF ReplayPublish, Done, SetReq
  <2>3. i \in DOMAIN ledger /\ row.action # "BAD" BY <2>1, ReplayRow
  <2>4. row \in Row /\ x \in Record BY <2>3, ReplayRecord
  <2>5. y \in Row /\ y.media = row.media /\ y.action = row.action BY <2>4 DEF Row
  <2>6. /\ [req[r] EXCEPT !.do = "replayMark"] \in RequestState
        /\ [req[r] EXCEPT !.do = "replayMark"].row = i
    BY <2>1, ReplayRow DEF RequestState
  <2> HIDE DEF x, y, k
  <2>7. log' \in [Partition -> Seq(Record)] /\ LogGrows BY <1>0, <2>2, <2>4, ProduceGrows
  <2>8. ledger' \in Seq(Row) /\ LedgerGrows BY <1>0, <2>2, <2>3, <2>5, RowChanges
  <2>9. LogType' BY <1>1, <2>2, <2>3, <2>6, <2>7, <2>8, RequestMoves
  <2> QED BY <2>1, <2>7, <2>8, <2>9 DEF Grows
<1>5. CASE ReplayMark(r)
  <2> DEFINE i == req[r].row
             y == [ledger[i] EXCEPT !.status = "REQUEUED"]
  <2>1. /\ UNCHANGED <<log, dlq>> /\ req[r].do = "replayMark"
        /\ UNCHANGED ledger \/ ledger' = [ledger EXCEPT ![i] = y]
        /\ req' = [req EXCEPT ![r] = [do |-> "done"]]
    BY <1>5 DEF ReplayMark, MarkRequeued, kafkaVars, Done, SetReq
  <2>2. i \in DOMAIN ledger /\ ledger[i].action # "BAD" BY <2>1, ReplayRow
  <2>3. ledger[i] \in Row BY <2>2, ReplayRecord
  <2>4. y \in Row /\ y.media = ledger[i].media /\ y.action = ledger[i].action BY <2>3 DEF Row
  <2> HIDE DEF y
  <2>5. ledger' \in Seq(Row) /\ LedgerGrows BY <1>0, <2>1, <2>2, <2>4, RowChanges
  <2>6. LogType' BY <1>0, <1>1, <2>1, <2>5, RequestMoves
  <2> QED BY <1>0, <2>1, <2>5, <2>6 DEF Grows
<1> QED BY <1>2, <1>3, <1>4, <1>5 DEF Replay

-----------------------------------------------------------------------------
(* What the steps of a worker do *)

\* The worker goes to l with verdict v and keeps its record.
Moves(w, l, v) ==
    /\ pc' = [pc EXCEPT ![w] = l] /\ verdict' = [verdict EXCEPT ![w] = v] /\ UNCHANGED job

\* The record of a worker that is not idle.
LEMMA WorkerRecord ==
    ASSUME PositionInv, LogType, JobsExist, NEW w \in Worker, pc[w] # "idle"
    PROVE  /\ job[w].part \in Partition /\ job[w].off \in 1 .. Len(log[job[w].part])
           /\ Rec(w) \in Record /\ log[job[w].part] \in Seq(Record)
           /\ KeyOf(w) \in Keys /\ job[w].part[1] \in Topic
           /\ job[w].part = <<job[w].part[1], KeyOf(w)>>
<1>1. job[w].part \in Partition /\ job[w].off \in 1 .. Len(log[job[w].part])
  BY DEF PositionInv, WorkerInv, JobsExist
<1>2. log[job[w].part] \in Seq(Record) BY <1>1 DEF LogType
<1>3. Rec(w) \in Record BY <1>1, <1>2 DEF Rec
<1>4. /\ KeyOf(w) \in Keys /\ job[w].part[1] \in Topic
      /\ job[w].part = <<job[w].part[1], KeyOf(w)>>
  BY <1>1 DEF Partition, KeyOf
<1> QED BY <1>1, <1>2, <1>3, <1>4

\* Goto keeps the verdict.
LEMMA GotoMoves ==
    ASSUME PositionInv, NEW w \in Worker, NEW l, Goto(w, l), UNCHANGED <<verdict, job>>
    PROVE  Moves(w, l, verdict[w])
BY DEF PositionInv, PositionType, Moves, Goto

\* process: no step of it ends Handle or reports a failure.
LEMMA ProcessMoves ==
    ASSUME PositionInv, NEW w \in Worker,
           \/ CheckMedia(w) \/ BeginRevision(w) \/ TryReuse(w) \/ AsyncAnalyze(w)
           \/ Run(w) \/ Conclude(w) \/ CallFails(w)
    PROVE  /\ pc[w] \in {"process", "prepare", "analyze", "run", "conclude"}
           /\ UNCHANGED <<log, ledger, dlq, req, handled, active, lock, held>>
           /\ \E l \in PC, v \in Verdict :
                 /\ Moves(w, l, v)
                 /\ \/ l \in {"prepare", "analyze", "run", "conclude", "route"}
                    \/ l = "settle" /\ v \in {"gone", "reused", "budget", "success"}
<1> DEFINE On == \/ \E l \in {"prepare", "analyze", "run", "conclude"} : Goto(w, l) /\ UNCHANGED verdict
                 \/ \E v \in {"transient", "permanent"} : Return(w, v, "route")
                 \/ \E v \in {"gone", "reused", "budget", "success"} : Return(w, v, "settle")
<1>1. /\ pc[w] \in {"process", "prepare", "analyze", "run", "conclude"}
      /\ UNCHANGED <<log, ledger, dlq, req, handled, active, lock, held, job>> /\ On
  <2>1. CASE CheckMedia(w) BY <2>1 DEF CheckMedia, kafkaVars, failVars, redisVars
  <2>2. CASE BeginRevision(w) BY <2>2 DEF BeginRevision, kafkaVars, failVars, redisVars
  <2>3. CASE TryReuse(w) BY <2>3 DEF TryReuse, kafkaVars, failVars, redisVars
  <2>4. CASE AsyncAnalyze(w) BY <2>4 DEF AsyncAnalyze, kafkaVars, failVars, redisVars
  <2>5. CASE Run(w) BY <2>5 DEF Run, MapError, Codes, kafkaVars, failVars, redisVars
  <2>6. CASE Conclude(w) BY <2>6 DEF Conclude, kafkaVars, failVars, redisVars
  <2>7. CASE CallFails(w) BY <2>7 DEF CallFails, kafkaVars, failVars, redisVars
  <2> QED BY <2>1, <2>2, <2>3, <2>4, <2>5, <2>6, <2>7
<1>2. /\ {"prepare", "analyze", "run", "conclude", "route", "settle"} \subseteq PC
      /\ {"transient", "permanent", "gone", "reused", "budget", "success"} \subseteq Verdict
      /\ verdict[w] \in Verdict
  BY DEF PC, Verdict, Outcome, PositionInv, PositionType
<1>3. CASE \E l \in {"prepare", "analyze", "run", "conclude"} : Goto(w, l) /\ UNCHANGED verdict
  <2>1. PICK l \in {"prepare", "analyze", "run", "conclude"} : Goto(w, l) /\ UNCHANGED verdict
    BY <1>3
  <2>2. Moves(w, l, verdict[w]) BY <1>1, <2>1, GotoMoves
  <2> QED BY <1>1, <1>2, <2>2
<1>4. CASE \E v \in {"transient", "permanent"} : Return(w, v, "route")
  <2>1. PICK v \in {"transient", "permanent"} : Return(w, v, "route") BY <1>4
  <2>2. Moves(w, "route", v) BY <1>1, <2>1 DEF Moves, Return, Goto
  <2> QED BY <1>1, <1>2, <2>2
<1>5. CASE \E v \in {"gone", "reused", "budget", "success"} : Return(w, v, "settle")
  <2>1. PICK v \in {"gone", "reused", "budget", "success"} : Return(w, v, "settle") BY <1>5
  <2>2. Moves(w, "settle", v) BY <1>1, <2>1 DEF Moves, Return, Goto
  <2> QED BY <1>1, <1>2, <2>2
<1> QED BY <1>1, <1>3, <1>4, <1>5

\* The lock is taken, or the record is skipped, or the attempt fails.
LEMMA TryLockMoves ==
    ASSUME PositionInv, NEW w \in Worker, TryLock(w) \/ TryLockOrphaned(w)
    PROVE  /\ pc[w] = "lock" /\ UNCHANGED <<log, ledger, dlq, req, active>>
           /\ \/ /\ Moves(w, "process", verdict[w]) /\ UNCHANGED handled
                 /\ lock[KeyOf(w)] = Free /\ lock' = [lock EXCEPT ![KeyOf(w)] = w]
                 /\ held' = [held EXCEPT ![w] = TRUE]
              \/ /\ Moves(w, "commit", "skipped") /\ Finish(w, "skipped") /\ UNCHANGED held
                 /\ \/ lock[KeyOf(w)] # Free /\ UNCHANGED lock
                    \/ Spend("lock")
              \/ /\ Moves(w, "route", "transient") /\ UNCHANGED <<handled, held>>
                 /\ UNCHANGED lock \/ Spend("lock")
<1>1. pc[w] = "lock" /\ UNCHANGED <<log, ledger, dlq, req, active, job>>
  BY DEF TryLock, TryLockOrphaned, kafkaVars, failVars
<1>2. CASE TryLock(w)
  <2>1. CASE lock[KeyOf(w)] = Free /\ lock' = [lock EXCEPT ![KeyOf(w)] = w] /\ Goto(w, "process")
             /\ held' = [held EXCEPT ![w] = TRUE] /\ UNCHANGED <<verdict, left, handled>>
    BY <1>1, <2>1, GotoMoves
  <2>2. CASE Return(w, "skipped", "commit") /\ Finish(w, "skipped") /\ lock[KeyOf(w)] # Free
             /\ UNCHANGED <<lock, held, left>>
    BY <1>1, <2>2 DEF Moves, Return, Goto
  <2>3. CASE Return(w, "transient", "route") /\ UNCHANGED <<lock, held, handled>>
    BY <1>1, <2>3 DEF Moves, Return, Goto
  <2> QED BY <1>2, <2>1, <2>2, <2>3 DEF TryLock
<1>3. CASE TryLockOrphaned(w)
  BY <1>1, <1>3 DEF TryLockOrphaned, Moves, Return, Goto
<1> QED BY <1>2, <1>3

\* The failed record goes to a retry topic, to the DLQ, or stays.
LEMMA ForwardMoves ==
    ASSUME NEW w \in Worker, ForwardRetry(w)
    PROVE  /\ pc[w] = "route" /\ Moves(w, "settle", "retry")
           /\ Route(w) # DLQ /\ Produce(<<Route(w), KeyOf(w)>>, NextAttempt(Rec(w)))
           /\ UNCHANGED <<ledger, dlq, req, handled, active, lock, held>>
BY DEF ForwardRetry, Moves, Return, Goto, failVars, redisVars

LEMMA DeadLetterMoves ==
    ASSUME NEW w \in Worker, DeadLetter(w)
    PROVE  /\ pc[w] = "route" /\ Moves(w, "settle", "dlq")
           /\ RecordFailure(Rec(w)) \/ UNCHANGED ledger
           /\ dlq' = dlq \union {Rec(w)}
           /\ UNCHANGED <<log, req, handled, active, lock, held>>
BY DEF DeadLetter, Moves, Return, Goto, kafkaVars, redisVars

LEMMA RouteFailsMoves ==
    ASSUME NEW w \in Worker, RouteFails(w)
    PROVE  /\ pc[w] = "route" /\ Moves(w, "unlock", "redeliver")
           /\ Spend("produce") \/ Spend("lostack")
           /\ \/ UNCHANGED log
              \/ Route(w) # DLQ /\ Produce(<<Route(w), KeyOf(w)>>, NextAttempt(Rec(w)))
           /\ RecordFailure(Rec(w)) \/ UNCHANGED ledger
           /\ UNCHANGED <<dlq, req, handled, active, lock, held>>
BY DEF RouteFails, Moves, Return, Goto, redisVars

\* The attempt that is forwarded is a record of a retry topic.
LEMMA ForwardedRecord ==
    ASSUME PositionInv, LogType, JobsExist, NEW w \in Worker, pc[w] = "route", Route(w) # DLQ
    PROVE  NextAttempt(Rec(w)) \in Record /\ Route(w) \in Topic
           /\ <<Route(w), KeyOf(w)>> \in Partition
<1>1. Rec(w) \in Record /\ KeyOf(w) \in Keys BY WorkerRecord
<1>2. Rec(w).attempt \in 1 .. 3 BY <1>1 DEF Record, MaxAttempts
<1>3. Rec(w).attempt < 3 /\ Route(w) \in Topic
  BY <1>2 DEF Route, RouteFailure, MaxAttempts, Topic
<1>4. NextAttempt(Rec(w)) \in Record BY <1>1, <1>2, <1>3 DEF NextAttempt, Record, MaxAttempts
<1> QED BY <1>1, <1>3, <1>4 DEF Partition

LEMMA SettleMoves ==
    ASSUME PositionInv, NEW w \in Worker, Settle(w)
    PROVE  /\ pc[w] = "settle" /\ Moves(w, "unlock", verdict[w])
           /\ \/ verdict[w] = "retry" /\ UNCHANGED active
              \/ verdict[w] # "retry" /\ Release(KeyOf(w))
              \/ verdict[w] # "retry" /\ Spend("marker") /\ UNCHANGED active
           /\ UNCHANGED <<log, ledger, dlq, req, handled, lock, held>>
<1>1. /\ pc[w] = "settle" /\ Goto(w, "unlock") /\ UNCHANGED <<verdict, job>>
      /\ UNCHANGED <<log, ledger, dlq, req, handled, lock, held>>
  BY DEF Settle, kafkaVars, failVars
<1>2. Moves(w, "unlock", verdict[w]) BY <1>1, GotoMoves
<1> QED BY <1>1, <1>2 DEF Settle

LEMMA UnlockMoves ==
    ASSUME PositionInv, NEW w \in Worker, Unlock(w)
    PROVE  /\ pc[w] = "unlock" /\ held' = [held EXCEPT ![w] = FALSE]
           /\ \/ lock' = IF held[w] /\ lock[KeyOf(w)] = w
                         THEN [lock EXCEPT ![KeyOf(w)] = Free] ELSE lock
              \/ Spend("lock")
           /\ \/ verdict[w] = "redeliver" /\ Moves(w, "backoff", "redeliver") /\ UNCHANGED handled
              \/ /\ verdict[w] # "redeliver" /\ Moves(w, "commit", verdict[w])
                 /\ Finish(w, verdict[w])
           /\ UNCHANGED <<log, ledger, dlq, req, active>>
<1>1. /\ pc[w] = "unlock" /\ UNCHANGED <<log, ledger, dlq, req, active, verdict, job>>
      /\ held' = [held EXCEPT ![w] = FALSE]
  BY DEF Unlock, kafkaVars, failVars
<1>2. \/ lock' = IF held[w] /\ lock[KeyOf(w)] = w
                 THEN [lock EXCEPT ![KeyOf(w)] = Free] ELSE lock
      \/ Spend("lock")
  BY DEF Unlock
<1>3. CASE verdict[w] = "redeliver"
  <2>1. Goto(w, "backoff") /\ UNCHANGED handled BY <1>3 DEF Unlock
  <2> QED BY <1>1, <1>2, <1>3, <2>1, GotoMoves
<1>4. CASE verdict[w] # "redeliver"
  <2>1. Goto(w, "commit") /\ Finish(w, verdict[w]) BY <1>4 DEF Unlock
  <2> QED BY <1>1, <1>2, <1>4, <2>1, GotoMoves
<1> QED BY <1>3, <1>4

LEMMA DiscardPoisonMoves ==
    ASSUME NEW w \in Worker, DiscardPoison(w)
    PROVE  /\ pc[w] = "poison" /\ UNCHANGED <<log, req, lock, held>>
           /\ \/ /\ Moves(w, "commit", "poison") /\ Finish(w, "poison") /\ Release(KeyOf(w))
                 /\ RecordFailure(Rec(w)) \/ UNCHANGED ledger
                 /\ dlq' = dlq \union {Rec(w)} \/ UNCHANGED dlq
                 /\ RecordFailure(Rec(w)) \/ dlq' = dlq \union {Rec(w)}
              \/ /\ Moves(w, "backoff", "redeliver") /\ left["produce"] > 0
                 /\ UNCHANGED <<ledger, dlq, handled, active>>
<1>1. pc[w] = "poison" /\ UNCHANGED <<log, req, lock, held, job>> BY DEF DiscardPoison, kafkaVars
<1> QED BY <1>1 DEF DiscardPoison, Moves, Return, Goto

LEMMA LoseLockMoves ==
    ASSUME NEW w \in Worker, LoseLock(w)
    PROVE  /\ held[w] /\ UNCHANGED <<log, ledger, dlq, req, handled, active>>
           /\ lock[KeyOf(w)] # w \/ Spend("lock")
           /\ \/ /\ pc[w] \in {"process", "prepare", "analyze", "run", "conclude"}
                 /\ Moves(w, "route", "transient")
              \/ UNCHANGED <<pc, job, verdict>>
BY DEF LoseLock, Moves, Return, Goto, kafkaVars, failVars

-----------------------------------------------------------------------------
(* Every failure is recorded *)

\* What stays true of what has been handled, and of a worker the step does not concern.
LEMMA OldRecords ==
    ASSUME RecordInv, LogType', Grows
    PROVE  /\ \A h \in handled : /\ h[1] \in Partition /\ h[2] \in 1 .. Len(log'[h[1]])
                                 /\ h[3] \in Failed => Found(log[h[1]][h[2]])'
           /\ \A u \in Worker : pc[u] # "idle" /\ job'[u] = job[u] =>
                 /\ job'[u].off \in 1 .. Len(log'[job'[u].part]) /\ Rec(u)' = Rec(u)
                 /\ Found(Rec(u)) => Found(Rec(u))'
<1>1. \A p \in Partition : Len(log[p]) \in Nat /\ Len(log'[p]) \in Nat BY DEF RecordInv, LogType
<1>2. ASSUME NEW h \in handled
      PROVE  /\ h[1] \in Partition /\ h[2] \in 1 .. Len(log'[h[1]])
             /\ h[3] \in Failed => Found(log[h[1]][h[2]])'
  <2>1. h[1] \in Partition /\ h[2] \in 1 .. Len(log[h[1]]) BY DEF RecordInv, HandledExists
  <2>2. h[2] \in 1 .. Len(log'[h[1]]) /\ log'[h[1]][h[2]] = log[h[1]][h[2]]
    BY <1>1, <2>1 DEF Grows, LogGrows
  <2>3. ASSUME h[3] \in Failed PROVE Found(log[h[1]][h[2]])'
    <3>1. Found(log[h[1]][h[2]]) BY <2>3 DEF RecordInv, FailuresFound
    <3> DEFINE x == log[h[1]][h[2]]
    <3>2. x' = x BY <2>2
    <3>3. Found(x) BY <3>1
    <3> HIDE DEF x
    <3>4. \A y : Found(y) => Found(y)' BY FoundStays DEF RecordInv, Grows
    <3>5. Found(x)' BY <3>2, <3>3, <3>4 DEF Found
    <3> QED BY <3>5 DEF x
  <2> QED BY <2>1, <2>2, <2>3
<1>3. ASSUME NEW u \in Worker, pc[u] # "idle", job'[u] = job[u]
      PROVE  /\ job'[u].off \in 1 .. Len(log'[job'[u].part]) /\ Rec(u)' = Rec(u)
             /\ Found(Rec(u)) => Found(Rec(u))'
  <2>1. job[u].part \in Partition /\ job[u].off \in 1 .. Len(log[job[u].part])
    BY <1>3, WorkerRecord DEF RecordInv
  <2>2. /\ job[u].off \in 1 .. Len(log'[job[u].part])
        /\ log'[job[u].part][job[u].off] = log[job[u].part][job[u].off]
    BY <1>1, <2>1 DEF Grows, LogGrows
  <2>3. Rec(u)' = Rec(u) BY <1>3, <2>2 DEF Rec
  <2>4. \A y : Found(y) => Found(y)' BY FoundStays DEF RecordInv, Grows
  <2>5. Found(Rec(u)) => Found(Rec(u))' BY <2>3, <2>4 DEF Found
  <2> QED BY <1>3, <2>2, <2>3, <2>5
<1> QED BY <1>2, <1>3

\* Steps that concern no worker.
LEMMA RecordIdle ==
    ASSUME RecordInv, PositionInv', LogType', Grows, UNCHANGED <<pc, job, verdict, handled>>
    PROVE  RecordInv'
<1>1. JobsExist' BY OldRecords DEF RecordInv, JobsExist
<1>2. HandledExists' BY OldRecords DEF HandledExists
<1>3. \A h \in handled' : h[3] \in Failed => Found(log[h[1]][h[2]])' BY OldRecords
<1>4. ASSUME NEW u \in Worker, Settled(u)', verdict'[u] \in Failed PROVE Found(Rec(u))'
  BY <1>4, OldRecords DEF RecordInv, FailuresFound, Settled
<1> QED BY <1>1, <1>2, <1>3, <1>4 DEF RecordInv, FailuresFound

\* A worker moves on with its record, or ends Handle: a failure it reports is recorded.
LEMMA RecordMoves ==
    ASSUME RecordInv, PositionInv', LogType', Grows, NEW w \in Worker, pc[w] # "idle",
           NEW l, NEW v, Moves(w, l, v),
           l \in {"settle", "unlock"} /\ v \in Failed => Found(Rec(w))',
           \/ UNCHANGED handled
           \/ \E x : Finish(w, x) /\ (x \in Failed => Found(Rec(w))')
    PROVE  RecordInv'
<1>0. /\ pc \in [Worker -> PC] /\ verdict \in [Worker -> Verdict]
      /\ UNCHANGED job /\ pc'[w] = l /\ verdict'[w] = v
      /\ \A u \in Worker \ {w} : pc'[u] = pc[u] /\ verdict'[u] = verdict[u]
  BY DEF RecordInv, PositionInv, PositionType, Moves
<1>1. JobsExist' BY <1>0, OldRecords DEF RecordInv, JobsExist
<1>2. job[w].part \in Partition /\ job'[w].off \in 1 .. Len(log'[job'[w].part])
  BY <1>0, OldRecords, WorkerRecord DEF RecordInv
<1>3. HandledExists'
  <2>1. CASE UNCHANGED handled BY <2>1, OldRecords DEF HandledExists
  <2>2. CASE \E x : Finish(w, x)
    BY <1>0, <1>2, <2>2, OldRecords DEF HandledExists, Finish
  <2> QED BY <2>1, <2>2
<1>4. \A h \in handled' : h[3] \in Failed => Found(log[h[1]][h[2]])'
  <2>1. CASE UNCHANGED handled BY <2>1, OldRecords
  <2>2. CASE \E x : Finish(w, x) /\ (x \in Failed => Found(Rec(w))')
    <3>1. PICK x : Finish(w, x) /\ (x \in Failed => Found(Rec(w))') BY <2>2
    <3>2. ASSUME NEW h \in handled', h \notin handled
          PROVE  h[3] \in Failed => Found(log[h[1]][h[2]])'
      <4>1. h[1] = job[w].part /\ h[2] = job[w].off /\ h[3] = x BY <3>1, <3>2 DEF Finish
      <4> QED BY <1>0, <3>1, <4>1 DEF Rec
    <3> QED BY <3>2, OldRecords
  <2> QED BY <2>1, <2>2
<1>5. ASSUME NEW u \in Worker, Settled(u)', verdict'[u] \in Failed PROVE Found(Rec(u))'
  <2>1. CASE u = w BY <1>0, <1>5, <2>1 DEF Settled
  <2>2. CASE u # w BY <1>0, <1>5, <2>2, OldRecords DEF RecordInv, FailuresFound, Settled
  <2> QED BY <2>1, <2>2
<1> QED BY <1>1, <1>3, <1>4, <1>5 DEF RecordInv, FailuresFound

\* A worker rests.
LEMMA RecordRest ==
    ASSUME RecordInv, PositionInv', NEW w \in Worker, Rest(w),
           UNCHANGED <<log, ledger, dlq, req, handled>>
    PROVE  RecordInv'
<1>0. /\ pc \in [Worker -> PC] /\ verdict \in [Worker -> Verdict] /\ job \in [Worker -> Job]
      /\ pc'[w] = "idle"
      /\ \A u \in Worker \ {w} : pc'[u] = pc[u] /\ verdict'[u] = verdict[u] /\ job'[u] = job[u]
  BY DEF RecordInv, PositionInv, PositionType, Rest, Return, Goto
<1>1. LogType' BY DEF RecordInv, LogType
<1>2. JobsExist' BY <1>0 DEF RecordInv, JobsExist
<1>3. HandledExists' BY DEF RecordInv, HandledExists
<1>4. \A h \in handled' : h[3] \in Failed => Found(log[h[1]][h[2]])'
  BY DEF RecordInv, FailuresFound, Found
<1>5. ASSUME NEW u \in Worker, Settled(u)', verdict'[u] \in Failed PROVE Found(Rec(u))'
  BY <1>0, <1>5 DEF RecordInv, FailuresFound, Settled, Found, Rec
<1> QED BY <1>1, <1>2, <1>3, <1>4, <1>5 DEF RecordInv, FailuresFound

LEMMA RecordDeliver ==
    ASSUME RecordInv, PositionInv', NEW w \in Worker, NEW p \in Partition, Deliver(w, p)
    PROVE  RecordInv'
<1> DEFINE j == [part |-> p, off |-> pos[p] + 1]
           l == FirstStep(log[p][pos[p] + 1])
<1>1. /\ UNCHANGED <<log, ledger, dlq, req, handled, verdict>> /\ pos[p] < Len(log[p])
      /\ job' = [job EXCEPT ![w] = j] /\ pc' = [pc EXCEPT ![w] = l]
  BY DEF Deliver, Goto, kafkaVars, failVars
<1>2. l \in {"poison", "lock"} BY DEF FirstStep
<1>3. j.part = p /\ j.off \in 1 .. Len(log[p])
  BY <1>1 DEF RecordInv, PositionInv, PositionType, LogType
<1> HIDE DEF j, l
<1>4. /\ pc'[w] = l /\ job'[w] = j
      /\ \A u \in Worker \ {w} : pc'[u] = pc[u] /\ job'[u] = job[u]
  BY <1>1 DEF RecordInv, PositionInv, PositionType
<1>5. LogType' BY <1>1 DEF RecordInv, LogType
<1>6. JobsExist' BY <1>1, <1>3, <1>4 DEF RecordInv, JobsExist
<1>7. HandledExists' BY <1>1 DEF RecordInv, HandledExists
<1>8. \A h \in handled' : h[3] \in Failed => Found(log[h[1]][h[2]])'
  BY <1>1 DEF RecordInv, FailuresFound, Found
<1>9. ASSUME NEW u \in Worker, Settled(u)', verdict'[u] \in Failed PROVE Found(Rec(u))'
  BY <1>1, <1>2, <1>4, <1>9 DEF RecordInv, FailuresFound, Settled, Found, Rec
<1> QED BY <1>5, <1>6, <1>7, <1>8, <1>9 DEF RecordInv, FailuresFound

LEMMA RecordRedeliver ==
    ASSUME RecordInv, PositionInv', NEW w \in Worker, Redeliver(w)
    PROVE  RecordInv'
<1>1. pc[w] = "backoff" /\ UNCHANGED <<log, ledger, dlq, req, handled>>
  BY DEF Redeliver, kafkaVars, failVars
<1>2. CASE mine[w]
  <2> DEFINE l == FirstStep(Rec(w))
  <2>1. Moves(w, l, "none") BY <1>2 DEF Redeliver, Moves, Return, Goto
  <2>2. "none" \notin Failed BY DEF Failed
  <2>3. LogType' BY <1>1 DEF RecordInv, LogType
  <2>4. Grows BY <1>1, SameGrows DEF RecordInv, Grows
  <2> HIDE DEF l
  <2> QED BY <1>1, <2>1, <2>2, <2>3, <2>4, RecordMoves
<1>3. CASE ~mine[w] BY <1>1, <1>3, RecordRest DEF Redeliver
<1> QED BY <1>2, <1>3

LEMMA RecordHandle ==
    ASSUME RecordInv, PositionInv', NEW w \in Worker, Handle(w)
    PROVE  RecordInv'
<1>0. /\ PositionInv /\ LogType /\ JobsExist
      /\ log \in [Partition -> Seq(Record)] /\ ledger \in Seq(Row)
      /\ UNCHANGED log => LogGrows
      /\ UNCHANGED ledger => LedgerGrows
      /\ UNCHANGED <<log, ledger, req>> => LogType'
  BY SameGrows DEF RecordInv, LogType
<1>1. {"skipped", "transient", "redeliver", "gone", "reused", "budget", "success", "retry"}
         \intersect Failed = {}
  BY DEF Failed
<1>2. CASE TryLock(w) \/ TryLockOrphaned(w)
  <2>1. LogType' /\ Grows BY <1>0, <1>2, TryLockMoves DEF Grows
  <2>2. pc[w] # "idle" BY <1>0, <1>2, TryLockMoves
  <2> QED BY <1>0, <1>1, <1>2, <2>1, <2>2, TryLockMoves, RecordMoves
<1>3. CASE \/ CheckMedia(w) \/ BeginRevision(w) \/ TryReuse(w) \/ AsyncAnalyze(w)
           \/ Run(w) \/ Conclude(w) \/ CallFails(w)
  <2>1. LogType' /\ Grows /\ UNCHANGED handled BY <1>0, <1>3, ProcessMoves DEF Grows
  <2>2. pc[w] # "idle" BY <1>0, <1>3, ProcessMoves
  <2>3. PICK l, v : /\ Moves(w, l, v)
                    /\ \/ l \in {"prepare", "analyze", "run", "conclude", "route"}
                       \/ l = "settle" /\ v \in {"gone", "reused", "budget", "success"}
    BY <1>0, <1>3, ProcessMoves
  <2> QED BY <1>1, <2>1, <2>2, <2>3, RecordMoves
<1>4. CASE ForwardRetry(w)
  <2>1. /\ pc[w] = "route" /\ Moves(w, "settle", "retry") /\ Route(w) # DLQ
        /\ Produce(<<Route(w), KeyOf(w)>>, NextAttempt(Rec(w)))
        /\ UNCHANGED <<ledger, dlq, req, handled>>
    BY <1>4, ForwardMoves
  <2>2. log' \in [Partition -> Seq(Record)] /\ LogGrows
    BY <1>0, <2>1, ForwardedRecord, ProduceGrows
  <2>3. LogType' /\ Grows BY <1>0, <2>1, <2>2, RequestsRest DEF Grows
  <2> QED BY <1>1, <2>1, <2>3, RecordMoves
<1>5. CASE DeadLetter(w)
  <2>1. /\ pc[w] = "route" /\ Moves(w, "settle", "dlq")
        /\ RecordFailure(Rec(w)) \/ UNCHANGED ledger
        /\ dlq' = dlq \union {Rec(w)} /\ UNCHANGED <<log, req, handled>>
    BY <1>5, DeadLetterMoves
  <2>2. Rec(w) \in Record BY <1>0, <2>1, WorkerRecord
  <2>3. ledger' \in Seq(Row) /\ LedgerGrows BY <1>0, <2>1, <2>2, RecordGrows
  <2>4. LogType' /\ Grows BY <1>0, <2>1, <2>3, RequestsRest DEF Grows
  <2>5. Rec(w)' = Rec(w) BY <2>1 DEF Rec, Moves
  <2>6. Found(Rec(w))' BY <2>1, <2>5 DEF Found
  <2> QED BY <2>1, <2>4, <2>6, RecordMoves
<1>6. CASE RouteFails(w)
  <2>1. /\ pc[w] = "route" /\ Moves(w, "unlock", "redeliver")
        /\ \/ UNCHANGED log
           \/ Route(w) # DLQ /\ Produce(<<Route(w), KeyOf(w)>>, NextAttempt(Rec(w)))
        /\ RecordFailure(Rec(w)) \/ UNCHANGED ledger
        /\ UNCHANGED <<dlq, req, handled>>
    BY <1>6, RouteFailsMoves
  <2>2. Rec(w) \in Record BY <1>0, <2>1, WorkerRecord
  <2>3. ledger' \in Seq(Row) /\ LedgerGrows BY <1>0, <2>1, <2>2, RecordGrows
  <2>4. log' \in [Partition -> Seq(Record)] /\ LogGrows
    BY <1>0, <2>1, ForwardedRecord, ProduceGrows
  <2>5. LogType' /\ Grows BY <1>0, <2>1, <2>3, <2>4, RequestsRest DEF Grows
  <2> QED BY <1>1, <2>1, <2>5, RecordMoves
<1>7. CASE Settle(w)
  <2>1. /\ pc[w] = "settle" /\ Moves(w, "unlock", verdict[w])
        /\ UNCHANGED <<log, ledger, dlq, req, handled>>
    BY <1>0, <1>7, SettleMoves
  <2>2. LogType' /\ Grows BY <1>0, <2>1 DEF Grows
  <2>3. UNCHANGED job BY <2>1 DEF Moves
  <2>4. verdict[w] \in Failed => Found(Rec(w))'
    BY <2>1, <2>2, <2>3, OldRecords DEF RecordInv, FailuresFound, Settled
  <2> QED BY <2>1, <2>2, <2>4, RecordMoves
<1>8. CASE Unlock(w)
  <2>1. /\ pc[w] = "unlock" /\ UNCHANGED <<log, ledger, dlq, req>>
        /\ \/ Moves(w, "backoff", "redeliver") /\ UNCHANGED handled
           \/ Moves(w, "commit", verdict[w]) /\ Finish(w, verdict[w])
    BY <1>0, <1>8, UnlockMoves
  <2>2. LogType' /\ Grows BY <1>0, <2>1 DEF Grows
  <2>3. UNCHANGED job BY <2>1 DEF Moves
  <2>4. verdict[w] \in Failed => Found(Rec(w))'
    BY <2>1, <2>2, <2>3, OldRecords DEF RecordInv, FailuresFound, Settled
  <2> QED BY <1>1, <2>1, <2>2, <2>4, RecordMoves
<1>9. CASE DiscardPoison(w)
  <2>1. pc[w] = "poison" /\ UNCHANGED <<log, req>> BY <1>9, DiscardPoisonMoves
  <2>2. Rec(w) \in Record BY <1>0, <2>1, WorkerRecord
  <2>3. CASE Moves(w, "backoff", "redeliver") /\ UNCHANGED <<ledger, dlq, handled>>
    <3>1. LogType' /\ Grows BY <1>0, <2>1, <2>3 DEF Grows
    <3> QED BY <1>1, <2>1, <2>3, <3>1, RecordMoves
  <2>4. CASE /\ Moves(w, "commit", "poison") /\ Finish(w, "poison")
             /\ RecordFailure(Rec(w)) \/ UNCHANGED ledger
             /\ dlq' = dlq \union {Rec(w)} \/ UNCHANGED dlq
             /\ RecordFailure(Rec(w)) \/ dlq' = dlq \union {Rec(w)}
    <3>1. ledger' \in Seq(Row) /\ LedgerGrows BY <1>0, <2>2, <2>4, RecordGrows
    <3>2. LogType' /\ Grows BY <1>0, <2>1, <2>4, <3>1, RequestsRest DEF Grows
    <3>3. Rec(w)' = Rec(w) BY <2>1, <2>4 DEF Rec, Moves
    <3>4. Found(Rec(w))'
      <4>1. CASE dlq' = dlq \union {Rec(w)} BY <4>1, <3>3 DEF Found
      <4>2. CASE RecordFailure(Rec(w))
        <5> DEFINE x == Rec(w)
        <5>1. x' = x BY <3>3
        <5>2. x \in Record /\ RecordFailure(x) BY <2>2, <4>2
        <5> HIDE DEF x
        <5>3. \A y \in Record : RecordFailure(y) => Found(y)' BY <1>0, RecordGrows
        <5>4. Found(x)' BY <5>1, <5>2, <5>3 DEF Found
        <5> QED BY <5>4 DEF x
      <4> QED BY <2>4, <4>1, <4>2
    <3> QED BY <2>1, <2>4, <3>2, <3>4, RecordMoves
  <2> QED BY <1>9, <2>3, <2>4, DiscardPoisonMoves
<1> QED BY <1>2, <1>3, <1>4, <1>5, <1>6, <1>7, <1>8, <1>9 DEF Handle

LEMMA RecordEnvironment ==
    ASSUME RecordInv, PositionInv', Environment
    PROVE  RecordInv'
<1>0. /\ PositionInv /\ LogType /\ JobsExist
      /\ log \in [Partition -> Seq(Record)] /\ ledger \in Seq(Row)
      /\ UNCHANGED log => LogGrows
      /\ UNCHANGED ledger => LedgerGrows
      /\ UNCHANGED <<log, ledger, req>> => LogType'
      /\ UNCHANGED <<log, ledger, dlq>> => Grows
  BY SameGrows DEF RecordInv, LogType, Grows
<1>1. CASE \E w \in Worker : LoseLock(w)
  <2>1. PICK w \in Worker : LoseLock(w) BY <1>1
  <2>2. LogType' /\ Grows /\ UNCHANGED handled BY <1>0, <2>1, LoseLockMoves
  <2>3. "transient" \notin Failed BY DEF Failed
  <2>4. CASE pc[w] # "idle" /\ Moves(w, "route", "transient")
    BY <2>2, <2>3, <2>4, RecordMoves
  <2>5. CASE UNCHANGED <<pc, job, verdict>> BY <2>2, <2>5, RecordIdle
  <2> QED BY <2>1, <2>4, <2>5, LoseLockMoves
<1>2. CASE \E w \in Worker : Crash(w)
  BY <1>2, RecordRest DEF Crash, failVars
<1>3. CASE \E p \in Partition : Rebalance(p)
  <2>1. UNCHANGED <<log, ledger, dlq, req, pc, job, verdict, handled>>
    BY <1>3 DEF Rebalance, failVars
  <2> QED BY <1>0, <2>1, RecordIdle
<1>4. CASE \E k \in Keys : Lapse(k) \/ OrphanExpires(k) \/ MarkerExpires(k)
  <2>1. UNCHANGED <<log, ledger, dlq, req, pc, job, verdict, handled>>
    BY <1>4 DEF Lapse, OrphanExpires, MarkerExpires, kafkaVars, workerVars, failVars
  <2> QED BY <1>0, <2>1, RecordIdle
<1>5. CASE \E r \in Request : RequestCrash(r)
  <2>1. PICK r \in Request : RequestCrash(r) BY <1>5
  <2>2. /\ UNCHANGED <<log, ledger, dlq, pc, job, verdict, handled>>
        /\ req' = [req EXCEPT ![r] = [do |-> "done"]]
    BY <2>1 DEF RequestCrash, kafkaVars, workerVars, failVars, Done, SetReq
  <2>3. [do |-> "done"] \in RequestState BY DEF RequestState
  <2>4. LogType' BY <1>0, <2>2, <2>3, RequestMoves
  <2> QED BY <1>0, <2>2, <2>4, RecordIdle
<1>6. CASE \E m \in Media : DeleteMedia(m)
  <2>1. UNCHANGED <<log, ledger, dlq, req, pc, job, verdict, handled>>
    BY <1>6 DEF DeleteMedia, kafkaVars, workerVars, failVars
  <2> QED BY <1>0, <2>1, RecordIdle
<1>7. CASE \E m \in Media : ForeignPublish(m)
  <2>1. PICK m \in Media : ForeignPublish(m) BY <1>7
  <2> DEFINE x == [media |-> m, action |-> "BAD", attempt |-> 1]
  <2>2. /\ UNCHANGED <<ledger, dlq, req, pc, job, verdict, handled>>
        /\ Produce(<<Main, HashOf[m]>>, x)
    BY <2>1 DEF ForeignPublish, workerVars, failVars
  <2>3. x \in Record BY DEF Record, MaxAttempts
  <2> HIDE DEF x
  <2>4. log' \in [Partition -> Seq(Record)] /\ LogGrows BY <1>0, <2>2, <2>3, ProduceGrows
  <2>5. LogType' /\ Grows BY <1>0, <2>2, <2>4, RequestsRest DEF Grows
  <2> QED BY <2>2, <2>5, RecordIdle
<1> QED BY <1>1, <1>2, <1>3, <1>4, <1>5, <1>6, <1>7 DEF Environment

LEMMA RecordInit == Init => RecordInv
<1> SUFFICES ASSUME Init PROVE RecordInv OBVIOUS
<1>1. LogType BY DEF Init, LogType, RequestState
<1>2. JobsExist /\ HandledExists /\ FailuresFound
  BY DEF Init, JobsExist, HandledExists, FailuresFound, Settled
<1> QED BY <1>1, <1>2, PositionInit DEF RecordInv

\* The requests change nothing a worker relies on.
LEMMA RequestsOnly ==
    ASSUME NEW r \in Request, Submission(r) \/ Replay(r)
    PROVE  UNCHANGED <<pc, job, mine, held, verdict, lock, completed, media, result, handled>>
<1>1. CASE \E m \in Media : aiAnalyze(r, m) \/ reviseAgentResult(r, m)
  BY <1>1 DEF aiAnalyze, reviseAgentResult, SubmitReserve, workerVars, agentVars
<1>2. CASE SubmitRateLimited(r) BY <1>2 DEF SubmitRateLimited, workerVars, agentVars
<1>3. CASE SubmitStage(r) BY <1>3 DEF SubmitStage, workerVars, redisVars
<1>4. CASE SubmitPublish(r) BY <1>4 DEF SubmitPublish, workerVars, redisVars, agentVars
<1>5. CASE SubmitFail(r) BY <1>5 DEF SubmitFail, workerVars
<1>6. CASE failedReplay(r)
  BY <1>6 DEF failedReplay, ReplayRead, workerVars, redisVars, agentVars
<1>7. CASE ReplayReserve(r) BY <1>7 DEF ReplayReserve, workerVars, agentVars
<1>8. CASE ReplayPublish(r) BY <1>8 DEF ReplayPublish, workerVars, agentVars
<1>9. CASE ReplayMark(r) BY <1>9 DEF ReplayMark, workerVars, redisVars, agentVars
<1> QED BY <1>1, <1>2, <1>3, <1>4, <1>5, <1>6, <1>7, <1>8, <1>9 DEF Submission, Replay

LEMMA NextRecord ==
    ASSUME RecordInv, [Next]_vars
    PROVE  RecordInv'
<1>0. PositionInv /\ LogType BY DEF RecordInv
<1>1. PositionInv' BY <1>0, NextPosition
<1>2. CASE \E r \in Request : Submission(r) \/ Replay(r)
  BY <1>0, <1>1, <1>2, SubmissionGrows, ReplayGrows, RequestsOnly, RecordIdle
<1>3. CASE \E w \in Worker : Work(w)
  <2>1. PICK w \in Worker : Work(w) BY <1>3
  <2>2. CASE Commit(w) BY <1>1, <2>2, RecordRest DEF Commit, failVars
  <2> QED BY <1>1, <2>1, <2>2, RecordDeliver, RecordHandle, RecordRedeliver DEF Work
<1>4. CASE Environment BY <1>1, <1>4, RecordEnvironment
<1>5. CASE UNCHANGED vars
  <2>1. UNCHANGED <<log, ledger, dlq, req, pc, job, verdict, handled>>
    BY <1>5 DEF vars, kafkaVars, workerVars, failVars
  <2>2. LogType' /\ Grows BY <1>0, <2>1, SameGrows DEF LogType, Grows
  <2> QED BY <1>1, <2>1, <2>2, RecordIdle
<1> QED BY <1>2, <1>3, <1>4, <1>5 DEF Next

LEMMA AlwaysRecord == Spec => []RecordInv
<1>1. RecordInv /\ [Next]_vars => RecordInv' BY NextRecord
<1> QED BY RecordInit, <1>1, PTL DEF Spec

\* A message that Handle gave up on, dead-lettered or unusable, can be found in the ledger or in
\* the DLQ, whatever else fails: a failed ledger insert or produce, a crash, a rebalance, a
\* redelivery, other messages (DeadLetter, discardPoison).
THEOREM FailuresAreRecorded == Spec => []FailureIsRecorded
<1>1. RecordInv => FailureIsRecorded
  BY DEF RecordInv, FailuresFound, FailureIsRecorded, Found, Failed
<1> QED BY AlwaysRecord, <1>1, PTL

-----------------------------------------------------------------------------
(* No task is lost *)

\* Faults are only ever used up.
LeftDrops == left' \in [Fault -> Nat] /\ \A x \in Fault : left'[x] <= left[x]

LEMMA SpendDrops ==
    ASSUME left \in [Fault -> Nat]
    PROVE  /\ UNCHANGED left => LeftDrops
           /\ \A x \in Fault : Spend(x) => LeftDrops /\ left[x] # 0
<1>1. UNCHANGED left => LeftDrops BY DEF LeftDrops
<1>2. ASSUME NEW x \in Fault, Spend(x) PROVE LeftDrops /\ left[x] # 0
  <2>1. "any" \in Fault BY DEF Fault
  <2>2. left[x] \in Nat /\ left[x] > 0 /\ left["any"] \in Nat /\ left["any"] > 0
    BY <1>2, <2>1 DEF Spend
  <2>3. CASE x = "any" BY <1>2, <2>2, <2>3 DEF Spend, LeftDrops
  <2>4. CASE x # "any" BY <1>2, <2>1, <2>2, <2>4 DEF Spend, LeftDrops
  <2> QED BY <2>2, <2>3, <2>4
<1> QED BY <1>1, <1>2

LEMMA RequestDrops ==
    ASSUME left \in [Fault -> Nat], NEW r \in Request, Submission(r) \/ Replay(r)
    PROVE  LeftDrops
<1> USE SpendDrops
<1>0. {"lostack", "marker", "call", "produce", "replay"} \subseteq Fault BY DEF Fault
<1>1. CASE \E m \in Media : aiAnalyze(r, m) \/ reviseAgentResult(r, m)
  BY <1>0, <1>1 DEF aiAnalyze, reviseAgentResult, SubmitReserve
<1>2. CASE SubmitRateLimited(r) BY <1>0, <1>2 DEF SubmitRateLimited
<1>3. CASE SubmitStage(r) BY <1>3 DEF SubmitStage
<1>4. CASE SubmitPublish(r) BY <1>4 DEF SubmitPublish
<1>5. CASE SubmitFail(r) BY <1>0, <1>5 DEF SubmitFail
<1>6. CASE failedReplay(r) BY <1>0, <1>6 DEF failedReplay, ReplayRead
<1>7. CASE ReplayReserve(r) BY <1>7 DEF ReplayReserve
<1>8. CASE ReplayPublish(r) BY <1>0, <1>8 DEF ReplayPublish
<1>9. CASE ReplayMark(r) BY <1>0, <1>9 DEF ReplayMark
<1> QED BY <1>1, <1>2, <1>3, <1>4, <1>5, <1>6, <1>7, <1>8, <1>9 DEF Submission, Replay

LEMMA HandleDrops ==
    ASSUME left \in [Fault -> Nat], NEW w \in Worker, Handle(w)
    PROVE  LeftDrops
<1> USE SpendDrops
<1>0. {"agent", "lostack", "marker", "call", "produce", "lock", "any"} \subseteq Fault BY DEF Fault
<1>1. CASE TryLock(w) BY <1>0, <1>1 DEF TryLock
<1>2. CASE TryLockOrphaned(w) BY <1>0, <1>2 DEF TryLockOrphaned
<1>3. CASE CheckMedia(w) BY <1>3 DEF CheckMedia
<1>4. CASE BeginRevision(w) BY <1>0, <1>4 DEF BeginRevision
<1>5. CASE TryReuse(w) BY <1>0, <1>5 DEF TryReuse
<1>6. CASE AsyncAnalyze(w) BY <1>6 DEF AsyncAnalyze
<1>7. CASE Run(w) BY <1>0, <1>7 DEF Run
<1>8. CASE Conclude(w) BY <1>0, <1>8 DEF Conclude
<1>9. CASE CallFails(w) BY <1>0, <1>9 DEF CallFails
<1>10. CASE ForwardRetry(w) BY <1>10 DEF ForwardRetry
<1>11. CASE DeadLetter(w) BY <1>0, <1>11 DEF DeadLetter
<1>12. CASE RouteFails(w) BY <1>0, <1>12 DEF RouteFails
<1>13. CASE Settle(w) BY <1>0, <1>13 DEF Settle
<1>14. CASE Unlock(w) BY <1>0, <1>14 DEF Unlock
<1>15. CASE DiscardPoison(w)
  <2>1. CASE left["produce"] > 0 /\ left["call"] > 0 /\ left["any"] > 0
             /\ left' = [left EXCEPT !["produce"] = @ - 1, !["call"] = @ - 1, !["any"] = @ - 1]
    <3>1. left["produce"] \in Nat /\ left["call"] \in Nat /\ left["any"] \in Nat BY <1>0
    <3> QED BY <1>0, <2>1, <3>1 DEF LeftDrops
  <2> QED BY <1>0, <1>15, <2>1 DEF DiscardPoison
<1> QED BY <1>1, <1>2, <1>3, <1>4, <1>5, <1>6, <1>7, <1>8, <1>9, <1>10, <1>11, <1>12, <1>13,
          <1>14, <1>15 DEF Handle

LEMMA NextDrops ==
    ASSUME left \in [Fault -> Nat], [Next]_vars
    PROVE  LeftDrops
<1>0. {"call", "lock", "crash", "rebalance", "marker", "delete", "poison"} \subseteq Fault
  BY DEF Fault
<1>1. CASE \E r \in Request : Submission(r) \/ Replay(r) BY <1>1, RequestDrops
<1>2. ASSUME NEW w \in Worker, Work(w) PROVE LeftDrops
  <2>1. CASE \E p \in Partition : Deliver(w, p) BY <2>1, SpendDrops DEF Deliver
  <2>2. CASE Redeliver(w) BY <2>2, SpendDrops DEF Redeliver
  <2>3. CASE Commit(w) BY <1>0, <2>3, SpendDrops DEF Commit
  <2> QED BY <1>2, <2>1, <2>2, <2>3, HandleDrops DEF Work
<1>3. ASSUME Environment PROVE LeftDrops
  <2>1. CASE \E w \in Worker : LoseLock(w) \/ Crash(w)
    BY <1>0, <2>1, SpendDrops DEF LoseLock, Crash
  <2>2. CASE \E p \in Partition : Rebalance(p) BY <1>0, <2>2, SpendDrops DEF Rebalance
  <2>3. CASE \E k \in Keys : Lapse(k) \/ OrphanExpires(k) \/ MarkerExpires(k)
    BY <1>0, <2>3, SpendDrops DEF Lapse, OrphanExpires, MarkerExpires
  <2>4. CASE \E r \in Request : RequestCrash(r) BY <1>0, <2>4, SpendDrops DEF RequestCrash
  <2>5. CASE \E m \in Media : DeleteMedia(m) \/ ForeignPublish(m)
    BY <1>0, <2>5, SpendDrops DEF DeleteMedia, ForeignPublish
  <2> QED BY <1>3, <2>1, <2>2, <2>3, <2>4, <2>5 DEF Environment
<1>4. CASE UNCHANGED vars BY <1>4, SpendDrops DEF vars
<1> QED BY <1>1, <1>2, <1>3, <1>4 DEF Next

\* What can lose a task: the code's answers to these are the expiry of the lease or of the active
\* marker, or none (a failed DEL is ignored).
Losing == {"lock", "crash", "lostack", "marker", "produce"}
Spared == left \in [Fault -> Nat] /\ \A x \in Losing : left[x] = 0

TaskType ==
    /\ active \in [Keys -> BOOLEAN] /\ held \in [Worker -> BOOLEAN]
    /\ lock \in [Keys -> Worker \union {Free, Orphan}]

\* The task lock is its holder's, and nobody else believes to hold it.
Critical == {"process", "prepare", "analyze", "run", "conclude", "route", "settle", "unlock"}
LockInv ==
    /\ \A k \in Keys : lock[k] # Free => /\ lock[k] \in Worker /\ held[lock[k]]
                                         /\ pc[lock[k]] \in Critical /\ KeyOf(lock[k]) = k
    /\ \A w \in Worker : held[w] => pc[w] \in Critical /\ lock[KeyOf(w)] = w

\* The request is about to publish a task of the key.
Asks(r, k) ==
    \/ /\ req[r].do \in {"quota", "publish"}
       /\ Key(req[r].media, req[r].action) = k
    \/ /\ req[r].do = "replayPublish"
       /\ Key(ledger[req[r].row].media, ledger[req[r].row].action) = k

\* A record of the key that Handle has not finished; one that no worker has in hand either.
Waiting(k, t, o) == t \in Topic /\ o \in 1 .. Len(log[<<t, k>>]) /\ ~Handled(<<t, k>>, o)
Taken(p, o) == \E w \in Worker : pc[w] # "idle" /\ job[w].part = p /\ job[w].off = o
Unhandled(k) == \E t \in Topic : \E o \in Nat : Waiting(k, t, o)
Untaken(k) == \E t \in Topic : \E o \in Nat : Waiting(k, t, o) /\ ~Taken(<<t, k>>, o)

\* The holder of the task lock has not settled the task.
Carried(k) == lock[k] # Free /\ pc[lock[k]] # "unlock"

\* A worker that will not release the marker any more.
Leaving(w) == pc[w] = "unlock" \/ (pc[w] = "settle" /\ verdict[w] = "retry")

\* Why a key that is active will not be forgotten.  A worker that leaves the key leaves behind
\* a request or a record that no other worker has: nothing of the key is delivered until the
\* worker has given the lock back, so none is skipped because of it.
KeyInv(k) ==
    /\ active[k] => Requested(k) \/ Unhandled(k) \/ Carried(k)
    /\ \A w \in Worker : Leaving(w) /\ KeyOf(w) = k /\ active[k] => Requested(k) \/ Untaken(k)

TaskInv == RecordInv /\ Spared /\ TaskType /\ LockInv /\ \A k \in Keys : KeyInv(k)

LEMMA SparedFaults ==
    ASSUME Spared, NEW x \in Losing
    PROVE  ~Spend(x)
<1>1. x \in Fault BY DEF Losing, Fault
<1>2. left[x] = 0 BY DEF Spared
<1> QED BY <1>1, <1>2, SpendDrops DEF Spared

LEMMA NextSpared ==
    ASSUME Spared, [Next]_vars
    PROVE  Spared'
<1>1. LeftDrops BY NextDrops DEF Spared
<1>2. Losing \subseteq Fault BY DEF Losing, Fault
<1>3. ASSUME NEW x \in Losing PROVE left'[x] = 0
  BY <1>1, <1>2 DEF LeftDrops, Spared
<1> QED BY <1>1, <1>3 DEF LeftDrops, Spared

LEMMA RequestedAsks ==
    ASSUME NEW k
    PROVE  Requested(k) <=> \E r \in Request : Asks(r, k)
BY DEF Requested, Asks

-----------------------------------------------------------------------------
(* Steps of requests *)

\* The other requests go on asking for what they ask for.
LEMMA OthersAsk ==
    ASSUME LogType, LogType', LedgerGrows, NEW r, NEW x, req' = [req EXCEPT ![r] = x],
           NEW k, Requested(k), Asks(r, k) => Asks(r, k)'
    PROVE  Requested(k)'
<1>1. PICK s \in Request : Asks(s, k) BY RequestedAsks
<1>2. CASE s # r
  <2>1. req'[s] = req[s] BY <1>2 DEF LogType
  <2>2. CASE req[s].do \in {"quota", "publish"} /\ Key(req[s].media, req[s].action) = k
    BY <2>1, <2>2 DEF Requested
  <2>3. CASE req[s].do = "replayPublish" /\ Key(ledger[req[s].row].media, ledger[req[s].row].action) = k
    <3>1. req[s].row \in 1 .. Len(ledger) BY <2>3 DEF LogType
    <3>2. /\ ledger'[req[s].row].media = ledger[req[s].row].media
          /\ ledger'[req[s].row].action = ledger[req[s].row].action
      BY <3>1 DEF LedgerGrows
    <3>3. Key(ledger'[req[s].row].media, ledger'[req[s].row].action) = k BY <2>3, <3>2
    <3> QED BY <2>1, <2>3, <3>3 DEF Requested, Key
  <2> QED BY <1>1, <2>2, <2>3 DEF Asks
<1>3. CASE s = r BY <1>1, <1>3 DEF Asks, Requested
<1> QED BY <1>2, <1>3

\* A new record waits, and no worker has it.
LEMMA NewRecordWaits ==
    ASSUME RecordInv, NEW t \in Topic, NEW k, <<t, k>> \in Partition, NEW x \in Record,
           Produce(<<t, k>>, x), UNCHANGED <<job, handled>>,
           \A w \in Worker : pc'[w] # "idle" => pc[w] # "idle"
    PROVE  Untaken(k)'
<1> DEFINE p == <<t, k>>
<1>0. Len(log[p]) \in Nat BY DEF RecordInv, LogType
<1>1. PICK n \in Nat : n = Len(log[p]) + 1 /\ Len(log'[p]) = n
  BY <1>0, ProduceGrows DEF RecordInv
<1>2. ~Handled(p, n)'
  <2>1. ASSUME NEW v, <<p, n, v>> \in handled PROVE FALSE
    <3>1. <<p, n, v>>[2] \in 1 .. Len(log[<<p, n, v>>[1]])
      BY <2>1 DEF RecordInv, HandledExists
    <3> QED BY <1>0, <1>1, <3>1
  <2> QED BY <2>1 DEF Handled
<1>3. ~Taken(p, n)' BY <1>0, <1>1 DEF RecordInv, JobsExist, Taken
<1>4. n \in 1 .. Len(log'[p]) BY <1>0, <1>1
<1>5. Waiting(k, t, n)' /\ ~Taken(<<t, k>>, n)' BY <1>2, <1>3, <1>4 DEF Waiting
<1> QED BY <1>5 DEF Untaken

\* A step that moves no worker: each active key is still asked for, or has a new record, or
\* was active before and is asked for as before.
LEMMA RequestKeeps ==
    ASSUME TaskInv, LogType', LogGrows, UNCHANGED <<pc, job, verdict, lock, handled>>,
           NEW k \in Keys,
           active'[k] => Requested(k)' \/ Untaken(k)' \/ (active[k] /\ (Requested(k) => Requested(k)'))
    PROVE  KeyInv(k)'
<1>1. \A t, o : Waiting(k, t, o) => Waiting(k, t, o)'
  <2>1. ASSUME NEW t \in Topic PROVE Len(log[<<t, k>>]) <= Len(log'[<<t, k>>])
             /\ Len(log[<<t, k>>]) \in Nat /\ Len(log'[<<t, k>>]) \in Nat
    BY DEF TaskInv, RecordInv, LogType, LogGrows, Partition
  <2>2. ASSUME NEW t, NEW o, Waiting(k, t, o) PROVE Waiting(k, t, o)'
    <3>1. t \in Topic /\ o \in 1 .. Len(log[<<t, k>>]) /\ ~Handled(<<t, k>>, o)
      BY <2>2 DEF Waiting
    <3>2. o \in 1 .. Len(log'[<<t, k>>]) BY <2>1, <3>1
    <3>3. ~Handled(<<t, k>>, o)' BY <3>1 DEF Handled
    <3> QED BY <3>1, <3>2, <3>3 DEF Waiting
  <2> QED BY <2>2
<1>2. Unhandled(k) => Unhandled(k)' BY <1>1 DEF Unhandled
<1>3. Untaken(k) => Untaken(k)' BY <1>1 DEF Untaken, Taken
<1>4. Untaken(k)' => Unhandled(k)' BY DEF Untaken, Unhandled
<1>5. Carried(k) => Carried(k)' BY DEF Carried
<1>6. KeyInv(k) BY DEF TaskInv
<1>7. \A w \in Worker : Leaving(w)' /\ KeyOf(w)' = k => Leaving(w) /\ KeyOf(w) = k
  BY DEF Leaving, KeyOf
<1> QED BY <1>2, <1>3, <1>4, <1>5, <1>6, <1>7 DEF KeyInv

LEMMA ReleaseFrees ==
    ASSUME TaskType, NEW k, Release(k)
    PROVE  \A q \in Keys : active'[q] => active[q] /\ q # k
BY DEF TaskType, Release

LEMMA SubmissionKeeps ==
    ASSUME TaskInv, NEW r \in Request, Submission(r), NEW k \in Keys
    PROVE  active'[k] => Requested(k)' \/ Untaken(k)' \/ (active[k] /\ (Requested(k) => Requested(k)'))
<1>0. /\ RecordInv /\ LogType /\ LogType' /\ LedgerGrows /\ active \in [Keys -> BOOLEAN]
      /\ TaskType /\ Spared /\ UNCHANGED <<pc, job, handled>>
  BY SubmissionGrows, RequestsOnly DEF TaskInv, RecordInv, Grows, TaskType
<1> USE <1>0
<1>1. CASE \E m \in Media : aiAnalyze(r, m) \/ reviseAgentResult(r, m)
  <2>1. PICK m \in Media, a \in Actions : SubmitReserve(r, m, a)
    BY <1>1 DEF aiAnalyze, reviseAgentResult, SubmitReserve
  <2>2. ~Spend("lostack") BY SparedFaults DEF Losing
  <2> DEFINE x == [do |-> "quota", media |-> m, action |-> a]
  <2>3. /\ req[r].do = "new" /\ active' = [active EXCEPT ![Key(m, a)] = TRUE]
        /\ req' = [req EXCEPT ![r] = x]
    BY <2>1, <2>2 DEF SubmitReserve, SetReq
  <2>4. req'[r] = x /\ x.do = "quota" /\ x.media = m /\ x.action = a BY <2>3 DEF LogType
  <2> HIDE DEF x
  <2>6. CASE k = Key(m, a)
    <3>1. Asks(r, k)' BY <2>4, <2>6 DEF Asks, Key
    <3> QED BY <3>1 DEF Asks, Requested
  <2>7. CASE k # Key(m, a)
    <3>1. active'[k] = active[k] BY <2>3, <2>7
    <3>2. ~Asks(r, k) BY <2>3 DEF Asks
    <3> QED BY <2>3, <3>1, <3>2, OthersAsk
  <2> QED BY <2>6, <2>7
<1>2. CASE SubmitRateLimited(r)
  <2>1. ~Spend("marker") BY SparedFaults DEF Losing
  <2>2. /\ req[r].do = "quota" /\ Release(Key(req[r].media, req[r].action))
        /\ req' = [req EXCEPT ![r] = [do |-> "done"]]
    BY <1>2, <2>1 DEF SubmitRateLimited, Done, SetReq
  <2>4. active'[k] => active[k] /\ ~Asks(r, k) BY <2>2, ReleaseFrees DEF Asks
  <2> QED BY <2>2, <2>4, OthersAsk
<1>3. CASE SubmitStage(r)
  <2>1. /\ UNCHANGED active /\ req[r].do = "quota"
        /\ req' = [req EXCEPT ![r] = [req[r] EXCEPT !.do = "publish"]]
    BY <1>3 DEF SubmitStage, redisVars, SetReq
  <2>2. req'[r].do = "publish" /\ req'[r].media = req[r].media /\ req'[r].action = req[r].action
    BY <2>1, SubmissionRecord DEF LogType
  <2>3. Asks(r, k) => Asks(r, k)' BY <2>1, <2>2 DEF Asks, Key
  <2> QED BY <2>1, <2>3, OthersAsk
<1>4. CASE SubmitPublish(r)
  <2> DEFINE q == Key(req[r].media, req[r].action)
             x == [media |-> req[r].media, action |-> req[r].action, attempt |-> 1]
  <2>1. /\ UNCHANGED active /\ req[r].do = "publish" /\ Produce(<<Main, q>>, x)
        /\ req' = [req EXCEPT ![r] = [do |-> "done"]]
    BY <1>4 DEF SubmitPublish, redisVars, Done, SetReq
  <2>2. x \in Record /\ <<Main, q>> \in Partition BY <2>1, SubmissionRecord
  <2>3. Asks(r, k) => k = q BY <2>1 DEF Asks
  <2> HIDE DEF q, x
  <2>4. CASE k = q
    <3>1. Untaken(k)' BY <2>1, <2>2, <2>4, NewRecordWaits DEF Topic
    <3> QED BY <2>1, <3>1
  <2>5. CASE k # q BY <2>1, <2>3, <2>5, OthersAsk
  <2> QED BY <2>4, <2>5
<1>5. CASE SubmitFail(r)
  <2>1. /\ req[r].do \in {"quota", "publish"} /\ Release(Key(req[r].media, req[r].action))
        /\ req' = [req EXCEPT ![r] = [do |-> "done"]]
    BY <1>5 DEF SubmitFail, Done, SetReq
  <2>3. active'[k] => active[k] /\ ~Asks(r, k) BY <2>1, ReleaseFrees DEF Asks
  <2> QED BY <2>1, <2>3, OthersAsk
<1> QED BY <1>1, <1>2, <1>3, <1>4, <1>5 DEF Submission

LEMMA ReplayKeeps ==
    ASSUME TaskInv, NEW r \in Request, Replay(r), NEW k \in Keys
    PROVE  active'[k] => Requested(k)' \/ Untaken(k)' \/ (active[k] /\ (Requested(k) => Requested(k)'))
<1>0. /\ RecordInv /\ LogType /\ LogType' /\ LedgerGrows /\ active \in [Keys -> BOOLEAN]
      /\ TaskType /\ Spared /\ UNCHANGED <<pc, job, handled>>
  BY ReplayGrows, RequestsOnly DEF TaskInv, RecordInv, Grows, TaskType
<1> USE <1>0
<1>1. CASE failedReplay(r)
  <2>1. PICK i \in DOMAIN ledger : ReplayRead(r, i) BY <1>1 DEF failedReplay
  <2>2. /\ UNCHANGED active /\ req[r].do = "new"
        /\ req' = [req EXCEPT ![r] = [do |-> "replay", row |-> i]]
    BY <2>1 DEF ReplayRead, redisVars, SetReq
  <2>3. ~Asks(r, k) BY <2>2 DEF Asks
  <2> QED BY <2>2, <2>3, OthersAsk
<1>2. CASE ReplayReserve(r)
  <2> DEFINE i == req[r].row
             q == Key(ledger[i].media, ledger[i].action)
  <2>1. req[r].do = "replay" /\ UNCHANGED ledger BY <1>2 DEF ReplayReserve, failVars
  <2>2. ~Asks(r, k) BY <2>1 DEF Asks
  <2>3. CASE UNCHANGED active /\ req' = [req EXCEPT ![r] = [do |-> "done"]]
    BY <2>2, <2>3, OthersAsk
  <2>4. CASE /\ active' = [active EXCEPT ![q] = TRUE]
             /\ req' = [req EXCEPT ![r] = [req[r] EXCEPT !.do = "replayPublish"]]
    <3>1. req'[r].do = "replayPublish" /\ req'[r].row = i
      BY <2>1, <2>4, ReplayRow DEF LogType
    <3>2. k = q => Asks(r, k)' BY <2>1, <3>1 DEF Asks, Key
    <3>3. k = q => Requested(k)' BY <3>2 DEF Asks, Requested
    <3>5. k # q => active'[k] = active[k] BY <2>4
    <3> HIDE DEF q
    <3> QED BY <2>2, <2>4, <3>3, <3>5, OthersAsk
  <2>5. \/ UNCHANGED active /\ req' = [req EXCEPT ![r] = [do |-> "done"]]
        \/ /\ active' = [active EXCEPT ![q] = TRUE]
           /\ req' = [req EXCEPT ![r] = [req[r] EXCEPT !.do = "replayPublish"]]
    BY <1>2 DEF ReplayReserve, Done, SetReq
  <2> QED BY <2>3, <2>4, <2>5
<1>3. CASE ReplayPublish(r)
  <2> DEFINE i == req[r].row
             q == Key(ledger[i].media, ledger[i].action)
             x == [media |-> ledger[i].media, action |-> ledger[i].action, attempt |-> 1]
  <2>1. ~Spend("produce") /\ ~Spend("lostack") BY SparedFaults DEF Losing
  <2>2. /\ req[r].do = "replayPublish" /\ Produce(<<Main, q>>, x) /\ UNCHANGED active
        /\ req' = [req EXCEPT ![r] = [req[r] EXCEPT !.do = "replayMark"]]
    BY <1>3, <2>1 DEF ReplayPublish, SetReq
  <2>3. i \in DOMAIN ledger /\ ledger[i].action # "BAD" BY <2>2, ReplayRow
  <2>4. x \in Record /\ <<Main, q>> \in Partition BY <2>3, ReplayRecord
  <2>5. Asks(r, k) => k = q BY <2>2 DEF Asks
  <2> HIDE DEF q, x
  <2>6. CASE k = q
    <3>1. Untaken(k)' BY <2>2, <2>4, <2>6, NewRecordWaits DEF Topic
    <3> QED BY <2>2, <3>1
  <2>7. CASE k # q BY <2>2, <2>5, <2>7, OthersAsk
  <2> QED BY <2>6, <2>7
<1>4. CASE ReplayMark(r)
  <2>1. /\ UNCHANGED active /\ req[r].do = "replayMark"
        /\ req' = [req EXCEPT ![r] = [do |-> "done"]]
    BY <1>4 DEF ReplayMark, redisVars, Done, SetReq
  <2>2. ~Asks(r, k) BY <2>1 DEF Asks
  <2> QED BY <2>1, <2>2, OthersAsk
<1> QED BY <1>1, <1>2, <1>3, <1>4 DEF Replay

LEMMA RequestMarker ==
    ASSUME active \in [Keys -> BOOLEAN], NEW r \in Request, Submission(r) \/ Replay(r)
    PROVE  active' \in [Keys -> BOOLEAN]
<1>1. CASE \E m \in Media : aiAnalyze(r, m) \/ reviseAgentResult(r, m)
  BY <1>1 DEF aiAnalyze, reviseAgentResult, SubmitReserve
<1>2. CASE SubmitRateLimited(r) BY <1>2 DEF SubmitRateLimited, Release
<1>3. CASE SubmitStage(r) BY <1>3 DEF SubmitStage, redisVars
<1>4. CASE SubmitPublish(r) BY <1>4 DEF SubmitPublish, redisVars
<1>5. CASE SubmitFail(r) BY <1>5 DEF SubmitFail, Release
<1>6. CASE failedReplay(r) BY <1>6 DEF failedReplay, ReplayRead, redisVars
<1>7. CASE ReplayReserve(r) BY <1>7 DEF ReplayReserve
<1>8. CASE ReplayPublish(r) BY <1>8 DEF ReplayPublish, Release
<1>9. CASE ReplayMark(r) BY <1>9 DEF ReplayMark, redisVars
<1> QED BY <1>1, <1>2, <1>3, <1>4, <1>5, <1>6, <1>7, <1>8, <1>9 DEF Submission, Replay

LEMMA TaskRequest ==
    ASSUME TaskInv, RecordInv', Spared', NEW r \in Request, Submission(r) \/ Replay(r)
    PROVE  TaskInv'
<1>1. /\ LogType' /\ LogGrows /\ UNCHANGED <<pc, job, verdict, lock, held, handled>>
  BY SubmissionGrows, ReplayGrows, RequestsOnly DEF TaskInv, RecordInv, Grows
<1>2. ASSUME NEW k \in Keys PROVE KeyInv(k)'
  BY <1>1, RequestKeeps, SubmissionKeeps, ReplayKeeps
<1>3. TaskType' BY <1>1, RequestMarker DEF TaskInv, TaskType
<1>4. LockInv' BY <1>1 DEF TaskInv, LockInv, KeyOf
<1> QED BY <1>2, <1>3, <1>4 DEF TaskInv

-----------------------------------------------------------------------------
(* Steps of workers *)

LEMMA SameRequested ==
    ASSUME LogType, LedgerGrows, UNCHANGED req, NEW k
    PROVE  Requested(k) => Requested(k)'
<1>1. \A r \in Request : req[r].do = "replayPublish" => req[r].row \in 1 .. Len(ledger)
  BY DEF LogType
<1>2. \A r \in Request : req[r].do = "replayPublish" =>
        /\ ledger'[req[r].row].media = ledger[req[r].row].media
        /\ ledger'[req[r].row].action = ledger[req[r].row].action
  BY <1>1 DEF LedgerGrows
<1> QED BY <1>2 DEF Requested, Key

\* A worker that works on a record, or finishes it, takes nothing else away.
LEMMA WaitingStays ==
    ASSUME RecordInv, LogType', LogGrows, NEW w \in Worker, pc[w] # "idle", UNCHANGED job,
           \A u \in Worker : pc'[u] # "idle" => pc[u] # "idle",
           UNCHANGED handled \/ \E x : Finish(w, x), NEW k \in Keys
    PROVE  /\ Untaken(k) => Untaken(k)'
           /\ k # KeyOf(w) \/ UNCHANGED handled => (Unhandled(k) => Unhandled(k)')
<1>1. ASSUME NEW t, NEW o, Waiting(k, t, o), ~Handled(<<t, k>>, o)' PROVE Waiting(k, t, o)'
  <2>1. t \in Topic /\ o \in 1 .. Len(log[<<t, k>>]) BY <1>1 DEF Waiting
  <2>2. <<t, k>> \in Partition BY <2>1 DEF Partition
  <2>3. Len(log[<<t, k>>]) <= Len(log'[<<t, k>>]) /\ Len(log[<<t, k>>]) \in Nat
        /\ Len(log'[<<t, k>>]) \in Nat
    BY <2>2 DEF RecordInv, LogType, LogGrows
  <2>4. o \in 1 .. Len(log'[<<t, k>>]) BY <2>1, <2>3
  <2> QED BY <1>1, <2>1, <2>4 DEF Waiting
<1>2. ASSUME NEW t, NEW o, ~Handled(<<t, k>>, o),
             <<t, k>> # job[w].part \/ o # job[w].off \/ UNCHANGED handled
      PROVE  ~Handled(<<t, k>>, o)'
  BY <1>2 DEF Handled, Finish
<1>3. ASSUME Untaken(k) PROVE Untaken(k)'
  <2>1. PICK t \in Topic, o \in Nat : Waiting(k, t, o) /\ ~Taken(<<t, k>>, o)
    BY <1>3 DEF Untaken
  <2>2. <<t, k>> # job[w].part \/ o # job[w].off BY <2>1 DEF Taken
  <2>3. ~Handled(<<t, k>>, o) BY <2>1 DEF Waiting
  <2>4. Waiting(k, t, o)' BY <1>1, <1>2, <2>1, <2>2, <2>3
  <2>5. ~Taken(<<t, k>>, o)' BY <2>1 DEF Taken
  <2> QED BY <2>4, <2>5 DEF Untaken
<1>4. ASSUME k # KeyOf(w) \/ UNCHANGED handled, Unhandled(k) PROVE Unhandled(k)'
  <2>1. PICK t \in Topic, o \in Nat : Waiting(k, t, o) BY <1>4 DEF Unhandled
  <2>2. <<t, k>> # job[w].part \/ UNCHANGED handled BY <1>4 DEF KeyOf
  <2>3. ~Handled(<<t, k>>, o) BY <2>1 DEF Waiting
  <2>4. Waiting(k, t, o)' BY <1>1, <1>2, <2>1, <2>2, <2>3
  <2> QED BY <2>4 DEF Unhandled
<1> QED BY <1>3, <1>4

\* A worker moves on: it must not leave an active key without a successor.
LEMMA MoveKeeps ==
    ASSUME TaskInv, LogType', LogGrows, LedgerGrows, UNCHANGED req,
           NEW w \in Worker, pc[w] # "idle", NEW l, NEW v, Moves(w, l, v),
           UNCHANGED handled \/ \E x : Finish(w, x), NEW k \in Keys,
           active'[k] => active[k],
           active'[k] /\ Carried(k) => Requested(k)' \/ Unhandled(k)' \/ Carried(k)',
           active'[k] /\ KeyOf(w) = k /\ handled' # handled
             => Requested(k)' \/ Unhandled(k)' \/ Carried(k)',
           active'[k] /\ KeyOf(w) = k /\ Leaving(w)' => Requested(k)' \/ Untaken(k)'
    PROVE  KeyInv(k)'
<1>0. /\ RecordInv /\ LogType /\ KeyInv(k) /\ UNCHANGED job
      /\ \A u \in Worker \ {w} : pc'[u] = pc[u] /\ verdict'[u] = verdict[u]
      /\ \A u \in Worker : pc'[u] # "idle" => pc[u] # "idle"
  BY DEF TaskInv, RecordInv, PositionInv, PositionType, Moves
<1>1. /\ Untaken(k) => Untaken(k)'
      /\ k # KeyOf(w) \/ UNCHANGED handled => (Unhandled(k) => Unhandled(k)')
  BY <1>0, WaitingStays
<1>2. Requested(k) => Requested(k)' BY <1>0, SameRequested
<1>3. active'[k] => Requested(k)' \/ Unhandled(k)' \/ Carried(k)'
  BY <1>0, <1>1, <1>2 DEF KeyInv
<1>4. ASSUME NEW u \in Worker, Leaving(u)', KeyOf(u)' = k, active'[k]
      PROVE  Requested(k)' \/ Untaken(k)'
  <2>1. KeyOf(u) = k BY <1>0, <1>4 DEF KeyOf
  <2>2. CASE u = w BY <1>4, <2>1, <2>2
  <2>3. CASE u # w
    <3>1. Leaving(u) BY <1>0, <1>4, <2>3 DEF Leaving
    <3> QED BY <1>0, <1>1, <1>2, <1>4, <2>1, <3>1 DEF KeyInv
  <2> QED BY <2>2, <2>3
<1> QED BY <1>3, <1>4 DEF KeyInv

\* The lock of a worker that stays in Handle's critical section.
LEMMA LockStays ==
    ASSUME TaskInv, NEW w \in Worker, NEW l, NEW v, Moves(w, l, v), UNCHANGED <<lock, held>>,
           pc[w] \in Critical => l \in Critical
    PROVE  LockInv'
<1>1. /\ UNCHANGED job /\ pc'[w] = l
      /\ \A u \in Worker \ {w} : pc'[u] = pc[u]
  BY DEF TaskInv, RecordInv, PositionInv, PositionType, Moves
<1>2. \A u \in Worker : pc[u] \in Critical => pc'[u] \in Critical BY <1>1
<1> QED BY <1>1, <1>2 DEF TaskInv, LockInv, KeyOf

\* Handle has taken the record no further than its routing.
LEMMA TaskWorks ==
    ASSUME TaskInv, RecordInv', Spared', Grows, NEW w \in Worker, pc[w] # "idle",
           NEW l, NEW v, Moves(w, l, v), UNCHANGED <<req, handled, active, lock, held>>,
           pc[w] \in Critical => l \in Critical,
           \/ l \notin {"settle", "unlock"}
           \/ l = "settle" /\ v # "retry"
           \/ l = "settle" /\ \A k \in Keys : KeyOf(w) = k => Untaken(k)'
    PROVE  TaskInv'
<1>0. /\ LogType' /\ LogGrows /\ LedgerGrows /\ pc'[w] = l /\ verdict'[w] = v
      /\ \A u \in Worker \ {w} : pc'[u] = pc[u]
  BY DEF TaskInv, RecordInv, PositionInv, PositionType, Moves, Grows
<1>1. ASSUME NEW k \in Keys PROVE KeyInv(k)'
  <2>1. Carried(k) => Carried(k)' BY <1>0 DEF Carried, TaskInv, LockInv
  <2>2. KeyOf(w) = k /\ Leaving(w)' => Untaken(k)' BY <1>0 DEF Leaving
  <2> QED BY <1>0, <2>1, <2>2, MoveKeeps
<1>2. TaskType' BY DEF TaskInv, TaskType
<1> QED BY <1>1, <1>2, LockStays DEF TaskInv

LEMMA TaskTryLock ==
    ASSUME TaskInv, RecordInv', Spared', NEW w \in Worker, TryLock(w) \/ TryLockOrphaned(w)
    PROVE  TaskInv'
<1> DEFINE q == KeyOf(w)
<1>0. /\ PositionInv /\ LogType /\ LogType' /\ JobsExist /\ TaskType /\ LockInv /\ ~Spend("lock")
      /\ \A k \in Keys : KeyInv(k)
  BY SparedFaults DEF TaskInv, RecordInv, Losing
<1>1. pc[w] = "lock" /\ UNCHANGED <<log, ledger, dlq, req, active>> BY <1>0, TryLockMoves
<1>2. Grows /\ LogGrows /\ LedgerGrows BY <1>0, <1>1, SameGrows DEF Grows
<1>3. q \in Keys BY <1>0, <1>1, WorkerRecord
<1>4. "lock" \notin Critical BY DEF Critical
<1>5. CASE /\ Moves(w, "process", verdict[w]) /\ UNCHANGED handled
           /\ lock[q] = Free /\ lock' = [lock EXCEPT ![q] = w]
           /\ held' = [held EXCEPT ![w] = TRUE]
  <2>1. /\ UNCHANGED job /\ pc'[w] = "process"
        /\ \A u \in Worker \ {w} : pc'[u] = pc[u]
    BY <1>5, <1>0 DEF PositionInv, PositionType, Moves
  <2>2. /\ TaskType' /\ lock'[q] = w /\ held'[w]
        /\ \A k \in Keys \ {q} : lock'[k] = lock[k]
        /\ \A u \in Worker \ {w} : held'[u] = held[u]
    BY <1>0, <1>1, <1>3, <1>5 DEF TaskType
  <2>3. LockInv'
    <3>1. ASSUME NEW k \in Keys, lock'[k] # Free
          PROVE  lock'[k] \in Worker /\ held'[lock'[k]] /\ pc'[lock'[k]] \in Critical /\ KeyOf(lock[k])' = k
      <4>1. CASE k = q BY <2>1, <2>2, <4>1 DEF Critical, KeyOf
      <4>2. CASE k # q
        <5>1. lock'[k] = lock[k] /\ lock[k] # Free BY <2>2, <3>1, <4>2
        <5>2. lock[k] # w BY <1>0, <1>1, <1>4, <5>1 DEF LockInv
        <5> QED BY <1>0, <2>1, <2>2, <5>1, <5>2 DEF LockInv, KeyOf
      <4> QED BY <4>1, <4>2
    <3>2. ASSUME NEW u \in Worker, held'[u]
          PROVE  pc'[u] \in Critical /\ lock'[KeyOf(u)'] = u
      <4>1. CASE u = w BY <2>1, <2>2, <4>1 DEF Critical, KeyOf
      <4>2. CASE u # w
        <5>1. held[u] /\ pc[u] \in Critical /\ lock[KeyOf(u)] = u
          BY <1>0, <2>2, <3>2, <4>2 DEF LockInv
        <5>2. KeyOf(u) # q BY <1>5, <5>1, PipelineAssumption
        <5>3. pc[u] # "idle" BY <5>1 DEF Critical
        <5>4. KeyOf(u) \in Keys BY <1>0, <5>3, WorkerRecord
        <5> QED BY <2>1, <2>2, <4>2, <5>1, <5>2, <5>4 DEF KeyOf
      <4> QED BY <4>1, <4>2
    <3> QED BY <3>1, <3>2 DEF LockInv, KeyOf
  <2>4. ASSUME NEW k \in Keys PROVE KeyInv(k)'
    <3>1. Carried(k) => Carried(k)'
      <4>1. CASE k = q BY <1>5, <4>1 DEF Carried
      <4>2. CASE k # q
        <5>1. lock'[k] = lock[k] BY <2>2, <4>2
        <5>2. lock[k] # Free => lock[k] \in Worker \ {w} BY <1>0, <1>1, <1>4 DEF LockInv
        <5> QED BY <2>1, <5>1, <5>2 DEF Carried
      <4> QED BY <4>1, <4>2
    <3>2. ~Leaving(w)' BY <2>1 DEF Leaving
    <3> QED BY <1>0, <1>1, <1>2, <1>5, <3>1, <3>2, MoveKeeps
  <2> QED BY <2>2, <2>3, <2>4 DEF TaskInv
<1>6. CASE /\ Moves(w, "commit", "skipped") /\ Finish(w, "skipped") /\ UNCHANGED <<lock, held>>
           /\ lock[q] # Free
  <2>1. UNCHANGED job /\ pc'[w] = "commit" /\ \A u \in Worker \ {w} : pc'[u] = pc[u]
    BY <1>6, <1>0 DEF PositionInv, PositionType, Moves
  <2>2. LockInv' BY <1>1, <1>4, <1>6, LockStays
  <2>3. ASSUME NEW k \in Keys PROVE KeyInv(k)'
    <3>1. lock[k] # Free => lock[k] \in Worker \ {w} /\ KeyOf(lock[k]) = k
      BY <1>0, <1>1, <1>4 DEF LockInv
    <3>2. Carried(k) => Carried(k)' BY <1>6, <2>1, <3>1 DEF Carried
    <3>3. ~Leaving(w)' BY <2>1 DEF Leaving
    <3>4. ASSUME active'[k], q = k PROVE Requested(k)' \/ Unhandled(k)' \/ Carried(k)'
      <4>1. lock[k] # Free BY <1>6, <3>4
      <4>2. CASE pc[lock[k]] # "unlock" BY <3>2, <4>1, <4>2 DEF Carried
      <4>3. CASE pc[lock[k]] = "unlock"
        <5>1. Leaving(lock[k]) /\ lock[k] \in Worker /\ KeyOf(lock[k]) = k
          BY <3>1, <4>1, <4>3 DEF Leaving
        <5>2. active[k] BY <1>1, <3>4
        <5>3. Requested(k) \/ Untaken(k) BY <1>0, <5>1, <5>2 DEF KeyInv
        <5>4. \A u \in Worker : pc'[u] # "idle" => pc[u] # "idle" BY <1>1, <2>1
        <5>5. Untaken(k) => Untaken(k)'
          BY <1>0, <1>1, <1>2, <1>6, <2>1, <5>4, WaitingStays DEF TaskInv
        <5>6. Untaken(k)' => Unhandled(k)' BY DEF Untaken, Unhandled
        <5>7. Requested(k) => Requested(k)' BY <1>0, <1>1, <1>2, SameRequested
        <5> QED BY <5>3, <5>5, <5>6, <5>7
      <4> QED BY <4>2, <4>3
    <3>5. pc[w] # "idle" /\ (active'[k] => active[k]) BY <1>1
    <3> QED BY <1>0, <1>1, <1>2, <1>6, <3>2, <3>3, <3>4, <3>5, MoveKeeps
  <2>4. TaskType' BY <1>0, <1>1, <1>6 DEF TaskType
  <2> QED BY <2>2, <2>3, <2>4 DEF TaskInv
<1>7. CASE Moves(w, "route", "transient") /\ UNCHANGED <<handled, held, lock>>
  BY <1>1, <1>2, <1>4, <1>7, TaskWorks
<1> QED BY <1>0, <1>5, <1>6, <1>7, TryLockMoves

\* process and the routing of failures; a retry leaves its record behind.
LEMMA TaskRoute ==
    ASSUME TaskInv, RecordInv', Spared', NEW w \in Worker,
           \/ CheckMedia(w) \/ BeginRevision(w) \/ TryReuse(w) \/ AsyncAnalyze(w)
           \/ Run(w) \/ Conclude(w) \/ CallFails(w)
           \/ ForwardRetry(w) \/ DeadLetter(w) \/ RouteFails(w)
    PROVE  TaskInv'
<1>0. /\ RecordInv /\ PositionInv /\ LogType /\ LogType' /\ JobsExist
      /\ UNCHANGED log => LogGrows
      /\ UNCHANGED ledger => LedgerGrows
  BY SameGrows DEF TaskInv, RecordInv
<1>1. CASE \/ CheckMedia(w) \/ BeginRevision(w) \/ TryReuse(w) \/ AsyncAnalyze(w)
           \/ Run(w) \/ Conclude(w) \/ CallFails(w)
  <2>1. /\ pc[w] # "idle" /\ UNCHANGED <<req, handled, active, lock, held>> /\ Grows
    BY <1>0, <1>1, ProcessMoves DEF Grows
  <2>2. PICK l, v : /\ Moves(w, l, v)
                    /\ \/ l \in {"prepare", "analyze", "run", "conclude", "route"}
                       \/ l = "settle" /\ v \in {"gone", "reused", "budget", "success"}
    BY <1>0, <1>1, ProcessMoves
  <2>3. l \in Critical BY <2>2 DEF Critical
  <2>4. l \notin {"settle", "unlock"} \/ (l = "settle" /\ v # "retry") BY <2>2
  <2> QED BY <2>1, <2>2, <2>3, <2>4, TaskWorks
<1>2. CASE ForwardRetry(w)
  <2>1. /\ pc[w] = "route" /\ Moves(w, "settle", "retry") /\ Route(w) # DLQ
        /\ Produce(<<Route(w), KeyOf(w)>>, NextAttempt(Rec(w)))
        /\ UNCHANGED <<ledger, dlq, req, handled, active, lock, held>>
    BY <1>2, ForwardMoves
  <2>2. /\ NextAttempt(Rec(w)) \in Record /\ Route(w) \in Topic
        /\ <<Route(w), KeyOf(w)>> \in Partition
    BY <1>0, <2>1, ForwardedRecord
  <2>3. LogGrows /\ Grows BY <1>0, <2>1, <2>2, ProduceGrows DEF Grows
  <2>4. UNCHANGED job /\ \A u \in Worker : pc'[u] # "idle" => pc[u] # "idle"
    BY <1>0, <2>1 DEF Moves, PositionInv, PositionType
  <2>5. ASSUME NEW k \in Keys, KeyOf(w) = k PROVE Untaken(k)'
    BY <1>0, <2>1, <2>2, <2>4, <2>5, NewRecordWaits
  <2>6. "settle" \in Critical BY DEF Critical
  <2> QED BY <2>1, <2>3, <2>5, <2>6, TaskWorks
<1>3. CASE DeadLetter(w)
  <2>1. /\ pc[w] = "route" /\ Moves(w, "settle", "dlq")
        /\ RecordFailure(Rec(w)) \/ UNCHANGED ledger
        /\ dlq' = dlq \union {Rec(w)} /\ UNCHANGED <<log, req, handled, active, lock, held>>
    BY <1>3, DeadLetterMoves
  <2>2. Rec(w) \in Record BY <1>0, <2>1, WorkerRecord
  <2>3. Grows BY <1>0, <2>1, <2>2, RecordGrows DEF Grows
  <2>4. "settle" \in Critical BY DEF Critical
  <2> QED BY <2>1, <2>3, <2>4, TaskWorks
<1>4. CASE RouteFails(w)
  BY <1>4, RouteFailsMoves, SparedFaults DEF TaskInv, Losing
<1> QED BY <1>1, <1>2, <1>3, <1>4

\* The marker goes, or the retry that was forwarded waits.
LEMMA TaskSettle ==
    ASSUME TaskInv, RecordInv', Spared', NEW w \in Worker, Settle(w)
    PROVE  TaskInv'
<1>0. /\ RecordInv /\ PositionInv /\ LogType /\ LogType' /\ JobsExist /\ TaskType /\ LockInv
      /\ \A k \in Keys : KeyInv(k)
  BY DEF TaskInv, RecordInv
<1>1. /\ pc[w] = "settle" /\ Moves(w, "unlock", verdict[w])
      /\ UNCHANGED <<log, ledger, dlq, req, handled, lock, held>>
      /\ (verdict[w] = "retry" /\ UNCHANGED active) \/ Release(KeyOf(w))
  BY <1>0, SettleMoves, SparedFaults DEF TaskInv, Losing
<1>2. LogGrows /\ LedgerGrows BY <1>0, <1>1, SameGrows
<1>3. /\ UNCHANGED job /\ pc'[w] = "unlock"
      /\ \A u \in Worker \ {w} : pc'[u] = pc[u]
  BY <1>0, <1>1 DEF PositionInv, PositionType, Moves
<1>4. LockInv' BY <1>1, LockStays DEF Critical
<1>5. TaskType' BY <1>0, <1>1 DEF TaskType, Release
<1>6. ASSUME NEW k \in Keys PROVE KeyInv(k)'
  <2>1. active'[k] => active[k] /\ (k = KeyOf(w) => verdict[w] = "retry")
    BY <1>0, <1>1, ReleaseFrees
  <2>2. ASSUME active'[k], KeyOf(w) = k PROVE Requested(k)' \/ Untaken(k)'
    <3>1. Leaving(w) /\ active[k] BY <1>1, <2>1, <2>2 DEF Leaving
    <3>2. Requested(k) \/ Untaken(k) BY <1>0, <2>2, <3>1 DEF KeyInv
    <3>3. pc[w] # "idle" /\ \A u \in Worker : pc'[u] # "idle" => pc[u] # "idle"
      BY <1>1, <1>3
    <3>4. Untaken(k) => Untaken(k)' BY <1>0, <1>1, <1>2, <1>3, <3>3, WaitingStays
    <3>5. Requested(k) => Requested(k)' BY <1>0, <1>1, <1>2, SameRequested
    <3> QED BY <3>2, <3>4, <3>5
  <2>3. Untaken(k)' => Unhandled(k)' BY DEF Untaken, Unhandled
  <2>4. ASSUME active'[k], Carried(k) PROVE Requested(k)' \/ Unhandled(k)' \/ Carried(k)'
    <3>1. CASE KeyOf(w) = k BY <2>2, <2>3, <2>4, <3>1
    <3>2. CASE KeyOf(w) # k
      <4>1. lock[k] \in Worker \ {w} BY <1>0, <2>4, <3>2 DEF Carried, LockInv
      <4> QED BY <1>1, <1>3, <2>4, <4>1 DEF Carried
    <3> QED BY <3>1, <3>2
  <2> QED BY <1>0, <1>1, <1>2, <2>1, <2>2, <2>4, MoveKeeps
<1> QED BY <1>4, <1>5, <1>6 DEF TaskInv

\* Handle returns: what is left of an active key is not the worker's record.
LEMMA TaskUnlock ==
    ASSUME TaskInv, RecordInv', Spared', NEW w \in Worker, Unlock(w)
    PROVE  TaskInv'
<1> DEFINE q == KeyOf(w)
<1>0. /\ RecordInv /\ PositionInv /\ LogType /\ LogType' /\ JobsExist /\ TaskType /\ LockInv
      /\ ~Spend("lock") /\ \A k \in Keys : KeyInv(k)
  BY SparedFaults DEF TaskInv, RecordInv, Losing
<1>1. /\ pc[w] = "unlock" /\ UNCHANGED <<log, ledger, dlq, req, active>>
      /\ held' = [held EXCEPT ![w] = FALSE]
      /\ lock' = IF held[w] /\ lock[q] = w THEN [lock EXCEPT ![q] = Free] ELSE lock
  BY <1>0, UnlockMoves
<1>2. PICK l, v : /\ l \in {"backoff", "commit"} /\ Moves(w, l, v)
                  /\ UNCHANGED handled \/ Finish(w, v)
  BY <1>0, UnlockMoves
<1>3. LogGrows /\ LedgerGrows BY <1>0, <1>1, SameGrows
<1>4. /\ UNCHANGED job /\ pc'[w] = l
      /\ \A u \in Worker \ {w} : pc'[u] = pc[u]
  BY <1>0, <1>2 DEF PositionInv, PositionType, Moves
<1>5. q \in Keys BY <1>0, <1>1, WorkerRecord
<1>6. /\ ~held'[w] /\ \A u \in Worker \ {w} : held'[u] = held[u]
      /\ \A k \in Keys : lock'[k] = lock[k] \/ (k = q /\ lock[k] = w /\ lock'[k] = Free)
      /\ TaskType'
  BY <1>0, <1>1, <1>5 DEF TaskType
<1>7. \A k \in Keys : lock'[k] # w
  <2>1. ASSUME NEW k \in Keys, lock'[k] = w PROVE FALSE
    <3>1. lock[k] = w /\ w # Free BY <1>6, <2>1, PipelineAssumption
    <3>2. held[w] /\ k = q BY <1>0, <3>1 DEF LockInv
    <3>3. lock'[q] = Free BY <1>0, <1>1, <1>5, <3>1, <3>2 DEF TaskType
    <3> QED BY <2>1, <3>1, <3>2, <3>3
  <2> QED BY <2>1
<1>8. LockInv'
  <2>1. ASSUME NEW k \in Keys, lock'[k] # Free
        PROVE  lock'[k] \in Worker /\ held'[lock'[k]] /\ pc'[lock'[k]] \in Critical /\ KeyOf(lock[k])' = k
    <3>1. lock'[k] = lock[k] BY <1>6, <2>1
    <3>2. lock[k] \in Worker \ {w} BY <1>0, <1>7, <2>1, <3>1 DEF LockInv
    <3> QED BY <1>0, <1>4, <1>6, <2>1, <3>1, <3>2 DEF LockInv, KeyOf
  <2>2. ASSUME NEW u \in Worker, held'[u]
        PROVE  pc'[u] \in Critical /\ lock'[KeyOf(u)'] = u
    <3>1. u # w BY <1>6, <2>2
    <3>2. held[u] /\ pc[u] \in Critical /\ lock[KeyOf(u)] = u BY <1>0, <1>6, <2>2, <3>1 DEF LockInv
    <3>3. KeyOf(u) \in Keys
      <4>1. pc[u] # "idle" BY <3>2 DEF Critical
      <4> QED BY <1>0, <4>1, WorkerRecord
    <3>4. lock'[KeyOf(u)] = lock[KeyOf(u)] BY <1>6, <3>1, <3>2, <3>3
    <3> QED BY <1>4, <3>1, <3>2, <3>4 DEF KeyOf
  <2> QED BY <2>1, <2>2 DEF LockInv, KeyOf
<1>9. ASSUME NEW k \in Keys PROVE KeyInv(k)'
  <2>1. active'[k] => active[k] BY <1>1
  <2>2. ASSUME active'[k], KeyOf(w) = k PROVE Requested(k)' \/ Untaken(k)'
    <3>1. Leaving(w) BY <1>1 DEF Leaving
    <3>2. Requested(k) \/ Untaken(k) BY <1>0, <2>1, <2>2, <3>1 DEF KeyInv
    <3>3. pc[w] # "idle" /\ \A u \in Worker : pc'[u] # "idle" => pc[u] # "idle"
      BY <1>1, <1>4
    <3>4. Untaken(k) => Untaken(k)' BY <1>0, <1>2, <1>3, <1>4, <3>3, WaitingStays
    <3>5. Requested(k) => Requested(k)' BY <1>0, <1>1, <1>3, SameRequested
    <3> QED BY <3>2, <3>4, <3>5
  <2>3. Untaken(k)' => Unhandled(k)' BY DEF Untaken, Unhandled
  <2>4. ASSUME active'[k], Carried(k) PROVE Requested(k)' \/ Unhandled(k)' \/ Carried(k)'
    <3>1. CASE KeyOf(w) = k BY <2>2, <2>3, <2>4, <3>1
    <3>2. CASE KeyOf(w) # k
      <4>1. lock[k] \in Worker \ {w} BY <1>0, <2>4, <3>2 DEF Carried, LockInv
      <4>2. lock'[k] = lock[k] BY <1>6, <3>2
      <4> QED BY <1>4, <2>4, <4>1, <4>2 DEF Carried
    <3> QED BY <3>1, <3>2
  <2>5. pc[w] # "idle" BY <1>1
  <2> QED BY <1>0, <1>1, <1>2, <1>3, <2>1, <2>2, <2>3, <2>4, <2>5, MoveKeeps
<1> QED BY <1>6, <1>8, <1>9 DEF TaskInv

LEMMA TaskPoison ==
    ASSUME TaskInv, RecordInv', Spared', NEW w \in Worker, DiscardPoison(w)
    PROVE  TaskInv'
<1>0. /\ RecordInv /\ PositionInv /\ LogType /\ LogType' /\ JobsExist /\ TaskType /\ LockInv
      /\ left["produce"] = 0 /\ \A k \in Keys : KeyInv(k)
  BY DEF TaskInv, RecordInv, Spared, Losing
<1>1. /\ pc[w] = "poison" /\ UNCHANGED <<log, req, lock, held>>
      /\ Moves(w, "commit", "poison") /\ Finish(w, "poison") /\ Release(KeyOf(w))
      /\ RecordFailure(Rec(w)) \/ UNCHANGED ledger
  BY <1>0, DiscardPoisonMoves
<1>2. Rec(w) \in Record BY <1>0, <1>1, WorkerRecord
<1>3. LogGrows /\ LedgerGrows BY <1>0, <1>1, <1>2, SameGrows, RecordGrows
<1>4. /\ UNCHANGED job /\ pc'[w] = "commit"
      /\ \A u \in Worker \ {w} : pc'[u] = pc[u]
  BY <1>0, <1>1 DEF PositionInv, PositionType, Moves
<1>5. LockInv' BY <1>1, LockStays DEF Critical
<1>6. TaskType' BY <1>0, <1>1 DEF TaskType, Release
<1>7. ASSUME NEW k \in Keys PROVE KeyInv(k)'
  <2>1. active'[k] => active[k] /\ k # KeyOf(w) BY <1>0, <1>1, ReleaseFrees
  <2>2. Carried(k) => Carried(k)'
    <3>1. lock[k] # Free => lock[k] \in Worker \ {w} BY <1>0, <1>1 DEF LockInv, Critical
    <3> QED BY <1>1, <1>4, <3>1 DEF Carried
  <2>3. pc[w] # "idle" BY <1>1
  <2> QED BY <1>0, <1>1, <1>3, <2>1, <2>2, <2>3, MoveKeeps
<1> QED BY <1>5, <1>6, <1>7 DEF TaskInv

\* A worker takes a record: of a key that no worker is leaving.
LEMMA TaskDeliver ==
    ASSUME TaskInv, RecordInv', Spared', Topic \subseteq PromptUnlock,
           NEW w \in Worker, NEW p \in Partition, Deliver(w, p)
    PROVE  TaskInv'
<1> DEFINE l == FirstStep(log[p][pos[p] + 1])
           j == [part |-> p, off |-> pos[p] + 1]
<1>0. /\ RecordInv /\ PositionInv /\ LogType /\ TaskType /\ LockInv /\ \A k \in Keys : KeyInv(k)
  BY DEF TaskInv, RecordInv
<1>1. /\ pc[w] = "idle" /\ UNCHANGED <<log, ledger, req, handled, verdict, active, lock, held>>
      /\ job' = [job EXCEPT ![w] = j] /\ pc' = [pc EXCEPT ![w] = l]
      /\ p[1] \in PromptUnlock => \A v \in Worker : Settled(v) => KeyOf(v) # p[2]
  BY DEF Deliver, Goto, kafkaVars, failVars, redisVars
<1>2. l \in {"poison", "lock"} BY DEF FirstStep
<1>3. j.part = p /\ p[1] \in Topic /\ p[2] \in Keys BY DEF Partition
<1> HIDE DEF j, l
<1>4. /\ pc'[w] = l /\ job'[w] = j
      /\ \A u \in Worker \ {w} : pc'[u] = pc[u] /\ job'[u] = job[u]
  BY <1>0, <1>1 DEF PositionInv, PositionType
<1>5. /\ \A k \in Keys : lock[k] # Free => lock[k] \in Worker \ {w}
      /\ ~held[w]
  BY <1>0, <1>1 DEF LockInv, Critical
<1>6. LockInv' BY <1>0, <1>1, <1>4, <1>5 DEF LockInv, KeyOf
<1>7. TaskType' BY <1>0, <1>1 DEF TaskType
<1>8. ASSUME NEW k \in Keys PROVE KeyInv(k)'
  <2>1. Carried(k) => Carried(k)' BY <1>1, <1>4, <1>5 DEF Carried
  <2>2. Requested(k) => Requested(k)' BY <1>1 DEF Requested, Key
  <2>3. \A t, o : Waiting(k, t, o) => Waiting(k, t, o)' BY <1>1 DEF Waiting, Handled
  <2>4. Unhandled(k) => Unhandled(k)' BY <2>3 DEF Unhandled
  <2>5. ASSUME NEW u \in Worker, Leaving(u)', KeyOf(u)' = k, active'[k]
        PROVE  Requested(k)' \/ Untaken(k)'
    <3>1. u # w BY <1>2, <1>4, <2>5 DEF Leaving
    <3>2. Leaving(u) /\ KeyOf(u) = k /\ Settled(u)
      BY <1>1, <1>4, <2>5, <3>1 DEF Leaving, KeyOf, Settled
    <3>3. k # p[2] BY <1>1, <1>3, <3>2
    <3>4. Requested(k) \/ Untaken(k) BY <1>0, <1>1, <2>5, <3>2 DEF KeyInv
    <3>5. Untaken(k) => Untaken(k)'
      <4>1. ASSUME NEW t \in Topic, NEW o \in Nat, ~Taken(<<t, k>>, o) PROVE ~Taken(<<t, k>>, o)'
        <5>1. <<t, k>> # p BY <3>3
        <5> QED BY <1>3, <1>4, <4>1, <5>1 DEF Taken
      <4> QED BY <2>3, <4>1 DEF Untaken
    <3> QED BY <2>2, <3>4, <3>5
  <2> QED BY <1>0, <1>1, <2>1, <2>2, <2>4, <2>5 DEF KeyInv
<1> QED BY <1>6, <1>7, <1>8 DEF TaskInv

\* A worker that has finished with its record, or was stopped before it took it up again, rests.
LEMMA TaskRest ==
    ASSUME TaskInv, RecordInv', Spared', NEW w \in Worker, Rest(w), pc[w] \in {"commit", "backoff"},
           UNCHANGED <<log, ledger, req, handled, active, lock, held>>
    PROVE  TaskInv'
<1>0. /\ PositionInv /\ LogType /\ TaskType /\ LockInv /\ \A k \in Keys : KeyInv(k)
  BY DEF TaskInv, RecordInv
<1>1. /\ pc'[w] = "idle"
      /\ \A u \in Worker \ {w} : pc'[u] = pc[u] /\ job'[u] = job[u] /\ verdict'[u] = verdict[u]
  BY <1>0 DEF PositionInv, PositionType, Rest, Return, Goto
<1>2. /\ \A k \in Keys : lock[k] # Free => lock[k] \in Worker \ {w}
      /\ ~held[w]
  BY <1>0 DEF LockInv, Critical
<1>3. LockInv' BY <1>0, <1>1, <1>2 DEF LockInv, KeyOf
<1>4. TaskType' BY <1>0 DEF TaskType
<1>5. ASSUME NEW k \in Keys PROVE KeyInv(k)'
  <2>1. Carried(k) => Carried(k)' BY <1>1, <1>2 DEF Carried
  <2>2. Requested(k) => Requested(k)' BY DEF Requested, Key
  <2>3. \A t, o : Waiting(k, t, o) => Waiting(k, t, o)' BY DEF Waiting, Handled
  <2>4. Unhandled(k) => Unhandled(k)' BY <2>3 DEF Unhandled
  <2>5. Untaken(k) => Untaken(k)'
    <3>1. \A t, o : Taken(<<t, k>>, o)' => Taken(<<t, k>>, o) BY <1>1 DEF Taken
    <3> QED BY <2>3, <3>1 DEF Untaken
  <2>6. \A u \in Worker : Leaving(u)' /\ KeyOf(u)' = k => Leaving(u) /\ KeyOf(u) = k
    BY <1>1 DEF Leaving, KeyOf
  <2> QED BY <1>0, <2>1, <2>2, <2>4, <2>5, <2>6 DEF KeyInv
<1> QED BY <1>3, <1>4, <1>5 DEF TaskInv

LEMMA TaskRedeliver ==
    ASSUME TaskInv, RecordInv', Spared', NEW w \in Worker, Redeliver(w)
    PROVE  TaskInv'
<1>1. pc[w] = "backoff" /\ UNCHANGED <<log, ledger, dlq, req, handled, active, lock, held>>
  BY DEF Redeliver, kafkaVars, failVars, redisVars
<1>2. CASE mine[w]
  <2> DEFINE l == FirstStep(Rec(w))
  <2>1. Moves(w, l, "none") BY <1>2 DEF Redeliver, Moves, Return, Goto
  <2>2. l \in {"poison", "lock"} BY DEF FirstStep
  <2> HIDE DEF l
  <2>3. Grows BY <1>1, SameGrows DEF TaskInv, RecordInv, Grows
  <2>4. pc[w] \notin Critical BY <1>1 DEF Critical
  <2> QED BY <1>1, <2>1, <2>2, <2>3, <2>4, TaskWorks
<1>3. CASE ~mine[w] BY <1>1, <1>3, TaskRest DEF Redeliver
<1> QED BY <1>2, <1>3

\* No worker moves and no marker is set.
LEMMA TaskIdle ==
    ASSUME TaskInv, RecordInv', Spared', LogGrows,
           UNCHANGED <<ledger, req, pc, job, verdict, handled, lock, held>>,
           active' \in [Keys -> BOOLEAN], \A k \in Keys : active'[k] => active[k]
    PROVE  TaskInv'
<1>1. LogType' BY DEF RecordInv
<1>2. ASSUME NEW k \in Keys PROVE KeyInv(k)'
  <2>1. Requested(k) => Requested(k)' BY DEF Requested, Key
  <2> QED BY <1>1, <2>1, RequestKeeps
<1>3. TaskType' BY DEF TaskInv, TaskType
<1>4. LockInv' BY DEF TaskInv, LockInv, KeyOf
<1> QED BY <1>2, <1>3, <1>4 DEF TaskInv

LEMMA TaskEnvironment ==
    ASSUME TaskInv, RecordInv', Spared', Environment
    PROVE  TaskInv'
<1>0. /\ LogType
      /\ UNCHANGED log => LogGrows
      /\ ~Spend("lock") /\ ~Spend("crash") /\ ~Spend("marker") /\ LockInv
      /\ active \in [Keys -> BOOLEAN]
  BY SameGrows, SparedFaults DEF TaskInv, RecordInv, TaskType, Losing
<1>1. CASE \E w \in Worker : LoseLock(w)
  BY <1>0, <1>1, LoseLockMoves DEF LockInv
<1>2. CASE \E w \in Worker : Crash(w) BY <1>0, <1>2 DEF Crash
<1>3. CASE \E p \in Partition : Rebalance(p)
  <2>1. UNCHANGED <<log, ledger, req, pc, job, verdict, handled, lock, held, active>>
    BY <1>3 DEF Rebalance, failVars, redisVars
  <2> QED BY <1>0, <2>1, TaskIdle
<1>4. CASE \E k \in Keys : Lapse(k) \/ OrphanExpires(k) \/ MarkerExpires(k)
  <2>1. PICK k \in Keys : lock[k] = Orphan BY <1>0, <1>4 DEF Lapse, OrphanExpires, MarkerExpires
  <2> QED BY <1>0, <2>1, PipelineAssumption DEF LockInv, Free, Orphan
<1>5. CASE \E r \in Request : RequestCrash(r) BY <1>0, <1>5 DEF RequestCrash
<1>6. CASE \E m \in Media : DeleteMedia(m)
  <2>1. UNCHANGED <<log, ledger, req, pc, job, verdict, handled, lock, held, active>>
    BY <1>6 DEF DeleteMedia, kafkaVars, workerVars, failVars, redisVars
  <2> QED BY <1>0, <2>1, TaskIdle
<1>7. CASE \E m \in Media : ForeignPublish(m)
  <2>1. PICK m \in Media : ForeignPublish(m) BY <1>7
  <2> DEFINE x == [media |-> m, action |-> "BAD", attempt |-> 1]
  <2>2. /\ UNCHANGED <<ledger, req, pc, job, verdict, handled, lock, held, active>>
        /\ Produce(<<Main, HashOf[m]>>, x)
    BY <2>1 DEF ForeignPublish, workerVars, failVars, redisVars
  <2>3. x \in Record BY DEF Record, MaxAttempts
  <2> HIDE DEF x
  <2>4. LogGrows BY <1>0, <2>2, <2>3, ProduceGrows
  <2> QED BY <1>0, <2>2, <2>4, TaskIdle
<1> QED BY <1>1, <1>2, <1>3, <1>4, <1>5, <1>6, <1>7 DEF Environment

LEMMA NextTask ==
    ASSUME TaskInv, [Next]_vars, Topic \subseteq PromptUnlock
    PROVE  TaskInv'
<1>1. RecordInv' /\ Spared' BY NextRecord, NextSpared DEF TaskInv
<1>2. CASE \E r \in Request : Submission(r) \/ Replay(r) BY <1>1, <1>2, TaskRequest
<1>3. ASSUME NEW w \in Worker, Work(w) PROVE TaskInv'
  <2>1. CASE \E p \in Partition : Deliver(w, p) BY <1>1, <2>1, TaskDeliver
  <2>2. CASE Handle(w)
    BY <1>1, <2>2, TaskTryLock, TaskRoute, TaskSettle, TaskUnlock, TaskPoison DEF Handle
  <2>3. CASE Redeliver(w) BY <1>1, <2>3, TaskRedeliver
  <2>4. CASE Commit(w)
    <3>1. /\ pc[w] = "commit" /\ Rest(w)
          /\ UNCHANGED <<log, ledger, req, handled, active, lock, held>>
      BY <2>4 DEF Commit, failVars, redisVars
    <3> QED BY <1>1, <3>1, TaskRest
  <2> QED BY <1>3, <2>1, <2>2, <2>3, <2>4 DEF Work
<1>4. CASE Environment BY <1>1, <1>4, TaskEnvironment
<1>5. CASE UNCHANGED vars
  <2>1. UNCHANGED <<log, ledger, req, pc, job, verdict, handled, lock, held, active>>
    BY <1>5 DEF vars, kafkaVars, workerVars, failVars, redisVars
  <2>2. LogGrows /\ active \in [Keys -> BOOLEAN]
    BY <2>1, SameGrows DEF TaskInv, RecordInv, TaskType
  <2> QED BY <1>1, <2>1, <2>2, TaskIdle
<1> QED BY <1>2, <1>3, <1>4, <1>5 DEF Next

LEMMA TaskInit ==
    ASSUME Init, \A x \in Losing : Budget[x] = 0
    PROVE  TaskInv
<1>1. RecordInv BY RecordInit
<1>2. Spared BY PipelineAssumption DEF Init, Spared
<1>3. TaskType BY DEF Init, TaskType
<1>4. LockInv BY DEF Init, LockInv
<1>5. \A k \in Keys : KeyInv(k) BY DEF Init, KeyInv, Leaving
<1> QED BY <1>1, <1>2, <1>3, <1>4, <1>5 DEF TaskInv

\* A record that waits has not been committed.
LEMMA WaitingUncommitted ==
    ASSUME RecordInv, NEW k \in Keys, NEW t, NEW o, Waiting(k, t, o)
    PROVE  Uncommitted(k)
<1>1. /\ t \in Topic /\ <<t, k>> \in Partition /\ o \in 1 .. Len(log[<<t, k>>]) /\ ~Handled(<<t, k>>, o)
  BY DEF Waiting, Partition
<1>2. /\ HandledUpTo(<<t, k>>, committed[<<t, k>>]) /\ committed[<<t, k>>] \in Nat
      /\ Len(log[<<t, k>>]) \in Nat
  BY <1>1 DEF RecordInv, PositionInv, PositionType, LogType
<1>3. o \notin 1 .. committed[<<t, k>>] BY <1>1, <1>2 DEF HandledUpTo
<1>4. committed[<<t, k>>] < Len(log[<<t, k>>]) BY <1>1, <1>2, <1>3
<1> QED BY <1>1, <1>4 DEF Uncommitted

\* What the invariant says of an active key.
LEMMA TaskNotLost ==
    ASSUME TaskInv
    PROVE  NoTaskLost
<1> SUFFICES ASSUME NEW k \in Keys, active[k]
             PROVE  Requested(k) \/ Uncommitted(k) \/ InFlight(k)
  BY DEF NoTaskLost
<1>1. CASE Unhandled(k) BY <1>1, WaitingUncommitted DEF Unhandled, TaskInv
<1>2. CASE Carried(k)
  BY <1>2 DEF Carried, TaskInv, LockInv, Critical, InFlight
<1> QED BY <1>1, <1>2 DEF TaskInv, KeyInv

\* While the active marker says that a task is running, a request is about to publish it, Kafka
\* still has its record, or a worker has it in hand: for any number of workers, requests and
\* partitions, analyses that fail, calls that fail, partitions that change hands, deletions,
\* replays and foreign messages.  Not for the faults in Losing, each of which loses a task; and
\* the lock is given back before the next record of the key is taken (Topic \subseteq PromptUnlock).
THEOREM TasksAreNotLost ==
    ASSUME \A x \in Losing : Budget[x] = 0, Topic \subseteq PromptUnlock
    PROVE  Spec => []NoTaskLost
<1>1. Init => TaskInv BY TaskInit
<1>2. TaskInv /\ [Next]_vars => TaskInv' BY NextTask
<1>3. TaskInv => NoTaskLost BY TaskNotLost
<1> QED BY <1>1, <1>2, <1>3, PTL DEF Spec

-----------------------------------------------------------------------------
(* The idempotency keys absorb redeliveries *)

\* Faults that turn finished work into a failure: a call of the second attempt fails, or its
\* lock is lost and its work cancelled.
Disturbing == {"call", "lock"}
Undisturbed == left \in [Fault -> Nat] /\ \A x \in Disturbing : left[x] = 0

ResultType ==
    /\ result \in [Media -> BOOLEAN] /\ held \in [Worker -> BOOLEAN]
    /\ lock \in [Keys -> Worker \union {Free, Orphan}] /\ DOMAIN media = Media

\* One worker at a time is in the critical section of a key (the key may also be an orphan's).
Exclusive ==
    \A w \in Worker : /\ held[w] => pc[w] \in Critical
                      /\ pc[w] \in Critical => lock[KeyOf(w)] = w

Lives(m) == media[m] = "present"
Succeeded(w) == <<job[w].part, job[w].off, "success">> \in handled

\* What was handled with success has a result, until its media is deleted.
ResultsStay ==
    \A h \in handled : h[3] = "success" /\ Lives(log[h[1]][h[2]].media)
                         => result[log[h[1]][h[2]].media]
\* So has what is about to be.
ResultStands(w) ==
    /\ pc[w] = "conclude" \/ (Settled(w) /\ verdict[w] = "success")
    /\ Lives(Rec(w).media)
    => result[Rec(w).media]
\* A record that was handled with success does not run or fail again.
NoRelapse(w) ==
    pc[w] # "idle" /\ Succeeded(w) /\ Lives(Rec(w).media)
      => pc[w] \notin {"run", "route"} /\ ~(Settled(w) /\ verdict[w] \in {"retry", "dlq"})

AbsorbInv ==
    /\ RecordInv /\ Undisturbed /\ ResultType /\ Exclusive
    /\ ResultsStay /\ \A w \in Worker : ResultStands(w) /\ NoRelapse(w)

LEMMA UndisturbedFaults ==
    ASSUME Undisturbed, NEW x \in Disturbing
    PROVE  ~Spend(x)
<1>1. x \in Fault BY DEF Disturbing, Fault
<1>2. left[x] = 0 BY DEF Undisturbed
<1> QED BY <1>1, <1>2, SpendDrops DEF Undisturbed

LEMMA NextUndisturbed ==
    ASSUME Undisturbed, [Next]_vars
    PROVE  Undisturbed'
<1>1. LeftDrops BY NextDrops DEF Undisturbed
<1>2. Disturbing \subseteq Fault BY DEF Disturbing, Fault
<1>3. ASSUME NEW x \in Disturbing PROVE left'[x] = 0
  BY <1>1, <1>2 DEF LeftDrops, Undisturbed
<1> QED BY <1>1, <1>3 DEF LeftDrops, Undisturbed

\* The form of every step: media are only deleted, results of media that live are kept, and each
\* worker's claims are untouched, void or established.
Same(u) == /\ pc'[u] = pc[u] /\ job'[u] = job[u] /\ verdict'[u] = verdict[u]
           /\ Succeeded(u)' => Succeeded(u) \/ pc[u] \notin Critical
Void(u) == pc'[u] \notin {"conclude", "run", "route", "settle", "unlock"}
KeepsResults ==
    /\ DOMAIN media' = DOMAIN media
    /\ \A m \in Media : Lives(m)' => Lives(m) /\ (result[m] => result'[m])

LEMMA ClaimsStep ==
    ASSUME AbsorbInv, RecordInv', Grows, KeepsResults,
           \A h \in handled' \ handled :
               h[3] = "success" /\ Lives(log[h[1]][h[2]].media)' => result'[log'[h[1]][h[2]].media],
           \A u \in Worker : Same(u) \/ Void(u) \/ (ResultStands(u)' /\ NoRelapse(u)')
    PROVE  ResultsStay' /\ \A w \in Worker : ResultStands(w)' /\ NoRelapse(w)'
<1>0. /\ RecordInv /\ LogType' /\ LogType /\ PositionInv /\ JobsExist
      /\ ResultsStay /\ \A u \in Worker : ResultStands(u) /\ NoRelapse(u)
  BY DEF AbsorbInv, RecordInv
<1>1. ASSUME NEW h \in handled', h[3] = "success", Lives(log[h[1]][h[2]].media)'
      PROVE  result'[log'[h[1]][h[2]].media]
  <2>1. CASE h \in handled
    <3>1. h[1] \in Partition /\ h[2] \in 1 .. Len(log[h[1]])
      BY <1>0, <2>1 DEF RecordInv, HandledExists
    <3>2. log[h[1]][h[2]] \in Record BY <1>0, <3>1 DEF LogType
    <3>3. log[h[1]][h[2]].media \in Media BY <3>2 DEF Record
    <3>4. log'[h[1]][h[2]] = log[h[1]][h[2]] BY <3>1 DEF Grows, LogGrows
    <3>5. Lives(log[h[1]][h[2]].media) BY <1>1, <3>3, <3>4 DEF KeepsResults, Lives
    <3>6. result[log[h[1]][h[2]].media] BY <1>0, <1>1, <2>1, <3>5 DEF ResultsStay
    <3> QED BY <1>1, <3>3, <3>4, <3>6 DEF KeepsResults, Lives
  <2>2. CASE h \notin handled BY <1>1, <2>2
  <2> QED BY <2>1, <2>2
<1>2. ASSUME NEW u \in Worker PROVE ResultStands(u)' /\ NoRelapse(u)'
  <2>1. CASE Void(u)
    BY <2>1 DEF Void, ResultStands, NoRelapse, Settled
  <2>2. CASE Same(u) /\ ~Void(u)
    <3>1. pc[u] \in Critical /\ pc[u] # "idle" /\ pc'[u] = pc[u]
      BY <2>2 DEF Same, Void, Critical
    <3>2. Rec(u) \in Record BY <1>0, <3>1, WorkerRecord
    <3>3. Rec(u).media \in Media BY <3>2 DEF Record
    <3>4. Rec(u)' = Rec(u) BY <1>0, <2>2, <3>1, OldRecords DEF Same
    <3>5. Lives(Rec(u).media)' => Lives(Rec(u).media) /\ (result[Rec(u).media] => result'[Rec(u).media])
      BY <3>3, <3>4 DEF KeepsResults, Lives
    <3>6. ResultStands(u)'
      BY <1>0, <2>2, <3>4, <3>5 DEF ResultStands, Same, Settled, Lives
    <3>7. NoRelapse(u)'
      BY <1>0, <2>2, <3>1, <3>5 DEF NoRelapse, Same, Settled
    <3> QED BY <3>6, <3>7
  <2> QED BY <2>1, <2>2
<1> QED BY <1>1, <1>2 DEF ResultsStay

\* Handle's own work on a live media: a result that is there is kept and found.
LEMMA ProcessResults ==
    ASSUME AbsorbInv, Actions \subseteq {"START"}, NEW w \in Worker,
           \/ CheckMedia(w) \/ BeginRevision(w) \/ TryReuse(w) \/ AsyncAnalyze(w)
           \/ Run(w) \/ Conclude(w) \/ CallFails(w)
    PROVE  /\ UNCHANGED media /\ result' \in [Media -> BOOLEAN] /\ KeepsResults
           /\ pc'[w] = "conclude" /\ Lives(Rec(w).media) => result'[Rec(w).media]
           /\ verdict'[w] = "success" /\ pc'[w] = "settle" /\ Lives(Rec(w).media)
                => result'[Rec(w).media]
           /\ pc'[w] = "run" => ~result[Rec(w).media]
           /\ pc'[w] = "route" => pc[w] = "run" \/ ~Lives(Rec(w).media)
<1> DEFINE m == Rec(w).media
<1>0. /\ PositionInv /\ LogType /\ JobsExist /\ result \in [Media -> BOOLEAN]
      /\ ~Spend("call") /\ ResultStands(w)
      /\ pc \in [Worker -> PC] /\ verdict \in [Worker -> Verdict]
  BY UndisturbedFaults DEF AbsorbInv, RecordInv, ResultType, Disturbing, PositionInv, PositionType
<1>1. pc[w] # "idle" BY <1>0, ProcessMoves
<1>2. Rec(w) \in Record BY <1>0, <1>1, WorkerRecord
<1>3. m \in Media /\ Rec(w).action # "REVISE" BY <1>2 DEF Record
<1> HIDE DEF m
<1>4. CASE CheckMedia(w)
  BY <1>0, <1>4 DEF CheckMedia, Goto, Return, agentVars, KeepsResults, Lives
<1>5. CASE BeginRevision(w) BY <1>3, <1>5 DEF BeginRevision
<1>6. CASE TryReuse(w)
  <2>1. UNCHANGED media /\ result' \in [Media -> BOOLEAN] /\ KeepsResults
    BY <1>0, <1>6 DEF TryReuse, ReuseResult, KeepsResults, Lives
  <2>2. /\ pc'[w] \in {"settle", "route", "analyze"}
        /\ pc'[w] = "settle" => verdict'[w] = "reused"
        /\ pc'[w] = "route" => ~Lives(m)
    BY <1>0, <1>6 DEF TryReuse, Goto, Return, Lives, m
  <2> QED BY <2>1, <2>2 DEF m
<1>7. CASE AsyncAnalyze(w)
  <2>1. UNCHANGED <<media, result>> BY <1>7 DEF AsyncAnalyze, agentVars
  <2>2. /\ pc'[w] \in {"route", "conclude", "run"}
        /\ pc'[w] = "route" => ~Lives(m)
        /\ pc'[w] = "conclude" => result[m]
        /\ pc'[w] = "run" => ~result[m]
    BY <1>0, <1>7 DEF AsyncAnalyze, HasResult, Goto, Return, Lives, m
  <2> QED BY <1>0, <2>1, <2>2 DEF m, KeepsResults, Lives
<1>8. CASE Run(w)
  <2>1. /\ UNCHANGED media /\ pc[w] = "run"
        /\ result' = [result EXCEPT ![m] = TRUE] \/ UNCHANGED result
    BY <1>8 DEF Run, m
  <2>2. result' \in [Media -> BOOLEAN] /\ KeepsResults BY <1>0, <1>3, <2>1 DEF KeepsResults, Lives
  <2>3. /\ pc'[w] \in {"conclude", "settle", "route"}
        /\ pc'[w] = "conclude" => result' = [result EXCEPT ![m] = TRUE]
        /\ pc'[w] = "settle" => verdict'[w] = "budget"
    BY <1>0, <1>8 DEF Run, MapError, Codes, Goto, Return, m
  <2> QED BY <1>0, <1>3, <2>1, <2>2, <2>3 DEF m
<1>9. CASE Conclude(w)
  <2>1. UNCHANGED media /\ pc[w] = "conclude" /\ Return(w, "success", "settle")
    BY <1>0, <1>9 DEF Conclude
  <2>2. \/ Lives(m) /\ UNCHANGED result
        \/ ~Lives(m) /\ result' = [result EXCEPT ![m] = FALSE]
    BY <1>0, <1>9 DEF Conclude, Lives, m
  <2>3. result' \in [Media -> BOOLEAN] /\ KeepsResults
    BY <1>0, <1>3, <2>1, <2>2 DEF KeepsResults, Lives
  <2>4. pc'[w] = "settle" BY <1>0, <2>1 DEF Return, Goto
  <2>5. Lives(m) => result'[m] BY <1>0, <2>1, <2>2 DEF ResultStands, m
  <2> QED BY <2>1, <2>3, <2>4, <2>5 DEF m
<1>10. CASE CallFails(w) BY <1>0, <1>10 DEF CallFails
<1> QED BY <1>4, <1>5, <1>6, <1>7, <1>8, <1>9, <1>10

\* A worker moves on without finishing anything with success.
LEMMA AbsorbMoves ==
    ASSUME AbsorbInv, RecordInv', Undisturbed', Grows, KeepsResults, UNCHANGED <<lock, held>>,
           result' \in [Media -> BOOLEAN], NEW w \in Worker, NEW l, NEW v, Moves(w, l, v),
           pc[w] \in Critical <=> l \in Critical,
           UNCHANGED handled \/ \E x : x # "success" /\ Finish(w, x),
           Void(w) \/ (ResultStands(w)' /\ NoRelapse(w)')
    PROVE  AbsorbInv'
<1>0. /\ UNCHANGED job /\ pc'[w] = l
      /\ \A u \in Worker \ {w} : pc'[u] = pc[u] /\ verdict'[u] = verdict[u]
  BY DEF AbsorbInv, RecordInv, PositionInv, PositionType, Moves
<1>1. ResultType' BY DEF AbsorbInv, ResultType, KeepsResults
<1>2. Exclusive' BY <1>0 DEF AbsorbInv, Exclusive, KeyOf
<1>3. \A h \in handled' \ handled : h[3] # "success" BY DEF Finish
<1>4. \A u \in Worker : Succeeded(u)' => Succeeded(u) BY <1>0, <1>3 DEF Succeeded
<1>5. \A u \in Worker \ {w} : Same(u) BY <1>0, <1>4 DEF Same
<1>6. ResultsStay' /\ \A u \in Worker : ResultStands(u)' /\ NoRelapse(u)'
  BY <1>3, <1>5, ClaimsStep
<1> QED BY <1>1, <1>2, <1>6 DEF AbsorbInv

\* No worker moves.
LEMMA AbsorbIdle ==
    ASSUME AbsorbInv, RecordInv', Undisturbed', Grows, KeepsResults, result' \in [Media -> BOOLEAN],
           UNCHANGED <<pc, job, verdict, held, handled>>, lock' \in [Keys -> Worker \union {Free, Orphan}],
           \A k \in Keys : lock[k] \in Worker => lock'[k] = lock[k]
    PROVE  AbsorbInv'
<1>1. ResultType' BY DEF AbsorbInv, ResultType, KeepsResults
<1>2. Exclusive'
  <2>1. ASSUME NEW w \in Worker, pc[w] \in Critical PROVE lock'[KeyOf(w)] = w
    <3>1. lock[KeyOf(w)] = w BY <2>1 DEF AbsorbInv, Exclusive
    <3>2. pc[w] # "idle" BY <2>1 DEF Critical
    <3>3. KeyOf(w) \in Keys BY <3>2, WorkerRecord DEF AbsorbInv, RecordInv
    <3> QED BY <3>1, <3>3
  <2> QED BY <2>1 DEF AbsorbInv, Exclusive, KeyOf
<1>3. \A u \in Worker : Same(u) BY DEF Same, Succeeded
<1>4. ResultsStay' /\ \A u \in Worker : ResultStands(u)' /\ NoRelapse(u)'
  BY <1>3, ClaimsStep
<1> QED BY <1>1, <1>2, <1>4 DEF AbsorbInv

LEMMA AbsorbTryLock ==
    ASSUME AbsorbInv, RecordInv', Undisturbed', NEW w \in Worker, TryLock(w) \/ TryLockOrphaned(w)
    PROVE  AbsorbInv'
<1>0. /\ PositionInv /\ LogType /\ JobsExist /\ ResultType /\ Exclusive
      /\ ~Spend("lock") /\ ~Spend("call")
  BY UndisturbedFaults DEF AbsorbInv, RecordInv, Disturbing
<1>1. pc[w] = "lock" /\ UNCHANGED <<log, ledger, dlq, media, result>> /\ TryLock(w)
  BY <1>0, TryLockMoves DEF TryLock, TryLockOrphaned, agentVars
<1>2. Grows /\ KeepsResults /\ result' \in [Media -> BOOLEAN]
  BY <1>0, <1>1, SameGrows DEF Grows, KeepsResults, Lives, ResultType
<1>3. KeyOf(w) \in Keys BY <1>0, <1>1, WorkerRecord
<1>4. CASE /\ Moves(w, "process", verdict[w]) /\ UNCHANGED handled
           /\ lock[KeyOf(w)] = Free /\ lock' = [lock EXCEPT ![KeyOf(w)] = w]
           /\ held' = [held EXCEPT ![w] = TRUE]
  <2>1. /\ UNCHANGED job /\ pc'[w] = "process"
        /\ \A u \in Worker \ {w} : pc'[u] = pc[u] /\ verdict'[u] = verdict[u]
    BY <1>0, <1>4 DEF PositionInv, PositionType, Moves
  <2>2. /\ ResultType' /\ lock'[KeyOf(w)] = w
        /\ \A k \in Keys : k # KeyOf(w) => lock'[k] = lock[k]
        /\ \A u \in Worker \ {w} : held'[u] = held[u]
    BY <1>0, <1>1, <1>2, <1>3, <1>4 DEF ResultType
  <2>3. ASSUME NEW u \in Worker
        PROVE  (held'[u] => pc'[u] \in Critical) /\ (pc'[u] \in Critical => lock'[KeyOf(u)] = u)
    <3>1. CASE u = w BY <2>1, <2>2, <3>1 DEF Critical
    <3>2. CASE u # w
      <4>1. held'[u] => pc'[u] \in Critical BY <1>0, <2>1, <2>2, <3>2 DEF Exclusive
      <4>2. ASSUME pc'[u] \in Critical PROVE lock'[KeyOf(u)] = u
        <5>1. pc[u] \in Critical BY <2>1, <3>2, <4>2
        <5>2. lock[KeyOf(u)] = u /\ pc[u] # "idle" BY <1>0, <5>1 DEF Exclusive, Critical
        <5>3. KeyOf(u) \in Keys BY <1>0, <5>2, WorkerRecord
        <5>4. KeyOf(u) # KeyOf(w) BY <1>4, <5>2, PipelineAssumption
        <5> QED BY <2>2, <5>2, <5>3, <5>4
      <4> QED BY <4>1, <4>2
    <3> QED BY <3>1, <3>2
  <2>4. Exclusive' BY <2>1, <2>3 DEF Exclusive, KeyOf
  <2>5. \A u \in Worker : Same(u) \/ Void(u) BY <1>4, <2>1 DEF Same, Void, Succeeded
  <2>6. ResultsStay' /\ \A u \in Worker : ResultStands(u)' /\ NoRelapse(u)'
    BY <1>2, <1>4, <2>5, ClaimsStep
  <2> QED BY <2>2, <2>4, <2>6 DEF AbsorbInv
<1>5. CASE Moves(w, "commit", "skipped") /\ Finish(w, "skipped") /\ UNCHANGED <<lock, held>>
  <2>1. pc'[w] = "commit" BY <1>0, <1>5 DEF PositionInv, PositionType, Moves
  <2>2. Void(w) BY <2>1 DEF Void
  <2>3. pc[w] \in Critical <=> "commit" \in Critical BY <1>1 DEF Critical
  <2> QED BY <1>2, <1>5, <2>2, <2>3, AbsorbMoves
<1> QED BY <1>0, <1>1, <1>4, <1>5 DEF TryLock, Moves, Return, Goto, PositionInv, PositionType

LEMMA AbsorbRoute ==
    ASSUME AbsorbInv, RecordInv', Undisturbed', Actions \subseteq {"START"}, NEW w \in Worker,
           \/ CheckMedia(w) \/ BeginRevision(w) \/ TryReuse(w) \/ AsyncAnalyze(w)
           \/ Run(w) \/ Conclude(w) \/ CallFails(w)
    PROVE  AbsorbInv'
<1>0. /\ RecordInv /\ PositionInv /\ LogType /\ LogType' /\ JobsExist
      /\ ResultsStay /\ NoRelapse(w)
  BY DEF AbsorbInv, RecordInv
<1>1. /\ pc[w] \in {"process", "prepare", "analyze", "run", "conclude"}
      /\ UNCHANGED <<log, ledger, dlq, handled, lock, held>>
  BY <1>0, ProcessMoves
<1>2. PICK l, v : /\ Moves(w, l, v)
                  /\ \/ l \in {"prepare", "analyze", "run", "conclude", "route"}
                     \/ l = "settle" /\ v \in {"gone", "reused", "budget", "success"}
  BY <1>0, ProcessMoves
<1>3. Grows BY <1>0, <1>1, SameGrows DEF Grows
<1>4. pc'[w] = l /\ verdict'[w] = v /\ UNCHANGED job
  BY <1>0, <1>2 DEF PositionInv, PositionType, Moves
<1>5. pc[w] \in Critical /\ l \in Critical BY <1>1, <1>2 DEF Critical
<1>6. Rec(w)' = Rec(w) BY <1>1, <1>4 DEF Rec
<1>7. /\ UNCHANGED media /\ result' \in [Media -> BOOLEAN] /\ KeepsResults
      /\ l = "conclude" /\ Lives(Rec(w).media) => result'[Rec(w).media]
      /\ v = "success" /\ l = "settle" /\ Lives(Rec(w).media) => result'[Rec(w).media]
      /\ l = "run" => ~result[Rec(w).media]
      /\ l = "route" => pc[w] = "run" \/ ~Lives(Rec(w).media)
  BY <1>4, ProcessResults
<1>8. Lives(Rec(w).media)' <=> Lives(Rec(w).media) BY <1>6, <1>7 DEF Lives
<1>9. ResultStands(w)'
  BY <1>2, <1>4, <1>6, <1>7, <1>8 DEF ResultStands, Settled
<1>10. NoRelapse(w)'
  <2> SUFFICES ASSUME Succeeded(w)', Lives(Rec(w).media)' PROVE l \notin {"run", "route"}
    BY <1>2, <1>4 DEF NoRelapse, Settled
  <2>1. Succeeded(w) /\ Lives(Rec(w).media) BY <1>1, <1>4, <1>8 DEF Succeeded
  <2>2. l # "run"
    <3> DEFINE h == <<job[w].part, job[w].off, "success">>
    <3>1. h \in handled /\ h[1] = job[w].part /\ h[2] = job[w].off /\ h[3] = "success"
      BY <2>1 DEF Succeeded
    <3>2. result[Rec(w).media] BY <1>0, <2>1, <3>1 DEF ResultsStay, Rec
    <3> QED BY <1>7, <3>2
  <2>3. l # "route" BY <1>0, <1>1, <1>7, <2>1 DEF NoRelapse
  <2> QED BY <2>2, <2>3
<1> QED BY <1>1, <1>2, <1>3, <1>5, <1>7, <1>9, <1>10, AbsorbMoves

\* A record that is routed to a failure has not been handled with success.
LEMMA AbsorbFailure ==
    ASSUME AbsorbInv, RecordInv', Undisturbed', NEW w \in Worker,
           ForwardRetry(w) \/ DeadLetter(w) \/ RouteFails(w) \/ Settle(w)
    PROVE  AbsorbInv'
<1>0. /\ RecordInv /\ PositionInv /\ LogType /\ LogType' /\ JobsExist /\ ResultStands(w)
      /\ NoRelapse(w) /\ result \in [Media -> BOOLEAN]
      /\ UNCHANGED log => LogGrows
      /\ UNCHANGED ledger => LedgerGrows
  BY SameGrows DEF AbsorbInv, RecordInv, ResultType
<1>1. UNCHANGED <<media, result, handled, lock, held>>
  BY DEF ForwardRetry, DeadLetter, RouteFails, Settle, agentVars, redisVars
<1>2. KeepsResults /\ result' \in [Media -> BOOLEAN] BY <1>0, <1>1 DEF KeepsResults, Lives
<1>3. PICK l, v : /\ Moves(w, l, v) /\ Grows
                  /\ \/ pc[w] = "route" /\ l \in {"settle", "unlock"} /\ v # "success"
                     \/ pc[w] = "settle" /\ l = "unlock" /\ v = verdict[w]
  <2>1. CASE ForwardRetry(w)
    <3>1. /\ pc[w] = "route" /\ Moves(w, "settle", "retry") /\ Route(w) # DLQ
          /\ Produce(<<Route(w), KeyOf(w)>>, NextAttempt(Rec(w))) /\ UNCHANGED <<ledger, dlq>>
      BY <2>1, ForwardMoves
    <3>2. Grows BY <1>0, <3>1, ForwardedRecord, ProduceGrows DEF Grows
    <3> QED BY <3>1, <3>2
  <2>2. CASE DeadLetter(w)
    <3>1. /\ pc[w] = "route" /\ Moves(w, "settle", "dlq") /\ UNCHANGED log
          /\ RecordFailure(Rec(w)) \/ UNCHANGED ledger
          /\ dlq' = dlq \union {Rec(w)}
      BY <2>2, DeadLetterMoves
    <3>2. Rec(w) \in Record BY <1>0, <3>1, WorkerRecord
    <3>3. Grows BY <1>0, <3>1, <3>2, RecordGrows DEF Grows
    <3> QED BY <3>1, <3>3
  <2>3. CASE RouteFails(w)
    <3>1. /\ pc[w] = "route" /\ Moves(w, "unlock", "redeliver") /\ UNCHANGED dlq
          /\ \/ UNCHANGED log
             \/ Route(w) # DLQ /\ Produce(<<Route(w), KeyOf(w)>>, NextAttempt(Rec(w)))
          /\ RecordFailure(Rec(w)) \/ UNCHANGED ledger
      BY <2>3, RouteFailsMoves
    <3>2. Rec(w) \in Record BY <1>0, <3>1, WorkerRecord
    <3>3. LogGrows BY <1>0, <3>1, ForwardedRecord, ProduceGrows
    <3>4. Grows BY <1>0, <3>1, <3>2, <3>3, RecordGrows DEF Grows
    <3> QED BY <3>1, <3>4
  <2>4. CASE Settle(w)
    <3>1. /\ pc[w] = "settle" /\ Moves(w, "unlock", verdict[w])
          /\ UNCHANGED <<log, ledger, dlq>>
      BY <1>0, <2>4, SettleMoves
    <3>2. Grows BY <1>0, <3>1 DEF Grows
    <3> QED BY <3>1, <3>2
  <2> QED BY <2>1, <2>2, <2>3, <2>4
<1>4. pc'[w] = l /\ verdict'[w] = v /\ UNCHANGED job /\ pc[w] # "idle"
  BY <1>0, <1>3 DEF PositionInv, PositionType, Moves
<1>5. pc[w] \in Critical /\ l \in Critical BY <1>3 DEF Critical
<1>6. Rec(w)' = Rec(w) BY <1>0, <1>3, <1>4, OldRecords
<1>7. (Lives(Rec(w).media)' <=> Lives(Rec(w).media)) /\ (Succeeded(w)' <=> Succeeded(w))
  BY <1>1, <1>4, <1>6 DEF Lives, Succeeded
<1>8. ResultStands(w)'
  BY <1>0, <1>1, <1>3, <1>4, <1>6, <1>7 DEF ResultStands, Settled
<1>9. NoRelapse(w)'
  BY <1>0, <1>3, <1>4, <1>7 DEF NoRelapse, Settled
<1> QED BY <1>1, <1>2, <1>3, <1>5, <1>8, <1>9, AbsorbMoves

\* A success is recorded while nobody else is in the critical section of the key.
LEMMA AbsorbUnlock ==
    ASSUME AbsorbInv, RecordInv', Undisturbed', NEW w \in Worker, Unlock(w)
    PROVE  AbsorbInv'
<1> DEFINE q == KeyOf(w)
<1>0. /\ RecordInv /\ PositionInv /\ LogType /\ LogType' /\ JobsExist /\ ResultType /\ Exclusive
      /\ ~Spend("lock") /\ ResultStands(w)
  BY UndisturbedFaults DEF AbsorbInv, RecordInv, Disturbing
<1>1. /\ pc[w] = "unlock" /\ UNCHANGED <<log, ledger, dlq, media, result>>
      /\ held' = [held EXCEPT ![w] = FALSE]
      /\ lock' = IF held[w] /\ lock[q] = w THEN [lock EXCEPT ![q] = Free] ELSE lock
  BY <1>0, UnlockMoves DEF Unlock, agentVars
<1>2. PICK l, v : /\ l \in {"backoff", "commit"} /\ Moves(w, l, v)
                  /\ UNCHANGED handled \/ Finish(w, verdict[w])
  BY <1>0, UnlockMoves
<1>3. /\ UNCHANGED job /\ pc'[w] = l
      /\ \A u \in Worker \ {w} : pc'[u] = pc[u] /\ verdict'[u] = verdict[u]
  BY <1>0, <1>2 DEF PositionInv, PositionType, Moves
<1>4. Grows /\ KeepsResults BY <1>0, <1>1, SameGrows DEF Grows, KeepsResults, Lives
<1>5. q \in Keys /\ lock[q] = w
  BY <1>0, <1>1, WorkerRecord DEF Exclusive, Critical
<1>6. \A u \in Worker \ {w} : pc[u] \in Critical => KeyOf(u) # q
  BY <1>0, <1>5 DEF Exclusive
<1>7. /\ ResultType' /\ ~held'[w] /\ \A u \in Worker \ {w} : held'[u] = held[u]
      /\ \A k \in Keys : k # q => lock'[k] = lock[k]
  BY <1>0, <1>1, <1>5 DEF ResultType
<1>8. Exclusive'
  <2>1. ASSUME NEW u \in Worker
        PROVE  (held'[u] => pc'[u] \in Critical) /\ (pc'[u] \in Critical => lock'[KeyOf(u)] = u)
    <3>1. CASE u = w BY <1>2, <1>3, <1>7, <3>1 DEF Critical
    <3>2. CASE u # w
      <4>1. held'[u] => pc'[u] \in Critical BY <1>0, <1>3, <1>7, <3>2 DEF Exclusive
      <4>2. ASSUME pc'[u] \in Critical PROVE lock'[KeyOf(u)] = u
        <5>1. pc[u] \in Critical BY <1>3, <3>2, <4>2
        <5>2. lock[KeyOf(u)] = u /\ pc[u] # "idle" BY <1>0, <5>1 DEF Exclusive, Critical
        <5>3. KeyOf(u) \in Keys BY <1>0, <5>2, WorkerRecord
        <5> QED BY <1>6, <1>7, <3>2, <5>1, <5>2, <5>3
      <4> QED BY <4>1, <4>2
    <3> QED BY <3>1, <3>2
  <2> QED BY <1>3, <2>1 DEF Exclusive, KeyOf
<1>9. \A u \in Worker : Same(u) \/ Void(u)
  <2>1. Void(w) BY <1>2, <1>3 DEF Void
  <2>2. ASSUME NEW u \in Worker, u # w PROVE Same(u)
    <3>1. pc[u] \in Critical => job[u].part # job[w].part BY <1>6, <2>2 DEF KeyOf
    <3>2. Succeeded(u)' => Succeeded(u) \/ pc[u] \notin Critical
      BY <1>2, <1>3, <3>1 DEF Succeeded, Finish
    <3> QED BY <1>3, <2>2, <3>2 DEF Same
  <2> QED BY <2>1, <2>2
<1>10. ASSUME NEW h \in handled' \ handled, h[3] = "success", Lives(log[h[1]][h[2]].media)'
       PROVE  result'[log'[h[1]][h[2]].media]
  <2>1. h[1] = job[w].part /\ h[2] = job[w].off /\ verdict[w] = "success"
    BY <1>2, <1>10 DEF Finish
  <2>2. log'[h[1]][h[2]] = Rec(w) BY <1>1, <2>1 DEF Rec
  <2>3. Lives(Rec(w).media) BY <1>1, <1>10, <2>2 DEF Lives
  <2>4. result[Rec(w).media] BY <1>0, <1>1, <2>1, <2>3 DEF ResultStands, Settled
  <2> QED BY <1>1, <2>2, <2>4
<1>11. ResultsStay' /\ \A u \in Worker : ResultStands(u)' /\ NoRelapse(u)'
  BY <1>4, <1>9, <1>10, ClaimsStep
<1> QED BY <1>7, <1>8, <1>11 DEF AbsorbInv

LEMMA AbsorbPoison ==
    ASSUME AbsorbInv, RecordInv', Undisturbed', NEW w \in Worker, DiscardPoison(w)
    PROVE  AbsorbInv'
<1>0. /\ RecordInv /\ PositionInv /\ LogType /\ LogType' /\ JobsExist /\ result \in [Media -> BOOLEAN]
      /\ UNCHANGED log => LogGrows
      /\ UNCHANGED ledger => LedgerGrows
  BY SameGrows DEF AbsorbInv, RecordInv, ResultType
<1>1. pc[w] = "poison" /\ UNCHANGED <<log, lock, held, media, result>>
  BY DiscardPoisonMoves DEF DiscardPoison
<1>2. Rec(w) \in Record BY <1>0, <1>1, WorkerRecord
<1>3. KeepsResults /\ result' \in [Media -> BOOLEAN] BY <1>0, <1>1 DEF KeepsResults, Lives
<1>4. PICK l, v : /\ l \in {"commit", "backoff"} /\ Moves(w, l, v)
                  /\ UNCHANGED handled \/ Finish(w, "poison")
                  /\ RecordFailure(Rec(w)) \/ UNCHANGED ledger
                  /\ dlq' = dlq \union {Rec(w)} \/ UNCHANGED dlq
  BY DiscardPoisonMoves
<1>5. Grows BY <1>0, <1>1, <1>2, <1>4, RecordGrows DEF Grows
<1>6. pc'[w] = l BY <1>0, <1>4 DEF PositionInv, PositionType, Moves
<1>7. Void(w) BY <1>4, <1>6 DEF Void
<1>8. pc[w] \in Critical <=> l \in Critical BY <1>1, <1>4 DEF Critical
<1> QED BY <1>1, <1>3, <1>4, <1>5, <1>7, <1>8, AbsorbMoves

\* A worker outside the critical section takes up a record or lays it down.
LEMMA AbsorbOutside ==
    ASSUME AbsorbInv, RecordInv', Undisturbed', NEW w \in Worker, pc[w] \notin Critical,
           NEW l, l \notin Critical, pc' = [pc EXCEPT ![w] = l],
           \A u \in Worker \ {w} : job'[u] = job[u] /\ verdict'[u] = verdict[u],
           UNCHANGED <<log, ledger, dlq, handled, lock, held, media, result>>
    PROVE  AbsorbInv'
<1>0. /\ PositionInv /\ LogType /\ ResultType /\ Exclusive BY DEF AbsorbInv, RecordInv
<1>1. pc'[w] = l /\ \A u \in Worker \ {w} : pc'[u] = pc[u] BY <1>0 DEF PositionInv, PositionType
<1>2. Grows /\ KeepsResults BY <1>0, SameGrows DEF Grows, KeepsResults, Lives
<1>3. ResultType' BY <1>0 DEF ResultType
<1>4. Exclusive' BY <1>0, <1>1 DEF Exclusive, KeyOf
<1>5. \A u \in Worker : Same(u) \/ Void(u)
  <2>1. Void(w) BY <1>1 DEF Void, Critical
  <2> QED BY <1>1, <2>1 DEF Same, Succeeded
<1>6. ResultsStay' /\ \A u \in Worker : ResultStands(u)' /\ NoRelapse(u)'
  BY <1>2, <1>5, ClaimsStep
<1> QED BY <1>3, <1>4, <1>6 DEF AbsorbInv

LEMMA AbsorbTurns ==
    ASSUME AbsorbInv, RecordInv', Undisturbed', NEW w \in Worker,
           (\E p \in Partition : Deliver(w, p)) \/ Redeliver(w) \/ Commit(w)
    PROVE  AbsorbInv'
<1>0. job \in [Worker -> Job] /\ verdict \in [Worker -> Verdict]
  BY DEF AbsorbInv, RecordInv, PositionInv, PositionType
<1>1. UNCHANGED <<log, ledger, dlq, handled, lock, held, media, result>>
  BY DEF Deliver, Redeliver, Commit, kafkaVars, failVars, redisVars, agentVars
<1>2. pc[w] \in {"idle", "backoff", "commit"} BY DEF Deliver, Redeliver, Commit
<1>3. \E l \in {"idle", "poison", "lock"} : pc' = [pc EXCEPT ![w] = l]
  BY DEF Deliver, Redeliver, Commit, Rest, Return, Goto, FirstStep
<1>4. \A u \in Worker \ {w} : job'[u] = job[u] /\ verdict'[u] = verdict[u]
  BY <1>0 DEF Deliver, Redeliver, Commit, Rest, Return
<1>5. {"idle", "backoff", "commit", "poison", "lock"} \intersect Critical = {} BY DEF Critical
<1> QED BY <1>1, <1>2, <1>3, <1>4, <1>5, AbsorbOutside

\* A crash orphans the lock of the worker that dies, and only that.
LEMMA AbsorbCrash ==
    ASSUME AbsorbInv, RecordInv', Undisturbed', NEW w \in Worker, Crash(w)
    PROVE  AbsorbInv'
<1>0. /\ PositionInv /\ LogType /\ JobsExist /\ ResultType /\ Exclusive BY DEF AbsorbInv, RecordInv
<1>1. /\ UNCHANGED <<log, ledger, dlq, handled, media, result>> /\ Rest(w)
      /\ lock' = [k \in Keys |-> IF lock[k] = w THEN Orphan ELSE lock[k]]
      /\ held' = [held EXCEPT ![w] = FALSE]
  BY DEF Crash, failVars, agentVars
<1>2. /\ pc'[w] = "idle"
      /\ \A u \in Worker \ {w} : pc'[u] = pc[u] /\ job'[u] = job[u] /\ verdict'[u] = verdict[u]
  BY <1>0, <1>1 DEF PositionInv, PositionType, Rest, Return, Goto
<1>3. Grows /\ KeepsResults BY <1>0, <1>1, SameGrows DEF Grows, KeepsResults, Lives
<1>4. /\ ResultType' /\ ~held'[w] /\ \A u \in Worker \ {w} : held'[u] = held[u]
  BY <1>0, <1>1 DEF ResultType
<1>5. ASSUME NEW u \in Worker
      PROVE  (held'[u] => pc'[u] \in Critical) /\ (pc'[u] \in Critical => lock'[KeyOf(u)'] = u)
  <2>1. CASE u = w BY <1>2, <1>4, <2>1 DEF Critical
  <2>2. CASE u # w
    <3>1. held'[u] => pc'[u] \in Critical BY <1>0, <1>2, <1>4, <2>2 DEF Exclusive
    <3>2. ASSUME pc'[u] \in Critical PROVE lock'[KeyOf(u)'] = u
      <4>1. pc[u] \in Critical BY <1>2, <2>2, <3>2
      <4>2. lock[KeyOf(u)] = u /\ pc[u] # "idle" BY <1>0, <4>1 DEF Exclusive, Critical
      <4>3. KeyOf(u) \in Keys BY <1>0, <4>2, WorkerRecord
      <4>4. lock'[KeyOf(u)] = u BY <1>1, <2>2, <4>2, <4>3
      <4> QED BY <1>2, <2>2, <4>4 DEF KeyOf
    <3> QED BY <3>1, <3>2
  <2> QED BY <2>1, <2>2
<1>6. Exclusive' BY <1>5 DEF Exclusive
<1>7. \A u \in Worker : Same(u) \/ Void(u) BY <1>1, <1>2 DEF Same, Void, Succeeded
<1>8. ResultsStay' /\ \A u \in Worker : ResultStands(u)' /\ NoRelapse(u)'
  BY <1>1, <1>3, <1>7, ClaimsStep
<1> QED BY <1>4, <1>6, <1>8 DEF AbsorbInv

LEMMA AbsorbEnvironment ==
    ASSUME AbsorbInv, RecordInv', Undisturbed', Environment
    PROVE  AbsorbInv'
<1>0. /\ LogType /\ ResultType /\ Exclusive /\ ~Spend("lock")
      /\ PositionInv /\ JobsExist
      /\ UNCHANGED log => LogGrows
      /\ UNCHANGED ledger => LedgerGrows
      /\ UNCHANGED <<media, result>> => KeepsResults
  BY SameGrows, UndisturbedFaults
     DEF AbsorbInv, RecordInv, ResultType, Disturbing, KeepsResults, Lives
<1>1. CASE \E w \in Worker : LoseLock(w)
  BY <1>0, <1>1, LoseLockMoves DEF Exclusive
<1>2. CASE \E w \in Worker : Crash(w) BY <1>2, AbsorbCrash
<1>3. CASE \/ \E p \in Partition : Rebalance(p)
           \/ \E k \in Keys : MarkerExpires(k)
           \/ \E r \in Request : RequestCrash(r)
  <2>1. UNCHANGED <<log, ledger, dlq, pc, job, verdict, held, handled, lock, media, result>>
    BY <1>3 DEF Rebalance, MarkerExpires, RequestCrash, kafkaVars, workerVars, failVars,
                redisVars, agentVars
  <2>2. Grows BY <1>0, <2>1 DEF Grows
  <2> QED BY <1>0, <2>1, <2>2, AbsorbIdle DEF ResultType
<1>4. CASE \E k \in Keys : Lapse(k) \/ OrphanExpires(k)
  <2>1. PICK k \in Keys : OrphanExpires(k) BY <1>0, <1>4 DEF Lapse
  <2>2. /\ UNCHANGED <<log, ledger, dlq, pc, job, verdict, held, handled, media, result>>
        /\ lock[k] = Orphan /\ lock' = [lock EXCEPT ![k] = Free]
    BY <2>1 DEF OrphanExpires, kafkaVars, workerVars, failVars, agentVars
  <2>3. Grows BY <1>0, <2>2 DEF Grows
  <2>4. /\ lock' \in [Keys -> Worker \union {Free, Orphan}]
        /\ \A q \in Keys : lock[q] \in Worker => lock'[q] = lock[q]
    BY <1>0, <2>2, PipelineAssumption DEF ResultType
  <2> QED BY <1>0, <2>2, <2>3, <2>4, AbsorbIdle DEF ResultType
<1>5. CASE \E m \in Media : DeleteMedia(m)
  <2>1. PICK m \in Media : DeleteMedia(m) BY <1>5
  <2>2. UNCHANGED <<log, ledger, dlq, pc, job, verdict, held, handled, lock>>
    BY <2>1 DEF DeleteMedia, kafkaVars, workerVars, failVars, redisVars
  <2>3. /\ \E s \in {"deleting", "gone"} : media' = [media EXCEPT ![m] = s]
        /\ \/ UNCHANGED result
           \/ result' = [result EXCEPT ![m] = FALSE]
    BY <2>1 DEF DeleteMedia, agentVars
  <2>4. Grows BY <1>0, <2>2 DEF Grows
  <2>5. result' \in [Media -> BOOLEAN] BY <1>0, <2>3 DEF ResultType
  <2>6. KeepsResults
    <3>1. \A q \in Media : q # m => media'[q] = media[q] /\ result'[q] = result[q]
      BY <1>0, <2>3 DEF ResultType
    <3>2. media'[m] # "present" /\ DOMAIN media' = Media BY <1>0, <2>3 DEF ResultType
    <3> QED BY <1>0, <3>1, <3>2 DEF KeepsResults, Lives, ResultType
  <2> QED BY <1>0, <2>2, <2>4, <2>5, <2>6, AbsorbIdle DEF ResultType
<1>6. CASE \E m \in Media : ForeignPublish(m)
  <2>1. PICK m \in Media : ForeignPublish(m) BY <1>6
  <2> DEFINE x == [media |-> m, action |-> "BAD", attempt |-> 1]
  <2>2. /\ UNCHANGED <<ledger, dlq, pc, job, verdict, held, handled, lock, media, result>>
        /\ Produce(<<Main, HashOf[m]>>, x)
    BY <2>1 DEF ForeignPublish, workerVars, failVars, redisVars, agentVars
  <2>3. x \in Record BY DEF Record, MaxAttempts
  <2> HIDE DEF x
  <2>4. Grows BY <1>0, <2>2, <2>3, ProduceGrows DEF Grows
  <2> QED BY <1>0, <2>2, <2>4, AbsorbIdle DEF ResultType
<1> QED BY <1>1, <1>2, <1>3, <1>4, <1>5, <1>6 DEF Environment

LEMMA NextAbsorb ==
    ASSUME AbsorbInv, [Next]_vars, Actions \subseteq {"START"}
    PROVE  AbsorbInv'
<1>0. RecordInv /\ LogType /\ ResultType BY DEF AbsorbInv, RecordInv
<1>1. RecordInv' /\ Undisturbed' BY NextRecord, NextUndisturbed DEF AbsorbInv
<1>2. CASE \E r \in Request : Submission(r) \/ Replay(r)
  <2>1. PICK r \in Request : Submission(r) \/ Replay(r) BY <1>2
  <2>2. Grows BY <1>0, <2>1, SubmissionGrows, ReplayGrows
  <2>3. UNCHANGED <<pc, job, verdict, held, handled, lock, media, result>> BY <2>1, RequestsOnly
  <2>4. KeepsResults BY <2>3 DEF KeepsResults, Lives
  <2> QED BY <1>0, <1>1, <2>2, <2>3, <2>4, AbsorbIdle DEF ResultType
<1>3. ASSUME NEW w \in Worker, Work(w) PROVE AbsorbInv'
  BY <1>1, <1>3, AbsorbTurns, AbsorbTryLock, AbsorbRoute, AbsorbFailure, AbsorbUnlock, AbsorbPoison
     DEF Work, Handle
<1>4. CASE Environment BY <1>1, <1>4, AbsorbEnvironment
<1>5. CASE UNCHANGED vars
  <2>1. UNCHANGED <<log, ledger, dlq, pc, job, verdict, held, handled, lock, media, result>>
    BY <1>5 DEF vars, kafkaVars, workerVars, failVars, redisVars, agentVars
  <2>2. Grows /\ KeepsResults BY <1>0, <2>1, SameGrows DEF Grows, KeepsResults, Lives
  <2> QED BY <1>0, <1>1, <2>1, <2>2, AbsorbIdle DEF ResultType
<1> QED BY <1>2, <1>3, <1>4, <1>5 DEF Next

\* "The next owner re-handles the record and the idempotency keys absorb it" (runner.commit): a
\* START that was handled with success is not retried or dead-lettered when it is delivered
\* again, as long as its media lives: for any number of workers, crashes, rebalances, lost
\* acknowledgements, failed produces and failed analyses of other records.  Not if a call of the
\* second attempt fails or its lock is lost, and not for a revision (see the README).
THEOREM RedeliveriesAreAbsorbed ==
    ASSUME Actions \subseteq {"START"}, \A x \in Disturbing : Budget[x] = 0
    PROVE  Spec => []AbsorbsRedelivery
<1>1. Init => AbsorbInv
  <2> SUFFICES ASSUME Init PROVE AbsorbInv OBVIOUS
  <2>1. Undisturbed BY PipelineAssumption DEF Init, Undisturbed
  <2>2. ResultType BY DEF Init, ResultType
  <2>3. Exclusive BY DEF Init, Exclusive, Critical
  <2>4. ResultsStay BY DEF Init, ResultsStay
  <2>5. \A w \in Worker : ResultStands(w) /\ NoRelapse(w)
    BY DEF Init, ResultStands, NoRelapse, Settled
  <2> QED BY <2>1, <2>2, <2>3, <2>4, <2>5, RecordInit DEF AbsorbInv
<1>2. AbsorbInv /\ [Next]_vars => AbsorbInv' BY NextAbsorb
<1>3. AbsorbInv => AbsorbsRedelivery
  BY DEF AbsorbInv, AbsorbsRedelivery, NoRelapse, Succeeded, Lives, Settled
<1> QED BY <1>1, <1>2, <1>3, PTL DEF Spec

-----------------------------------------------------------------------------
(* One task per key, as long as no partition changes hands *)

\* What can give a key a second task, or take the marker from the first: the faults in Losing,
\* and a foreign message, which releases the marker of the key it came under.
Doubling == Losing \union {"poison"}

\* No partition has changed hands.
Steady == left["rebalance"] = Budget["rebalance"]

\* A usable record is filed under the key of its task.
Filed(p, x) == x.action # "BAD" /\ Key(x.media, x.action) = p[2]

\* How Handle ends for a record it could read and lock.
Ended == {"success", "reused", "gone", "budget", "retry", "dlq"}

\* Without foreign messages and failed produces Handle succeeds or forwards at the first attempt.
Plain ==
    /\ left["poison"] = 0 /\ left["rebalance"] <= Budget["rebalance"] /\ DOMAIN mine = Worker
    /\ \A p \in Partition : \A o \in 1 .. Len(log[p]) : Filed(p, log[p][o])
    /\ \A w \in Worker : /\ pc[w] \notin {"poison", "backoff"}
                         /\ Settled(w) => verdict[w] \in Ended

\* The partition's owner takes its records in turn, one at a time: nothing is handled before or
\* twice.
InTurn ==
    /\ \A w \in Worker : pc[w] # "idle" => mine[w] /\ job[w].off = pos[job[w].part] + 1
    /\ \A u, w \in Worker : pc[u] # "idle" /\ pc[w] # "idle" /\ job[u].part = job[w].part => u = w
    /\ \A p \in Partition : \A o \in Nat : Handled(p, o)
         => o <= pos[p] \/ \E w \in Worker : pc[w] = "commit" /\ job[w].part = p /\ job[w].off = o

\* A record that stands for its task: not handled, and not passed on by the worker that has it.
Stands(k, t, o) ==
    /\ Waiting(k, t, o)
    /\ ~\E w \in Worker : Leaving(w) /\ job[w].part = <<t, k>> /\ job[w].off = o

\* A key has one task, and is marked active as long as it has.
OneTask(k) ==
    /\ \A r, s \in Request : Asks(r, k) /\ Asks(s, k) => r = s
    /\ \A r \in Request : Asks(r, k) => \A t, o : ~Stands(k, t, o)
    /\ \A t, u, o, n : Stands(k, t, o) /\ Stands(k, u, n) => t = u /\ o = n
    /\ (\E r \in Request : Asks(r, k)) \/ (\E t, o : Stands(k, t, o)) => active[k]

\* A worker that forwarded its record has left one that stands for the task, of the same media.
Successor(w) ==
    pc[w] = "settle" /\ verdict[w] = "retry" =>
        \E t, o : Stands(KeyOf(w), t, o) /\ log[<<t, KeyOf(w)>>][o].media = Rec(w).media

\* While a worker settles and unlocks, nobody else works on the key.
Alone(w) ==
    Settled(w) => \A u \in Worker : pc[u] # "idle" /\ KeyOf(u) = KeyOf(w) => u = w \/ pc[u] = "commit"

OneNow ==
    /\ InTurn /\ \A k \in Keys : OneTask(k)
    /\ \A w \in Worker : Successor(w) /\ Alone(w)

OneInv == TaskInv /\ Plain /\ (Steady => OneNow)

\* What a step leaves standing: everything, or everything but the worker's record.
StandsStay == \A k \in Keys : \A t, o : Stands(k, t, o) => Stands(k, t, o)'
StandsBut(w) == \A k \in Keys : \A t, o :
    Stands(k, t, o) => Stands(k, t, o)' \/ (job[w].part = <<t, k>> /\ job[w].off = o)

-----------------------------------------------------------------------------
(* Every task ends visibly *)

\* The worker's task is passed on to a record that nobody has.
Forwarded(w) == \E k \in Keys : \E t, o :
    /\ k = KeyOf(w) /\ Stands(k, t, o)' /\ log'[<<t, k>>][o].media = Rec(w).media
    /\ \A u \in Worker : pc'[u] # "idle" => ~(job'[u].part = <<t, k>> /\ job'[u].off = o)

\* The user is shown a result or a failure, or has deleted the media.
Shown(m) == \/ media[m] # "present" \/ result[m]
            \/ stage[m] \in {"BUDGET_EXHAUSTED", "FAILED", "DEAD_LETTERED"}

\* A worker whose part in what is shown is done.
Claims(w) == \/ pc[w] = "conclude"
             \/ pc[w] = "settle" /\ verdict[w] \in {"success", "reused", "gone"}

\* Somebody will still show something.
Open(m) == \E k \in Keys : \E t, o :
    /\ Stands(k, t, o) /\ log[<<t, k>>][o].media = m
    /\ ~\E w \in Worker : Claims(w) /\ job[w].part = <<t, k>> /\ job[w].off = o

Published(m) == \E k \in Keys : \E o \in 1 .. Len(log[<<Main, k>>]) : log[<<Main, k>>][o].media = m

EndType == result \in [Media -> BOOLEAN] /\ DOMAIN stage = Media /\ DOMAIN media = Media
EndNow == \A m \in Media : Published(m) => Shown(m) \/ Open(m)
EndInv == EndType /\ (Steady => EndNow)

-----------------------------------------------------------------------------
(* Records are usable, and none is handled twice for a failed produce *)

LEMMA HandleKeeps ==
    ASSUME NEW w \in Worker, Handle(w)
    PROVE  UNCHANGED <<pos, mine, committed>>
<1>1. CASE \/ TryLock(w) \/ TryLockOrphaned(w) \/ CheckMedia(w) \/ BeginRevision(w) \/ TryReuse(w)
  BY <1>1 DEF TryLock, TryLockOrphaned, CheckMedia, BeginRevision, TryReuse, kafkaVars
<1>2. CASE AsyncAnalyze(w) \/ Run(w) \/ Conclude(w) \/ CallFails(w)
  BY <1>2 DEF AsyncAnalyze, Run, Conclude, CallFails, kafkaVars
<1>3. CASE ForwardRetry(w) \/ DeadLetter(w) \/ RouteFails(w)
  BY <1>3 DEF ForwardRetry, DeadLetter, RouteFails, kafkaVars
<1>4. CASE Settle(w) \/ Unlock(w) \/ DiscardPoison(w)
  BY <1>4 DEF Settle, Unlock, DiscardPoison, kafkaVars
<1> QED BY <1>1, <1>2, <1>3, <1>4 DEF Handle

LEMMA RequestsKeepPositions ==
    ASSUME NEW r \in Request, Submission(r) \/ Replay(r)
    PROVE  UNCHANGED <<pos, stage>>
<1>1. CASE \E m \in Media : aiAnalyze(r, m) \/ reviseAgentResult(r, m)
  BY <1>1 DEF aiAnalyze, reviseAgentResult, SubmitReserve, kafkaVars, agentVars
<1>2. CASE SubmitRateLimited(r) BY <1>2 DEF SubmitRateLimited, kafkaVars, agentVars
<1>3. CASE SubmitStage(r) BY <1>3 DEF SubmitStage, kafkaVars
<1>4. CASE SubmitPublish(r) BY <1>4 DEF SubmitPublish, agentVars
<1>5. CASE SubmitFail(r) BY <1>5 DEF SubmitFail
<1>6. CASE failedReplay(r)
  BY <1>6 DEF failedReplay, ReplayRead, kafkaVars, agentVars
<1>7. CASE ReplayReserve(r) BY <1>7 DEF ReplayReserve, kafkaVars, agentVars
<1>8. CASE ReplayPublish(r) BY <1>8 DEF ReplayPublish, agentVars
<1>9. CASE ReplayMark(r) BY <1>9 DEF ReplayMark, kafkaVars, agentVars
<1> QED BY <1>1, <1>2, <1>3, <1>4, <1>5, <1>6, <1>7, <1>8, <1>9 DEF Submission, Replay

\* What a request publishes: nothing, or a usable record of the key it asks for, and then it asks no more.
LEMMA RequestPublishes ==
    ASSUME TaskInv, NEW r \in Request, Submission(r) \/ Replay(r), log' # log
    PROVE  \E k \in Keys, x \in Record :
              /\ Asks(r, k) /\ Produce(<<Main, k>>, x) /\ <<Main, k>> \in Partition
              /\ Filed(<<Main, k>>, x) /\ UNCHANGED active
              /\ \E y : req' = [req EXCEPT ![r] = y] /\ y.do \in {"done", "replayMark"}
<1>0. /\ LogType /\ ~Spend("produce") /\ ~Spend("lostack")
  BY SparedFaults DEF TaskInv, RecordInv, Losing
<1>1. CASE SubmitPublish(r)
  <2> DEFINE k == Key(req[r].media, req[r].action)
             x == [media |-> req[r].media, action |-> req[r].action, attempt |-> 1]
             y == [do |-> "done"]
  <2>1. /\ UNCHANGED active /\ req[r].do = "publish" /\ Produce(<<Main, k>>, x)
        /\ req' = [req EXCEPT ![r] = y] /\ y.do = "done"
    BY <1>1 DEF SubmitPublish, redisVars, Done, SetReq
  <2>2. /\ x \in Record /\ k \in Keys /\ <<Main, k>> \in Partition /\ req[r].action \in Actions
        /\ x.media = req[r].media /\ x.action = req[r].action
    BY <1>0, <2>1, SubmissionRecord
  <2>3. x.action # "BAD" BY <2>2, PipelineAssumption
  <2>4. Asks(r, k) BY <2>1 DEF Asks
  <2>5. Filed(<<Main, k>>, x) BY <2>2, <2>3 DEF Filed
  <2> HIDE DEF k, x, y
  <2> QED BY <2>1, <2>2, <2>4, <2>5
<1>2. CASE ReplayPublish(r)
  <2> DEFINE i == req[r].row
             k == Key(ledger[i].media, ledger[i].action)
             x == [media |-> ledger[i].media, action |-> ledger[i].action, attempt |-> 1]
             y == [req[r] EXCEPT !.do = "replayMark"]
  <2>1. /\ UNCHANGED active /\ req[r].do = "replayPublish" /\ Produce(<<Main, k>>, x)
        /\ req' = [req EXCEPT ![r] = y]
    BY <1>0, <1>2 DEF ReplayPublish, SetReq
  <2>2. i \in DOMAIN ledger /\ ledger[i].action # "BAD" /\ y.do = "replayMark"
    BY <1>0, <2>1, ReplayRow
  <2>3. x \in Record /\ k \in Keys /\ <<Main, k>> \in Partition BY <1>0, <2>2, ReplayRecord
  <2>4. x.media = ledger[i].media /\ x.action = ledger[i].action OBVIOUS
  <2>5. Asks(r, k) BY <2>1 DEF Asks
  <2>6. Filed(<<Main, k>>, x) BY <2>2, <2>4 DEF Filed
  <2> HIDE DEF k, x, y
  <2> QED BY <2>1, <2>2, <2>3, <2>5, <2>6
<1>3. CASE SubmitFail(r) BY <1>0, <1>3 DEF SubmitFail
<1>4. CASE \E m \in Media : aiAnalyze(r, m) \/ reviseAgentResult(r, m)
  BY <1>4 DEF aiAnalyze, reviseAgentResult, SubmitReserve, kafkaVars
<1>5. CASE SubmitRateLimited(r) \/ SubmitStage(r)
  BY <1>5 DEF SubmitRateLimited, SubmitStage, kafkaVars
<1>6. CASE failedReplay(r) \/ ReplayReserve(r) \/ ReplayMark(r)
  BY <1>6 DEF failedReplay, ReplayRead, ReplayReserve, ReplayMark, kafkaVars
<1> QED BY <1>1, <1>2, <1>3, <1>4, <1>5, <1>6 DEF Submission, Replay

LEMMA PlainFaults ==
    ASSUME TaskInv, Plain, [Next]_vars
    PROVE  /\ (left["poison"] = 0 /\ left["rebalance"] <= Budget["rebalance"])'
           /\ ~Spend("poison") /\ (Steady' => Steady)
           /\ Spend("rebalance") => ~Steady'
<1>1. left \in [Fault -> Nat] BY DEF TaskInv, Spared
<1>2. LeftDrops BY <1>1, NextDrops
<1>3. {"poison", "rebalance"} \subseteq Fault BY DEF Fault
<1>4. /\ left["poison"] \in Nat /\ left["rebalance"] \in Nat /\ Budget["rebalance"] \in Nat
      /\ left'["poison"] \in Nat /\ left'["rebalance"] \in Nat
      /\ left'["poison"] <= left["poison"] /\ left'["rebalance"] <= left["rebalance"]
  BY <1>1, <1>2, <1>3, PipelineAssumption DEF LeftDrops
<1>5. Spend("rebalance") => left'["rebalance"] = left["rebalance"] - 1
  BY <1>1, <1>3 DEF Spend
<1> QED BY <1>4, <1>5 DEF Plain, Steady, Spend

LEMMA FiledStays ==
    ASSUME LogType, Plain,
           \/ UNCHANGED log
           \/ \E p \in Partition : \E x \in Record : Produce(p, x) /\ Filed(p, x)
    PROVE  \A q \in Partition : \A o \in 1 .. Len(log'[q]) : Filed(q, log'[q][o])
<1>1. CASE UNCHANGED log BY <1>1 DEF Plain
<1>2. CASE \E p \in Partition : \E x \in Record : Produce(p, x) /\ Filed(p, x)
  <2>1. PICK p \in Partition, x \in Record : Produce(p, x) /\ Filed(p, x) BY <1>2
  <2>2. /\ LogGrows /\ Len(log'[p]) = Len(log[p]) + 1 /\ log'[p][Len(log[p]) + 1] = x
    BY <2>1, ProduceGrows
  <2>3. \A q \in Partition : q # p => log'[q] = log[q] BY <2>1 DEF Produce, LogType
  <2>4. Len(log[p]) \in Nat BY DEF LogType
  <2>5. ASSUME NEW o \in 1 .. Len(log'[p]) PROVE Filed(p, log'[p][o])
    <3>1. o \in 1 .. Len(log[p]) \/ o = Len(log[p]) + 1 BY <2>2, <2>4
    <3>2. o \in 1 .. Len(log[p]) => log'[p][o] = log[p][o] BY <2>2 DEF LogGrows
    <3> QED BY <2>1, <2>2, <3>1, <3>2 DEF Plain
  <2> QED BY <2>3, <2>5 DEF Plain
<1> QED BY <1>1, <1>2

LEMMA PlainMoves ==
    ASSUME TaskInv, Plain, NEW w \in Worker, NEW l, NEW v, Moves(w, l, v),
           l \notin {"poison", "backoff"}, l \in {"settle", "unlock"} => v \in Ended
    PROVE  \A u \in Worker : pc'[u] \notin {"poison", "backoff"} /\ (Settled(u)' => verdict'[u] \in Ended)
<1>1. /\ pc'[w] = l /\ verdict'[w] = v
      /\ \A u \in Worker \ {w} : pc'[u] = pc[u] /\ verdict'[u] = verdict[u]
  BY DEF TaskInv, RecordInv, PositionInv, PositionType, Moves
<1>2. ASSUME NEW u \in Worker
      PROVE  pc'[u] \notin {"poison", "backoff"} /\ (Settled(u)' => verdict'[u] \in Ended)
  <2>1. CASE u = w BY <1>1, <2>1 DEF Settled
  <2>2. CASE u # w BY <1>1, <2>2 DEF Plain, Settled
  <2> QED BY <2>1, <2>2
<1> QED BY <1>2

\* What a worker forwards is usable and filed under the same key.
LEMMA ForwardFiled ==
    ASSUME TaskInv, Plain, NEW w \in Worker, pc[w] = "route", Route(w) # DLQ
    PROVE  /\ Filed(<<Route(w), KeyOf(w)>>, NextAttempt(Rec(w)))
           /\ NextAttempt(Rec(w)).media = Rec(w).media
<1>1. /\ Rec(w) \in Record /\ job[w].part \in Partition /\ job[w].off \in 1 .. Len(log[job[w].part])
  BY WorkerRecord DEF TaskInv, RecordInv
<1>2. Filed(job[w].part, Rec(w)) BY <1>1 DEF Plain, Rec
<1>3. NextAttempt(Rec(w)).media = Rec(w).media /\ NextAttempt(Rec(w)).action = Rec(w).action
  BY <1>1 DEF NextAttempt, Record
<1> QED BY <1>2, <1>3 DEF Filed, KeyOf

LEMMA PlainHandle ==
    ASSUME TaskInv, Plain, NEW w \in Worker, Handle(w)
    PROVE  /\ ~RouteFails(w) /\ ~DiscardPoison(w)
           /\ \A q \in Partition : \A o \in 1 .. Len(log'[q]) : Filed(q, log'[q][o])
           /\ \A u \in Worker : pc'[u] \notin {"poison", "backoff"} /\ (Settled(u)' => verdict'[u] \in Ended)
<1>0. /\ PositionInv /\ LogType /\ JobsExist /\ ~Spend("produce") /\ ~Spend("lostack")
  BY SparedFaults DEF TaskInv, RecordInv, Losing
<1>1. ~RouteFails(w) /\ ~DiscardPoison(w)
  <2>1. ~RouteFails(w) BY <1>0, RouteFailsMoves
  <2>2. pc[w] # "poison" BY DEF Plain
  <2>3. ~DiscardPoison(w) BY <2>2, DiscardPoisonMoves
  <2> QED BY <2>1, <2>3
<1>2. CASE ForwardRetry(w)
  <2>1. /\ pc[w] = "route" /\ Moves(w, "settle", "retry") /\ Route(w) # DLQ
        /\ Produce(<<Route(w), KeyOf(w)>>, NextAttempt(Rec(w)))
    BY <1>2, ForwardMoves
  <2>2. NextAttempt(Rec(w)) \in Record /\ <<Route(w), KeyOf(w)>> \in Partition
    BY <1>0, <2>1, ForwardedRecord
  <2>3. \A q \in Partition : \A o \in 1 .. Len(log'[q]) : Filed(q, log'[q][o])
    BY <1>0, <2>1, <2>2, ForwardFiled, FiledStays
  <2>4. "retry" \in Ended BY DEF Ended
  <2> QED BY <1>1, <2>1, <2>3, <2>4, PlainMoves
<1>3. CASE ~ForwardRetry(w)
  <2>1. UNCHANGED log /\ \E l, v : /\ Moves(w, l, v) /\ l \notin {"poison", "backoff"}
                                   /\ l \in {"settle", "unlock"} => v \in Ended
    <3>1. CASE TryLock(w) \/ TryLockOrphaned(w)
      <4>1. UNCHANGED log /\ \E l, v : Moves(w, l, v) /\ l \in {"process", "commit", "route"}
        BY <1>0, <3>1, TryLockMoves
      <4> QED BY <4>1
    <3>2. CASE \/ CheckMedia(w) \/ BeginRevision(w) \/ TryReuse(w) \/ AsyncAnalyze(w)
               \/ Run(w) \/ Conclude(w) \/ CallFails(w)
      <4>1. {"gone", "reused", "budget", "success"} \subseteq Ended BY DEF Ended
      <4>2. UNCHANGED log /\ \E l, v : /\ Moves(w, l, v)
                                       /\ \/ l \in {"prepare", "analyze", "run", "conclude", "route"}
                                          \/ l = "settle" /\ v \in {"gone", "reused", "budget", "success"}
        BY <1>0, <3>2, ProcessMoves
      <4> QED BY <4>1, <4>2
    <3>3. CASE DeadLetter(w) BY <3>3, DeadLetterMoves DEF Ended
    <3>4. CASE Settle(w)
      <4>1. pc[w] = "settle" /\ Moves(w, "unlock", verdict[w]) /\ UNCHANGED log BY <1>0, <3>4, SettleMoves
      <4>2. verdict[w] \in Ended BY <4>1 DEF Plain, Settled
      <4> QED BY <4>1, <4>2
    <3>5. CASE Unlock(w)
      <4>0. pc[w] = "unlock" BY <3>5 DEF Unlock
      <4>1. verdict[w] # "redeliver" BY <4>0 DEF Plain, Settled, Ended
      <4> QED BY <1>0, <3>5, <4>1, UnlockMoves
    <3> QED BY <1>1, <1>3, <3>1, <3>2, <3>3, <3>4, <3>5 DEF Handle
  <2> QED BY <1>0, <1>1, <2>1, FiledStays, PlainMoves
<1> QED BY <1>2, <1>3

LEMMA SameWorkers ==
    ASSUME [Next]_vars, DOMAIN mine = Worker
    PROVE  DOMAIN mine' = Worker
<1>1. CASE \E r \in Request : Submission(r) \/ Replay(r) BY <1>1, RequestsOnly
<1>2. ASSUME NEW w \in Worker, Work(w) PROVE DOMAIN mine' = Worker
  <2>1. CASE Handle(w) BY <2>1, HandleKeeps
  <2>2. CASE ~Handle(w) BY <1>2, <2>2 DEF Work, Deliver, Redeliver, Commit, Rest
  <2> QED BY <2>1, <2>2
<1>3. CASE Environment
  BY <1>3 DEF Environment, LoseLock, Crash, Rest, Rebalance, Lapse, OrphanExpires, MarkerExpires,
              RequestCrash, DeleteMedia, ForeignPublish, workerVars
<1>4. CASE UNCHANGED vars BY <1>4 DEF vars, workerVars
<1> QED BY <1>1, <1>2, <1>3, <1>4 DEF Next

LEMMA NextPlain ==
    ASSUME TaskInv, Plain, [Next]_vars
    PROVE  Plain'
<1>0. /\ RecordInv /\ PositionInv /\ LogType /\ ~Spend("poison") /\ ~Spend("lock") /\ ~Spend("crash")
      /\ LockInv
  BY PlainFaults, SparedFaults DEF TaskInv, RecordInv, Losing
<1> DEFINE Logs == \A q \in Partition : \A o \in 1 .. Len(log'[q]) : Filed(q, log'[q][o])
           Workers == \A u \in Worker : pc'[u] \notin {"poison", "backoff"} /\ (Settled(u)' => verdict'[u] \in Ended)
<1>1. UNCHANGED log => Logs BY <1>0, FiledStays
<1>2. UNCHANGED <<pc, verdict>> => Workers BY DEF Plain, Settled
<1> SUFFICES Logs /\ Workers BY PlainFaults, SameWorkers DEF Plain
<1>3. CASE \E r \in Request : Submission(r) \/ Replay(r)
  <2>1. PICK r \in Request : Submission(r) \/ Replay(r) BY <1>3
  <2>2. UNCHANGED log \/ \E p \in Partition : \E x \in Record : Produce(p, x) /\ Filed(p, x)
    BY <2>1, RequestPublishes
  <2> QED BY <1>0, <1>2, <2>1, <2>2, FiledStays, RequestsOnly
<1>4. ASSUME NEW w \in Worker, Work(w) PROVE Logs /\ Workers
  <2>1. CASE Handle(w) BY <2>1, PlainHandle
  <2>2. CASE \E p \in Partition : Deliver(w, p)
    <3>1. PICK p \in Partition : Deliver(w, p) BY <2>2
    <3>2. UNCHANGED <<log, verdict>> /\ Goto(w, FirstStep(log[p][pos[p] + 1])) /\ pos[p] < Len(log[p])
      BY <3>1 DEF Deliver, kafkaVars
    <3>3. pos[p] + 1 \in 1 .. Len(log[p]) BY <1>0, <3>2 DEF PositionInv, PositionType, LogType
    <3>4. FirstStep(log[p][pos[p] + 1]) = "lock" BY <3>3 DEF Plain, Filed, FirstStep
    <3>5. pc'[w] = "lock" /\ \A u \in Worker \ {w} : pc'[u] = pc[u]
      BY <1>0, <3>2, <3>4 DEF Goto, PositionInv, PositionType
    <3>6. Workers BY <3>2, <3>5 DEF Plain, Settled
    <3> QED BY <1>1, <3>2, <3>6
  <2>3. CASE Redeliver(w) BY <2>3 DEF Redeliver, Plain
  <2>4. CASE Commit(w)
    <3>1. UNCHANGED log /\ Rest(w) BY <2>4 DEF Commit
    <3>2. /\ pc'[w] = "idle"
          /\ \A u \in Worker \ {w} : pc'[u] = pc[u] /\ verdict'[u] = verdict[u]
      BY <1>0, <3>1 DEF PositionInv, PositionType, Rest, Return, Goto
    <3>3. Workers BY <3>2 DEF Plain, Settled
    <3> QED BY <1>1, <3>1, <3>3
  <2> QED BY <1>4, <2>1, <2>2, <2>3, <2>4 DEF Work
<1>5. CASE Environment
  <2>1. UNCHANGED log /\ UNCHANGED <<pc, verdict>>
    <3>1. CASE \E w \in Worker : LoseLock(w) BY <1>0, <3>1, LoseLockMoves DEF LockInv
    <3>2. CASE \E w \in Worker : Crash(w) BY <1>0, <3>2 DEF Crash
    <3>3. CASE \E p \in Partition : Rebalance(p) BY <3>3 DEF Rebalance
    <3>4. CASE \E k \in Keys : Lapse(k) \/ OrphanExpires(k) \/ MarkerExpires(k)
      BY <3>4 DEF Lapse, OrphanExpires, MarkerExpires, kafkaVars, workerVars
    <3>5. CASE \E r \in Request : RequestCrash(r) BY <3>5 DEF RequestCrash, kafkaVars, workerVars
    <3>6. CASE \E m \in Media : DeleteMedia(m) BY <3>6 DEF DeleteMedia, kafkaVars, workerVars
    <3>7. CASE \E m \in Media : ForeignPublish(m) BY <1>0, <3>7 DEF ForeignPublish
    <3> QED BY <1>5, <3>1, <3>2, <3>3, <3>4, <3>5, <3>6, <3>7 DEF Environment
  <2> QED BY <1>1, <1>2, <2>1
<1>6. CASE UNCHANGED vars BY <1>1, <1>2, <1>6 DEF vars, kafkaVars, workerVars
<1> QED BY <1>3, <1>4, <1>5, <1>6 DEF Next

-----------------------------------------------------------------------------
(* Who stands for a task *)

\* A worker's record stands for its task until the worker passes it on or has handled it.
LEMMA HasStanding ==
    ASSUME TaskInv, OneNow, NEW w \in Worker, pc[w] \notin {"idle", "commit"}, ~Leaving(w)
    PROVE  /\ Stands(KeyOf(w), job[w].part[1], job[w].off) /\ KeyOf(w) \in Keys
           /\ job[w].part = <<job[w].part[1], KeyOf(w)>>
<1>1. /\ job[w].part \in Partition /\ job[w].off \in 1 .. Len(log[job[w].part])
      /\ job[w].part[1] \in Topic /\ job[w].part = <<job[w].part[1], KeyOf(w)>> /\ KeyOf(w) \in Keys
  BY WorkerRecord DEF TaskInv, RecordInv
<1>2. /\ job[w].off = pos[job[w].part] + 1
      /\ \A u \in Worker : pc[u] # "idle" /\ job[u].part = job[w].part => u = w
  BY DEF OneNow, InTurn
<1>3. job[w].off \in Nat /\ pos[job[w].part] \in Nat
  BY <1>1 DEF TaskInv, RecordInv, PositionInv, PositionType, LogType
<1>4. ~Handled(job[w].part, job[w].off)
  <2> SUFFICES ASSUME Handled(job[w].part, job[w].off) PROVE FALSE OBVIOUS
  <2>1. \/ job[w].off <= pos[job[w].part]
        \/ \E u \in Worker : pc[u] = "commit" /\ job[u].part = job[w].part /\ job[u].off = job[w].off
    BY <1>1, <1>3 DEF OneNow, InTurn
  <2>2. ~(job[w].off <= pos[job[w].part]) BY <1>2, <1>3
  <2> QED BY <1>2, <2>1, <2>2
<1>5. \A u \in Worker : Leaving(u) => job[u].part # job[w].part
  BY <1>2 DEF Leaving
<1>6. Waiting(KeyOf(w), job[w].part[1], job[w].off) BY <1>1, <1>4 DEF Waiting
<1> QED BY <1>1, <1>5, <1>6 DEF Stands

\* So a worker that works on a record is alone with the key, but for commits.
LEMMA WorksAlone ==
    ASSUME TaskInv, OneNow, NEW w \in Worker, pc[w] \notin {"idle", "commit"}, ~Leaving(w),
           NEW u \in Worker, pc[u] # "idle", KeyOf(u) = KeyOf(w)
    PROVE  u = w \/ pc[u] = "commit"
<1> SUFFICES ASSUME u # w, pc[u] # "commit" PROVE FALSE OBVIOUS
<1>1. CASE Leaving(u)
  <2>1. Settled(u) BY <1>1 DEF Leaving, Settled
  <2>2. Alone(u) BY DEF OneNow
  <2> QED BY <2>1, <2>2 DEF Alone
<1>2. CASE ~Leaving(u)
  <2>1. /\ Stands(KeyOf(w), job[w].part[1], job[w].off) /\ KeyOf(w) \in Keys
        /\ job[w].part = <<job[w].part[1], KeyOf(w)>>
    BY HasStanding
  <2>2. /\ Stands(KeyOf(w), job[u].part[1], job[u].off)
        /\ job[u].part = <<job[u].part[1], KeyOf(w)>>
    BY <1>2, HasStanding
  <2>3. job[u].part[1] = job[w].part[1]
    BY <2>1, <2>2 DEF OneNow, OneTask
  <2>4. job[u].part = job[w].part BY <2>1, <2>2, <2>3
  <2> QED BY <2>4 DEF OneNow, InTurn
<1> QED BY <1>1, <1>2

LEMMA StandsSame ==
    ASSUME UNCHANGED <<log, handled, job>>, \A u \in Worker : Leaving(u)' <=> Leaving(u)
    PROVE  \A k, t, o : Stands(k, t, o)' <=> Stands(k, t, o)
BY DEF Stands, Waiting, Handled

LEMMA SameAsks ==
    ASSUME LogType, LedgerGrows, NEW r \in Request, req'[r] = req[r], NEW k
    PROVE  Asks(r, k)' <=> Asks(r, k)
<1>1. req[r].do = "replayPublish" => req[r].row \in 1 .. Len(ledger)
  BY DEF LogType
<1>2. req[r].do = "replayPublish" =>
        /\ ledger'[req[r].row].media = ledger[req[r].row].media
        /\ ledger'[req[r].row].action = ledger[req[r].row].action
  BY <1>1 DEF LedgerGrows
<1> QED BY <1>2 DEF Asks, Key

\* Nobody new asks and nothing new stands; the marker stays while somebody or something does.
LEMMA OneKept ==
    ASSUME NEW k, OneTask(k), \A r \in Request : Asks(r, k)' => Asks(r, k),
           \A t, o : Stands(k, t, o)' => Stands(k, t, o),
           active'[k] \/ ((\A r \in Request : ~Asks(r, k)') /\ \A t, o : ~Stands(k, t, o)') \/ active'[k] = active[k]
    PROVE  OneTask(k)'
<1>1. (\E r \in Request : Asks(r, k)') \/ (\E t, o : Stands(k, t, o)') => active'[k]
  BY DEF OneTask
<1>2. \A r, s \in Request : Asks(r, k)' /\ Asks(s, k)' => r = s BY DEF OneTask
<1>3. \A r \in Request : Asks(r, k)' => \A t, o : ~Stands(k, t, o)' BY DEF OneTask
<1>4. \A t, u, o, n : Stands(k, t, o)' /\ Stands(k, u, n)' => t = u /\ o = n BY DEF OneTask
<1> QED BY <1>1, <1>2, <1>3, <1>4 DEF OneTask

\* A worker goes on with its record.
LEMMA OneWorks ==
    ASSUME TaskInv, OneNow, NEW w \in Worker, pc[w] \notin {"idle", "commit"}, ~Leaving(w),
           NEW l, NEW v, Moves(w, l, v), l \notin {"idle", "commit", "unlock"},
           l = "settle" => v # "retry",
           UNCHANGED <<log, handled, req, active, pos, mine>>, LedgerGrows
    PROVE  OneNow' /\ StandsStay
<1>1. /\ UNCHANGED job /\ pc'[w] = l /\ verdict'[w] = v
      /\ \A u \in Worker \ {w} : pc'[u] = pc[u] /\ verdict'[u] = verdict[u]
  BY DEF TaskInv, RecordInv, PositionInv, PositionType, Moves
<1>2. \A u \in Worker : (pc'[u] = "idle" <=> pc[u] = "idle") /\ (pc'[u] = "commit" <=> pc[u] = "commit")
  BY <1>1
<1>3. \A u \in Worker : Leaving(u)' <=> Leaving(u) BY <1>1 DEF Leaving
<1>4. \A k, t, o : Stands(k, t, o)' <=> Stands(k, t, o) BY <1>1, <1>3, StandsSame
<1>5. InTurn' BY <1>1, <1>2 DEF OneNow, InTurn, Handled
<1>6. ASSUME NEW k \in Keys PROVE OneTask(k)'
  BY <1>4, SameAsks, OneKept DEF OneNow, TaskInv, RecordInv
<1>7. ASSUME NEW u \in Worker PROVE Successor(u)'
  <2>1. CASE u = w BY <1>1, <2>1 DEF Successor
  <2>2. CASE u # w BY <1>1, <1>4, <2>2 DEF OneNow, Successor, KeyOf, Rec
  <2> QED BY <2>1, <2>2
<1>8. ASSUME NEW u \in Worker PROVE Alone(u)'
  <2>1. CASE u = w
    <3>1. \A x \in Worker : pc[x] # "idle" /\ KeyOf(x) = KeyOf(w) => x = w \/ pc[x] = "commit"
      BY WorksAlone
    <3> QED BY <1>1, <1>2, <2>1, <3>1 DEF Alone, KeyOf
  <2>2. CASE u # w
    <3>1. Alone(u) /\ (Settled(u)' <=> Settled(u)) BY <1>1, <2>2 DEF OneNow, Settled
    <3> QED BY <1>1, <1>2, <3>1 DEF Alone, KeyOf
  <2> QED BY <2>1, <2>2
<1> QED BY <1>4, <1>5, <1>6, <1>7, <1>8 DEF OneNow, StandsStay

-----------------------------------------------------------------------------
(* One task per key: steps of requests *)

\* A new record stands; nothing else begins to.
LEMMA ProduceStands ==
    ASSUME RecordInv, NEW t \in Topic, NEW k \in Keys, NEW x \in Record, NEW n,
           Produce(<<t, k>>, x), n = Len(log[<<t, k>>]) + 1, UNCHANGED <<job, handled>>
    PROVE  /\ Waiting(k, t, n)' /\ log'[<<t, k>>][n] = x /\ n \notin 1 .. Len(log[<<t, k>>])
           /\ \A q \in Keys : \A u, o : Waiting(q, u, o)' <=> Waiting(q, u, o) \/ (q = k /\ u = t /\ o = n)
           /\ \A q \in Keys : \A u, o : Waiting(q, u, o) => log'[<<u, q>>][o] = log[<<u, q>>][o]
           /\ \A u \in Worker : pc[u] # "idle" => log'[job[u].part][job[u].off] = log[job[u].part][job[u].off]
           /\ \A u \in Worker : pc[u] # "idle" => job[u].part # <<t, k>> \/ job[u].off # n
<1> DEFINE p == <<t, k>>
<1>0. /\ LogType /\ p \in Partition /\ Len(log[p]) \in Nat /\ PositionInv /\ JobsExist
  BY DEF RecordInv, LogType, Partition
<1>1. /\ Len(log'[p]) = n /\ log'[p][n] = x /\ LogGrows BY <1>0, ProduceGrows
<1>2. \A q \in Partition : q # p => log'[q] = log[q] BY <1>0 DEF Produce, LogType
<1>3. ~Handled(p, n)
  <2>1. ASSUME NEW v, <<p, n, v>> \in handled PROVE FALSE
    <3>1. <<p, n, v>>[2] \in 1 .. Len(log[<<p, n, v>>[1]])
      BY <2>1 DEF RecordInv, HandledExists
    <3> QED BY <1>0, <3>1
  <2> QED BY <2>1 DEF Handled
<1>4. n \notin 1 .. Len(log[p]) /\ n \in 1 .. Len(log'[p])
      /\ \A o : o \in 1 .. Len(log'[p]) <=> o \in 1 .. Len(log[p]) \/ o = n
  BY <1>0, <1>1
<1>5. \A q, o : Handled(q, o)' <=> Handled(q, o) BY DEF Handled
<1>6. ASSUME NEW q \in Keys, NEW u, NEW o
      PROVE  /\ Waiting(q, u, o)' <=> Waiting(q, u, o) \/ (q = k /\ u = t /\ o = n)
             /\ Waiting(q, u, o) => log'[<<u, q>>][o] = log[<<u, q>>][o]
  <2>1. CASE q = k /\ u = t
    <3>1. Waiting(q, u, o)' <=> Waiting(q, u, o) \/ o = n
      BY <1>3, <1>4, <1>5, <2>1 DEF Waiting
    <3>2. Waiting(q, u, o) => log'[<<u, q>>][o] = log[<<u, q>>][o]
      BY <1>0, <1>1, <2>1 DEF Waiting, LogGrows
    <3> QED BY <2>1, <3>1, <3>2
  <2>2. CASE ~(q = k /\ u = t)
    <3>1. <<u, q>> # p BY <2>2
    <3>2. u \in Topic => log'[<<u, q>>] = log[<<u, q>>] BY <1>2, <3>1 DEF Partition
    <3> QED BY <1>5, <2>2, <3>2 DEF Waiting
  <2> QED BY <2>1, <2>2
<1>7. ASSUME NEW u \in Worker, pc[u] # "idle"
      PROVE  /\ log'[job[u].part][job[u].off] = log[job[u].part][job[u].off]
             /\ job[u].part # p \/ job[u].off # n
  <2>1. job[u].part \in Partition /\ job[u].off \in 1 .. Len(log[job[u].part])
    BY <1>0, <1>7, WorkerRecord
  <2> QED BY <1>1, <1>4, <2>1 DEF LogGrows
<1>8. Waiting(k, t, n)' BY <1>6
<1>9. \A q \in Keys : \A u, o : Waiting(q, u, o)' <=> Waiting(q, u, o) \/ (q = k /\ u = t /\ o = n)
  BY <1>6
<1>10. \A q \in Keys : \A u, o : Waiting(q, u, o) => log'[<<u, q>>][o] = log[<<u, q>>][o]
  BY <1>6
<1> QED BY <1>1, <1>4, <1>7, <1>8, <1>9, <1>10

\* A request asks no more than before, or withdraws and takes the marker back, or reserves.
LEMMA OneAsks ==
    ASSUME LogType, LedgerGrows, NEW r \in Request, NEW y, req' = [req EXCEPT ![r] = y],
           NEW k, OneTask(k), \A t, o : Stands(k, t, o)' <=> Stands(k, t, o),
           \/ (Asks(r, k)' => Asks(r, k)) /\ active'[k] = active[k]
           \/ Asks(r, k) /\ ~Asks(r, k)'
           \/ ~active[k] /\ active'[k]
    PROVE  OneTask(k)'
<1>1. \A s \in Request \ {r} : Asks(s, k)' <=> Asks(s, k)
  <2>1. ASSUME NEW s \in Request \ {r} PROVE Asks(s, k)' <=> Asks(s, k)
    <3>1. req'[s] = req[s] BY DEF LogType
    <3> QED BY <3>1, SameAsks
  <2> QED BY <2>1
<1>2. CASE (Asks(r, k)' => Asks(r, k)) /\ active'[k] = active[k]
  BY <1>1, <1>2, OneKept
<1>3. CASE Asks(r, k) /\ ~Asks(r, k)'
  <2>1. \A s \in Request : ~Asks(s, k)' BY <1>1, <1>3 DEF OneTask
  <2>2. \A t, o : ~Stands(k, t, o)' BY <1>3 DEF OneTask
  <2> QED BY <2>1, <2>2, OneKept
<1>4. CASE ~active[k] /\ active'[k]
  <2>1. \A s \in Request : ~Asks(s, k) BY <1>4 DEF OneTask
  <2>2. \A t, o : ~Stands(k, t, o)' BY <1>4 DEF OneTask
  <2>3. \A s \in Request : Asks(s, k)' => s = r BY <1>1, <2>1
  <2> QED BY <1>4, <2>2, <2>3 DEF OneTask
<1> QED BY <1>2, <1>3, <1>4

\* What a request that publishes nothing does to a key.
LEMMA RequestAsks ==
    ASSUME TaskInv, NEW r \in Request, Submission(r) \/ Replay(r), UNCHANGED log, NEW k \in Keys
    PROVE  \E y : /\ req' = [req EXCEPT ![r] = y]
                  /\ \/ (Asks(r, k)' => Asks(r, k)) /\ active'[k] = active[k]
                     \/ Asks(r, k) /\ ~Asks(r, k)'
                     \/ ~active[k] /\ active'[k]
<1>0. /\ LogType /\ active \in [Keys -> BOOLEAN] /\ Spared
      /\ ~Spend("lostack") /\ ~Spend("marker") /\ ~Spend("produce")
  BY SparedFaults DEF TaskInv, RecordInv, TaskType, Losing
<1>1. ASSUME NEW y, req' = [req EXCEPT ![r] = y] PROVE req'[r] = y BY <1>0, <1>1 DEF LogType
<1>2. ASSUME req' = [req EXCEPT ![r] = [do |-> "done"]] PROVE ~Asks(r, k)'
  <2>1. req'[r] = [do |-> "done"] BY <1>1, <1>2
  <2>2. req'[r].do = "done" BY <2>1
  <2> QED BY <2>2 DEF Asks
<1>3. CASE \E m \in Media : aiAnalyze(r, m) \/ reviseAgentResult(r, m)
  <2>1. PICK m \in Media, a \in Actions : SubmitReserve(r, m, a)
    BY <1>3 DEF aiAnalyze, reviseAgentResult, SubmitReserve
  <2> DEFINE q == Key(m, a)
             x == [do |-> "quota", media |-> m, action |-> a]
  <2>2. /\ active' = [active EXCEPT ![q] = TRUE] /\ ~active[q] /\ req' = [req EXCEPT ![r] = x]
    BY <1>0, <2>1 DEF SubmitReserve, SetReq
  <2>3. req'[r] = x /\ x.do = "quota" /\ x.media = m /\ x.action = a BY <1>1, <2>2
  <2>4. Asks(r, k)' => k = q BY <2>3 DEF Asks, Key
  <2>5. CASE k = q
    <3>1. ~active[k] /\ active'[k] BY <1>0, <2>2, <2>5
    <3> QED BY <2>2, <3>1
  <2>6. CASE k # q
    <3>1. active'[k] = active[k] BY <1>0, <2>2, <2>6
    <3> QED BY <2>2, <2>4, <2>6, <3>1
  <2> QED BY <2>5, <2>6
<1>4. CASE SubmitRateLimited(r) \/ SubmitFail(r)
  <2> DEFINE q == Key(req[r].media, req[r].action)
  <2>1. /\ req[r].do \in {"quota", "publish"} /\ Release(q)
        /\ req' = [req EXCEPT ![r] = [do |-> "done"]]
    BY <1>0, <1>4 DEF SubmitRateLimited, SubmitFail, Done, SetReq
  <2>2. k = q => Asks(r, k) BY <2>1 DEF Asks
  <2>3. k # q => active'[k] = active[k] BY <1>0, <2>1 DEF Release
  <2> HIDE DEF q
  <2> QED BY <1>2, <2>1, <2>2, <2>3
<1>5. CASE SubmitStage(r)
  <2>1. /\ UNCHANGED active /\ req[r].do = "quota"
        /\ req' = [req EXCEPT ![r] = [req[r] EXCEPT !.do = "publish"]]
    BY <1>5 DEF SubmitStage, redisVars, SetReq
  <2>2. req'[r].do = "publish" /\ req'[r].media = req[r].media /\ req'[r].action = req[r].action
    BY <1>0, <2>1, SubmissionRecord DEF LogType
  <2>3. Asks(r, k)' => Asks(r, k) BY <2>1, <2>2 DEF Asks, Key
  <2> QED BY <2>1, <2>3
<1>6. CASE failedReplay(r)
  <2>1. PICK i \in DOMAIN ledger : ReplayRead(r, i) BY <1>6 DEF failedReplay
  <2> DEFINE x == [do |-> "replay", row |-> i]
  <2>2. UNCHANGED active /\ req' = [req EXCEPT ![r] = x] BY <2>1 DEF ReplayRead, redisVars, SetReq
  <2>3. req'[r].do = "replay" BY <1>1, <2>2
  <2>4. ~Asks(r, k)' BY <2>3 DEF Asks
  <2> QED BY <2>2, <2>4
<1>7. CASE ReplayReserve(r)
  <2> DEFINE i == req[r].row
             q == Key(ledger[i].media, ledger[i].action)
  <2>1. req[r].do = "replay" /\ UNCHANGED ledger BY <1>7 DEF ReplayReserve, failVars
  <2>2. CASE UNCHANGED active /\ req' = [req EXCEPT ![r] = [do |-> "done"]]
    BY <1>2, <2>2
  <2>3. CASE /\ active' = [active EXCEPT ![q] = TRUE] /\ ~active[q]
             /\ req' = [req EXCEPT ![r] = [req[r] EXCEPT !.do = "replayPublish"]]
    <3>1. req'[r].do = "replayPublish" /\ req'[r].row = i
      BY <1>0, <2>1, <2>3, ReplayRow DEF LogType
    <3>2. Asks(r, k)' => k = q BY <2>1, <3>1 DEF Asks, Key
    <3>3. k # q => active'[k] = active[k] BY <1>0, <2>3
    <3>4. k = q => ~active[k] /\ active'[k] BY <1>0, <2>3
    <3> HIDE DEF q
    <3> QED BY <2>3, <3>2, <3>3, <3>4
  <2>4. \/ UNCHANGED active /\ req' = [req EXCEPT ![r] = [do |-> "done"]]
        \/ /\ active' = [active EXCEPT ![q] = TRUE] /\ ~active[q]
           /\ req' = [req EXCEPT ![r] = [req[r] EXCEPT !.do = "replayPublish"]]
    BY <1>7 DEF ReplayReserve, Done, SetReq
  <2> QED BY <2>2, <2>3, <2>4
<1>8. CASE ReplayMark(r)
  <2>1. /\ UNCHANGED active /\ req' = [req EXCEPT ![r] = [do |-> "done"]]
    BY <1>8 DEF ReplayMark, redisVars, Done, SetReq
  <2> QED BY <1>2, <2>1
<1>9. CASE SubmitPublish(r) \/ ReplayPublish(r)
  <2>1. PICK q \in Keys, x \in Record : Produce(<<Main, q>>, x) /\ <<Main, q>> \in Partition
    <3>1. CASE SubmitPublish(r)
      BY <1>0, <3>1, SubmissionRecord DEF SubmitPublish
    <3>2. CASE ReplayPublish(r)
      <4>1. req[r].do = "replayPublish" BY <3>2 DEF ReplayPublish
      <4> QED BY <1>0, <3>2, <4>1, ReplayRow, ReplayRecord DEF ReplayPublish
    <3> QED BY <1>9, <3>1, <3>2
  <2>2. Len(log'[<<Main, q>>]) = Len(log[<<Main, q>>]) + 1 /\ Len(log[<<Main, q>>]) \in Nat
    BY <1>0, <2>1, ProduceGrows DEF LogType
  <2> QED BY <2>2
<1> QED BY <1>3, <1>4, <1>5, <1>6, <1>7, <1>8, <1>9 DEF Submission, Replay

\* A request publishes the task it reserved, or publishes nothing.
LEMMA OneRequest ==
    ASSUME TaskInv, OneNow, NEW r \in Request, Submission(r) \/ Replay(r)
    PROVE  OneNow' /\ StandsStay
<1>0. /\ RecordInv /\ LogType /\ LedgerGrows /\ UNCHANGED <<pc, job, mine, verdict, handled, pos>>
      /\ PositionInv /\ JobsExist
  BY SubmissionGrows, ReplayGrows, RequestsOnly, RequestsKeepPositions DEF TaskInv, RecordInv, Grows
<1>1. \A u \in Worker : (Leaving(u)' <=> Leaving(u)) /\ KeyOf(u)' = KeyOf(u) /\ (Settled(u)' <=> Settled(u))
  BY <1>0 DEF Leaving, KeyOf, Settled
<1>2. InTurn'
  <2>1. InTurn /\ \A p, o : Handled(p, o)' <=> Handled(p, o) BY <1>0 DEF OneNow, Handled
  <2> QED BY <1>0, <2>1 DEF InTurn
<1>3. \A w \in Worker : Alone(w)' BY <1>0, <1>1 DEF OneNow, Alone
<1>4. CASE UNCHANGED log
  <2>1. \A k, t, o : Stands(k, t, o)' <=> Stands(k, t, o) BY <1>0, <1>1, <1>4, StandsSame
  <2>2. ASSUME NEW k \in Keys PROVE OneTask(k)'
    <3>1. PICK y : /\ req' = [req EXCEPT ![r] = y]
                   /\ \/ (Asks(r, k)' => Asks(r, k)) /\ active'[k] = active[k]
                      \/ Asks(r, k) /\ ~Asks(r, k)'
                      \/ ~active[k] /\ active'[k]
      BY <1>4, RequestAsks
    <3>2. OneTask(k) BY DEF OneNow
    <3> QED BY <1>0, <2>1, <3>1, <3>2, OneAsks
  <2>3. \A w \in Worker : Successor(w)' BY <1>0, <1>4, <2>1 DEF OneNow, Successor, KeyOf, Rec
  <2> QED BY <1>2, <1>3, <2>1, <2>2, <2>3 DEF OneNow, StandsStay
<1>5. CASE log' # log
  <2>1. PICK q \in Keys, x \in Record :
              /\ Asks(r, q) /\ Produce(<<Main, q>>, x) /\ UNCHANGED active
              /\ \E y : req' = [req EXCEPT ![r] = y] /\ y.do \in {"done", "replayMark"}
    BY <1>5, RequestPublishes
  <2>2. req'[r].do \in {"done", "replayMark"} /\ \A s \in Request \ {r} : req'[s] = req[s]
    BY <1>0, <2>1 DEF LogType
  <2>3. /\ \A k : ~Asks(r, k)'
        /\ \A k : \A s \in Request : Asks(s, k)' => s # r /\ Asks(s, k)
    BY <1>0, <2>2, SameAsks DEF Asks
  <2> DEFINE n == Len(log[<<Main, q>>]) + 1
  <2>4. Main \in Topic BY DEF Topic
  <2>5. /\ \A k \in Keys : \A t, o : Waiting(k, t, o)' <=> Waiting(k, t, o) \/ (k = q /\ t = Main /\ o = n)
        /\ \A k \in Keys : \A t, o : Waiting(k, t, o) => log'[<<t, k>>][o] = log[<<t, k>>][o]
        /\ \A u \in Worker : pc[u] # "idle" => Rec(u)' = Rec(u)
        /\ \A u \in Worker : pc[u] # "idle" => job[u].part # <<Main, q>> \/ job[u].off # n
    BY <1>0, <2>1, <2>4, ProduceStands DEF Rec
  <2> HIDE DEF n
  <2>6. \A k \in Keys : \A t, o : Stands(k, t, o)' <=> Stands(k, t, o) \/ (k = q /\ t = Main /\ o = n)
    BY <1>0, <1>1, <2>5 DEF Stands, Leaving
  <2>7. ASSUME NEW k \in Keys PROVE OneTask(k)'
    <3>0. OneTask(k) BY DEF OneNow
    <3>1. CASE k # q BY <2>1, <2>3, <2>6, <3>0, <3>1, OneKept
    <3>2. CASE k = q
      <4>1. \A s \in Request : ~Asks(s, k)' BY <2>1, <2>3, <3>0, <3>2 DEF OneTask
      <4>2. \A t, o : Stands(k, t, o)' => t = Main /\ o = n BY <2>1, <2>6, <3>0, <3>2 DEF OneTask
      <4>3. active'[k] BY <2>1, <3>0, <3>2 DEF OneTask
      <4> QED BY <4>1, <4>2, <4>3 DEF OneTask
    <3> QED BY <3>1, <3>2
  <2>8. ASSUME NEW w \in Worker PROVE Successor(w)'
    <3> SUFFICES ASSUME pc[w] = "settle", verdict[w] = "retry"
                 PROVE  \E t, o : /\ Stands(KeyOf(w), t, o)'
                                  /\ log'[<<t, KeyOf(w)>>][o].media = Rec(w)'.media
      BY <1>0, <1>1 DEF Successor
    <3>1. PICK t, o : Stands(KeyOf(w), t, o) /\ log[<<t, KeyOf(w)>>][o].media = Rec(w).media
      BY DEF OneNow, Successor
    <3>2. KeyOf(w) \in Keys BY <1>0, WorkerRecord
    <3>3. Stands(KeyOf(w), t, o)' BY <1>1, <2>6, <3>1, <3>2
    <3>4. log'[<<t, KeyOf(w)>>][o] = log[<<t, KeyOf(w)>>][o] BY <2>5, <3>1, <3>2 DEF Stands
    <3>5. Rec(w)' = Rec(w) BY <2>5
    <3> QED BY <3>1, <3>3, <3>4, <3>5
  <2> QED BY <1>2, <1>3, <2>6, <2>7, <2>8 DEF OneNow, StandsStay
<1> QED BY <1>4, <1>5

-----------------------------------------------------------------------------
(* One task per key: steps of workers *)

\* Nothing is skipped: whoever has the lock would be the second to work on the key.
LEMMA OneTryLock ==
    ASSUME TaskInv, OneNow, NEW w \in Worker, TryLock(w) \/ TryLockOrphaned(w)
    PROVE  OneNow' /\ StandsStay
<1>0. /\ PositionInv /\ LogType /\ LockInv /\ ~Spend("lock") /\ JobsExist
  BY SparedFaults DEF TaskInv, RecordInv, Losing
<1>1. /\ pc[w] = "lock" /\ UNCHANGED <<log, ledger, req, active, pos, mine>> /\ LedgerGrows /\ ~Leaving(w)
  BY <1>0, TryLockMoves, HandleKeeps, SameGrows DEF Handle, Leaving
<1>2. CASE Moves(w, "process", verdict[w]) /\ UNCHANGED handled BY <1>1, <1>2, OneWorks
<1>3. CASE Moves(w, "route", "transient") /\ UNCHANGED handled BY <1>1, <1>3, OneWorks
<1>4. CASE lock[KeyOf(w)] # Free
  <2>1. KeyOf(w) \in Keys BY <1>0, <1>1, WorkerRecord
  <2>2. PICK u \in Worker : u = lock[KeyOf(w)] /\ pc[u] \in Critical /\ KeyOf(u) = KeyOf(w)
    BY <1>0, <1>4, <2>1 DEF LockInv
  <2>3. pc[u] \notin {"idle", "commit", "lock"} BY <2>2 DEF Critical
  <2>4. u = w \/ pc[u] = "commit" BY <1>1, <2>2, <2>3, WorksAlone
  <2> QED BY <1>1, <2>3, <2>4
<1> QED BY <1>0, <1>2, <1>3, <1>4, TryLockMoves

\* process, and a record that is given up on.
LEMMA OneProcess ==
    ASSUME TaskInv, OneNow, NEW w \in Worker,
           \/ CheckMedia(w) \/ BeginRevision(w) \/ TryReuse(w) \/ AsyncAnalyze(w)
           \/ Run(w) \/ Conclude(w) \/ CallFails(w) \/ DeadLetter(w)
    PROVE  OneNow' /\ StandsStay
<1>0. /\ PositionInv /\ LogType /\ UNCHANGED <<pos, mine>> /\ JobsExist
  BY HandleKeeps DEF TaskInv, RecordInv, Handle
<1>1. CASE DeadLetter(w)
  <2>1. /\ pc[w] = "route" /\ Moves(w, "settle", "dlq") /\ UNCHANGED <<log, req, handled, active>>
        /\ RecordFailure(Rec(w)) \/ UNCHANGED ledger
    BY <1>1, DeadLetterMoves
  <2>2. Rec(w) \in Record BY <1>0, <2>1, WorkerRecord
  <2>3. LedgerGrows BY <1>0, <2>1, <2>2, SameGrows, RecordGrows
  <2>4. ~Leaving(w) BY <2>1 DEF Leaving
  <2> QED BY <1>0, <2>1, <2>3, <2>4, OneWorks
<1>2. CASE ~DeadLetter(w)
  <2>1. /\ pc[w] \in {"process", "prepare", "analyze", "run", "conclude"}
        /\ UNCHANGED <<log, ledger, req, handled, active>>
    BY <1>0, <1>2, ProcessMoves
  <2>2. PICK l, v : /\ Moves(w, l, v)
                    /\ \/ l \in {"prepare", "analyze", "run", "conclude", "route"}
                       \/ l = "settle" /\ v \in {"gone", "reused", "budget", "success"}
    BY <1>0, <1>2, ProcessMoves
  <2>3. LedgerGrows /\ ~Leaving(w) BY <1>0, <2>1, SameGrows DEF Leaving
  <2> QED BY <1>0, <2>1, <2>2, <2>3, OneWorks
<1> QED BY <1>1, <1>2

\* The record that is forwarded stands for the task from now on.
LEMMA OneForward ==
    ASSUME TaskInv, Plain, OneNow, NEW w \in Worker, ForwardRetry(w)
    PROVE  OneNow' /\ StandsBut(w) /\ Forwarded(w)
<1>0. /\ RecordInv /\ PositionInv /\ LogType /\ UNCHANGED <<pos, mine>> /\ JobsExist
  BY HandleKeeps DEF TaskInv, RecordInv, Handle
<1>1. /\ pc[w] = "route" /\ Moves(w, "settle", "retry") /\ Route(w) # DLQ
      /\ Produce(<<Route(w), KeyOf(w)>>, NextAttempt(Rec(w)))
      /\ UNCHANGED <<ledger, req, handled, active>>
  BY ForwardMoves
<1>2. PICK q \in Keys, t0 \in Topic, x \in Record, n \in Nat :
          /\ q = KeyOf(w) /\ x.media = Rec(w).media /\ Produce(<<t0, q>>, x)
          /\ n = Len(log[<<t0, q>>]) + 1
  <2>1. /\ KeyOf(w) \in Keys /\ NextAttempt(Rec(w)) \in Record /\ Route(w) \in Topic
        /\ <<Route(w), KeyOf(w)>> \in Partition
    BY <1>0, <1>1, ForwardedRecord, WorkerRecord
  <2>2. Len(log[<<Route(w), KeyOf(w)>>]) \in Nat BY <1>0, <2>1 DEF LogType
  <2> DEFINE y == NextAttempt(Rec(w))
             u == Route(w)
             k == KeyOf(w)
  <2>3. /\ k = KeyOf(w) /\ y.media = Rec(w).media /\ Produce(<<u, k>>, y)
        /\ Len(log[<<u, k>>]) + 1 \in Nat /\ k \in Keys /\ u \in Topic /\ y \in Record
    BY <1>1, <2>1, <2>2, ForwardFiled
  <2> HIDE DEF y, u, k
  <2> QED BY <2>3
<1>3. /\ UNCHANGED job /\ pc'[w] = "settle" /\ verdict'[w] = "retry"
      /\ \A u \in Worker \ {w} : pc'[u] = pc[u] /\ verdict'[u] = verdict[u]
  BY <1>0, <1>1 DEF PositionInv, PositionType, Moves
<1>4. /\ Stands(q, job[w].part[1], job[w].off) /\ q \in Keys
      /\ job[w].part = <<job[w].part[1], q>> /\ OneTask(q)
  BY <1>1, <1>2, HasStanding DEF OneNow, Leaving
<1>5. LedgerGrows BY <1>0, <1>1, SameGrows
<1>7. UNCHANGED <<job, pos, mine, handled, req, active>> BY <1>0, <1>1, <1>3
<1>6. /\ Waiting(q, t0, n)' /\ log'[<<t0, q>>][n] = x
      /\ \A k \in Keys : \A t, o : Waiting(k, t, o)' <=> Waiting(k, t, o) \/ (k = q /\ t = t0 /\ o = n)
      /\ \A k \in Keys : \A t, o : Waiting(k, t, o) => log'[<<t, k>>][o] = log[<<t, k>>][o]
      /\ \A u \in Worker : pc[u] # "idle" => Rec(u)' = Rec(u)
      /\ \A u \in Worker : pc[u] # "idle" => job[u].part # <<t0, q>> \/ job[u].off # n
  BY <1>0, <1>2, <1>7, ProduceStands DEF Rec
<1>8. /\ Leaving(w)' /\ ~Leaving(w) /\ \A u \in Worker \ {w} : Leaving(u)' <=> Leaving(u)
  BY <1>1, <1>3 DEF Leaving
<1>9. \A u \in Worker : /\ pc'[u] = "idle" <=> pc[u] = "idle"
                        /\ pc'[u] = "commit" <=> pc[u] = "commit"
  BY <1>1, <1>3
<1>10. InTurn' BY <1>7, <1>9 DEF OneNow, InTurn, Handled
<1>11. \A k \in Keys : \A t, o : Stands(k, t, o)' =>
          \/ k = q /\ t = t0 /\ o = n
          \/ Stands(k, t, o) /\ ~(<<t, k>> = job[w].part /\ o = job[w].off)
  BY <1>3, <1>6, <1>8 DEF Stands
<1>12. Stands(q, t0, n)'
  <2>1. \A u \in Worker : Leaving(u)' => pc[u] # "idle" BY <1>1, <1>8 DEF Leaving
  <2>2. \A u \in Worker : Leaving(u)' => ~(job'[u].part = <<t0, q>> /\ job'[u].off = n)
    BY <1>3, <1>6, <2>1
  <2> QED BY <1>6, <2>2 DEF Stands
<1>13. \A k \in Keys : \A t, o : Stands(k, t, o) /\ k # q => Stands(k, t, o)'
  <2>1. \A k, t : k # q => <<t, k>> # job[w].part BY <1>4
  <2> QED BY <1>3, <1>6, <1>8, <2>1 DEF Stands
<1>14. ASSUME NEW k \in Keys PROVE OneTask(k)'
  <2>0. OneTask(k) BY DEF OneNow
  <2>1. \A r \in Request : Asks(r, k)' <=> Asks(r, k) BY <1>0, <1>5, <1>7, SameAsks
  <2>2. CASE k # q BY <1>7, <1>11, <2>0, <2>1, <2>2, OneKept
  <2>3. CASE k = q
    <3>1. \A r \in Request : ~Asks(r, k)' BY <1>4, <2>0, <2>1, <2>3 DEF OneTask
    <3>2. \A t, o : Stands(k, t, o)' => t = t0 /\ o = n
      BY <1>4, <1>11, <2>0, <2>3 DEF OneTask
    <3>3. active'[k] BY <1>4, <1>7, <2>0, <2>3 DEF OneTask
    <3> QED BY <3>1, <3>2, <3>3 DEF OneTask
  <2> QED BY <2>2, <2>3
<1>15. \A u \in Worker : pc[u] # "idle" /\ KeyOf(u) = q => u = w \/ pc[u] = "commit"
  BY <1>1, <1>2, <1>8, WorksAlone
<1>16. \A u \in Worker : KeyOf(u)' = KeyOf(u) BY <1>3 DEF KeyOf
<1>17. ASSUME NEW u \in Worker PROVE Successor(u)'
  <2>1. CASE u = w
    <3>1. KeyOf(u)' = q /\ Rec(u)' = Rec(w) BY <1>1, <1>2, <1>6, <1>16, <2>1
    <3>2. Stands(KeyOf(u), t0, n)' BY <1>12, <3>1
    <3>3. log'[<<t0, KeyOf(u)'>>][n].media = Rec(u)'.media BY <1>2, <1>6, <3>1
    <3> QED BY <3>2, <3>3 DEF Successor
  <2>2. CASE u # w
    <3> SUFFICES ASSUME pc[u] = "settle", verdict[u] = "retry"
                 PROVE  \E t, o : /\ Stands(KeyOf(u), t, o)'
                                  /\ log'[<<t, KeyOf(u)>>][o].media = Rec(u)'.media
      BY <1>3, <1>16, <2>2 DEF Successor
    <3>1. PICK t, o : Stands(KeyOf(u), t, o) /\ log[<<t, KeyOf(u)>>][o].media = Rec(u).media
      BY DEF OneNow, Successor
    <3>2. KeyOf(u) \in Keys /\ KeyOf(u) # q BY <1>0, <1>15, <2>2, WorkerRecord
    <3>3. Stands(KeyOf(u), t, o)' BY <1>13, <1>16, <3>1, <3>2
    <3>4. log'[<<t, KeyOf(u)>>][o] = log[<<t, KeyOf(u)>>][o] BY <1>6, <3>1, <3>2 DEF Stands
    <3>5. Rec(u)' = Rec(u) BY <1>6
    <3> QED BY <3>1, <3>3, <3>4, <3>5
  <2> QED BY <2>1, <2>2
<1>18. ASSUME NEW u \in Worker PROVE Alone(u)'
  <2>1. CASE u = w BY <1>2, <1>9, <1>15, <1>16, <2>1 DEF Alone
  <2>2. CASE u # w
    <3>1. Alone(u) /\ (Settled(u)' <=> Settled(u)) BY <1>3, <2>2 DEF OneNow, Settled
    <3> QED BY <1>9, <1>16, <3>1 DEF Alone
  <2> QED BY <2>1, <2>2
<1>19. StandsBut(w) BY <1>3, <1>6, <1>8 DEF Stands, StandsBut
<1>20. Forwarded(w)
  <2>1. \A u \in Worker : pc'[u] # "idle" => ~(job'[u].part = <<t0, q>> /\ job'[u].off = n)
    BY <1>3, <1>6, <1>9
  <2>2. log'[<<t0, q>>][n].media = Rec(w).media /\ q = KeyOf(w) BY <1>2, <1>6
  <2>3. /\ q = KeyOf(w) /\ Stands(q, t0, n)' /\ log'[<<t0, q>>][n].media = Rec(w).media
        /\ \A u \in Worker : pc'[u] # "idle" => ~(job'[u].part = <<t0, q>> /\ job'[u].off = n)
    BY <1>12, <2>1, <2>2
  <2>4. \E t, o : /\ q = KeyOf(w) /\ Stands(q, t, o)' /\ log'[<<t, q>>][o].media = Rec(w).media
                  /\ \A u \in Worker : pc'[u] # "idle" => ~(job'[u].part = <<t, q>> /\ job'[u].off = o)
    BY <2>3
  <2> QED BY <2>4 DEF Forwarded
<1> QED BY <1>10, <1>14, <1>17, <1>18, <1>19, <1>20 DEF OneNow

\* The marker goes with the last record that stands for the task, and stays with a retry.
LEMMA OneSettle ==
    ASSUME TaskInv, OneNow, NEW w \in Worker, Settle(w)
    PROVE  OneNow' /\ StandsBut(w) /\ (verdict[w] = "retry" => StandsStay)
<1>0. /\ PositionInv /\ LogType /\ UNCHANGED <<pos, mine>> /\ JobsExist /\ ~Spend("marker") /\ TaskType
  BY HandleKeeps, SparedFaults DEF TaskInv, RecordInv, Handle, Losing
<1>1. /\ pc[w] = "settle" /\ Moves(w, "unlock", verdict[w])
      /\ UNCHANGED <<log, ledger, req, handled>>
      /\ \/ verdict[w] = "retry" /\ UNCHANGED active
         \/ verdict[w] # "retry" /\ Release(KeyOf(w))
  BY <1>0, SettleMoves
<1>2. /\ UNCHANGED job /\ pc'[w] = "unlock"
      /\ \A u \in Worker \ {w} : pc'[u] = pc[u] /\ verdict'[u] = verdict[u]
  BY <1>0, <1>1 DEF PositionInv, PositionType, Moves
<1>3. PICK q \in Keys : q = KeyOf(w) BY <1>0, <1>1, WorkerRecord
<1>4. \A u \in Worker : /\ pc'[u] = "idle" <=> pc[u] = "idle"
                        /\ pc'[u] = "commit" <=> pc[u] = "commit"
                        /\ KeyOf(u)' = KeyOf(u) /\ (Settled(u)' <=> Settled(u)) /\ Rec(u)' = Rec(u)
  BY <1>1, <1>2 DEF KeyOf, Settled, Rec
<1>5. InTurn'
  <2>1. InTurn /\ \A p, o : Handled(p, o)' <=> Handled(p, o) BY <1>1 DEF OneNow, Handled
  <2> QED BY <1>0, <1>2, <1>4, <2>1 DEF InTurn
<1>6. Leaving(w)' /\ \A u \in Worker \ {w} : Leaving(u)' <=> Leaving(u) BY <1>2 DEF Leaving
<1>7. \A k, t, o : Stands(k, t, o)' => Stands(k, t, o) /\ ~(<<t, k>> = job[w].part /\ o = job[w].off)
  BY <1>1, <1>2, <1>6 DEF Stands, Waiting, Handled
<1>8. \A k, t, o : Stands(k, t, o) /\ k # q => Stands(k, t, o)'
  <2>1. \A k, t : k # q => <<t, k>> # job[w].part BY <1>3 DEF KeyOf
  <2> QED BY <1>1, <1>2, <1>6, <2>1 DEF Stands, Waiting, Handled
<1>9. ASSUME NEW k \in Keys PROVE OneTask(k)'
  <2>0. OneTask(k) BY DEF OneNow
  <2>1. LedgerGrows BY <1>0, <1>1, SameGrows
  <2>2. \A r \in Request : Asks(r, k)' <=> Asks(r, k) BY <1>0, <1>1, <2>1, SameAsks
  <2>3. CASE k # q \/ verdict[w] = "retry"
    <3>1. active'[k] = active[k] BY <1>0, <1>1, <1>3, <2>3 DEF TaskType, Release
    <3> QED BY <1>7, <2>0, <2>2, <3>1, OneKept
  <2>4. CASE k = q /\ verdict[w] # "retry"
    <3>1. /\ Stands(k, job[w].part[1], job[w].off) /\ job[w].part = <<job[w].part[1], k>>
      BY <1>1, <1>3, <2>4, HasStanding DEF Leaving
    <3>2. \A r \in Request : ~Asks(r, k)' BY <2>0, <2>2, <3>1 DEF OneTask
    <3>3. \A t, o : ~Stands(k, t, o)' BY <1>7, <2>0, <3>1 DEF OneTask
    <3> QED BY <2>0, <3>2, <3>3, OneKept
  <2> QED BY <2>3, <2>4
<1>10. Alone(w) BY DEF OneNow
<1>11. ASSUME NEW u \in Worker PROVE Successor(u)'
  <2>1. CASE u = w BY <1>2, <2>1 DEF Successor
  <2>2. CASE u # w
    <3> SUFFICES ASSUME pc[u] = "settle", verdict[u] = "retry"
                 PROVE  \E t, o : /\ Stands(KeyOf(u), t, o)'
                                  /\ log'[<<t, KeyOf(u)>>][o].media = Rec(u)'.media
      BY <1>2, <1>4, <2>2 DEF Successor
    <3>1. PICK t, o : Stands(KeyOf(u), t, o) /\ log[<<t, KeyOf(u)>>][o].media = Rec(u).media
      BY DEF OneNow, Successor
    <3>2. KeyOf(u) # q BY <1>1, <1>3, <1>10, <2>2 DEF Alone, Settled
    <3>3. Stands(KeyOf(u), t, o)' BY <1>4, <1>8, <3>1, <3>2
    <3> QED BY <1>1, <1>4, <3>1, <3>3
  <2> QED BY <2>1, <2>2
<1>12. ASSUME NEW u \in Worker PROVE Alone(u)'
  <2>1. Alone(u) BY DEF OneNow
  <2> QED BY <1>4, <2>1 DEF Alone
<1>13. StandsBut(w) BY <1>1, <1>2, <1>6 DEF Stands, StandsBut, Waiting, Handled
<1>14. verdict[w] = "retry" => Leaving(w) BY <1>1 DEF Leaving
<1>15. verdict[w] = "retry" => StandsStay
  BY <1>1, <1>2, <1>6, <1>14 DEF Stands, StandsStay, Waiting, Handled
<1> QED BY <1>5, <1>9, <1>11, <1>12, <1>13, <1>15 DEF OneNow

\* The worker's record, which stood for nothing any more, is handled.
LEMMA OneUnlock ==
    ASSUME TaskInv, Plain, OneNow, NEW w \in Worker, Unlock(w)
    PROVE  OneNow' /\ StandsStay
<1>0. /\ PositionInv /\ LogType /\ UNCHANGED <<pos, mine>> /\ JobsExist
  BY HandleKeeps DEF TaskInv, RecordInv, Handle
<1>1. /\ pc[w] = "unlock" /\ Moves(w, "commit", verdict[w]) /\ Finish(w, verdict[w])
      /\ UNCHANGED <<log, ledger, req, active>>
  <2>1. pc[w] = "unlock" BY DEF Unlock
  <2>2. verdict[w] # "redeliver" BY <2>1 DEF Plain, Settled, Ended
  <2> QED BY <1>0, <2>2, UnlockMoves
<1>2. /\ UNCHANGED job /\ pc'[w] = "commit"
      /\ \A u \in Worker \ {w} : pc'[u] = pc[u] /\ verdict'[u] = verdict[u]
  BY <1>0, <1>1 DEF PositionInv, PositionType, Moves
<1>3. verdict[w] \in Outcome BY <1>1 DEF Plain, Settled, Ended, Outcome
<1>4. \A p, o : Handled(p, o)' <=> Handled(p, o) \/ (p = job[w].part /\ o = job[w].off)
  BY <1>1, <1>3 DEF Handled, Finish
<1>5. \A u \in Worker : KeyOf(u)' = KeyOf(u) /\ Rec(u)' = Rec(u) BY <1>1, <1>2 DEF KeyOf, Rec
<1>6. InTurn'
  <2>1. \A u \in Worker : /\ pc'[u] # "idle" => pc[u] # "idle"
                          /\ pc[u] = "commit" => pc'[u] = "commit"
    BY <1>1, <1>2
  <2>2. InTurn BY DEF OneNow
  <2>3. /\ \A u \in Worker : pc'[u] # "idle" => mine'[u] /\ job'[u].off = pos'[job'[u].part] + 1
        /\ \A u, v \in Worker : pc'[u] # "idle" /\ pc'[v] # "idle" /\ job'[u].part = job'[v].part => u = v
    BY <1>0, <1>2, <2>1, <2>2 DEF InTurn
  <2>4. ASSUME NEW p \in Partition, NEW o \in Nat, Handled(p, o)'
        PROVE  o <= pos'[p] \/ \E u \in Worker : pc'[u] = "commit" /\ job'[u].part = p /\ job'[u].off = o
    BY <1>0, <1>2, <1>4, <2>1, <2>2, <2>4 DEF InTurn
  <2> QED BY <2>3, <2>4 DEF InTurn
<1>7. Leaving(w) /\ ~Leaving(w)' /\ \A u \in Worker \ {w} : Leaving(u)' <=> Leaving(u)
  BY <1>1, <1>2 DEF Leaving
<1>8. \A k, t, o : Stands(k, t, o)' <=> Stands(k, t, o)
  BY <1>1, <1>2, <1>4, <1>7 DEF Stands, Waiting
<1>9. ASSUME NEW k \in Keys PROVE OneTask(k)'
  <2>0. OneTask(k) BY DEF OneNow
  <2>1. LedgerGrows BY <1>0, <1>1, SameGrows
  <2>2. \A r \in Request : Asks(r, k)' <=> Asks(r, k) BY <1>0, <1>1, <2>1, SameAsks
  <2> QED BY <1>1, <1>8, <2>0, <2>2, OneKept
<1>10. ASSUME NEW u \in Worker PROVE Successor(u)' /\ Alone(u)'
  <2>0. Successor(u) /\ Alone(u) BY DEF OneNow
  <2>1. CASE u = w BY <1>2, <2>1 DEF Successor, Alone, Settled
  <2>2. CASE u # w
    <3>1. Successor(u)' BY <1>1, <1>2, <1>5, <1>8, <2>0, <2>2 DEF Successor
    <3>2. Alone(u)' BY <1>1, <1>2, <1>5, <2>0, <2>2 DEF Alone, Settled
    <3> QED BY <3>1, <3>2
  <2> QED BY <2>1, <2>2
<1> QED BY <1>6, <1>8, <1>9, <1>10 DEF OneNow, StandsStay

\* The owner takes the next record, of a key that no worker has settled but not unlocked.
LEMMA OneDeliver ==
    ASSUME TaskInv, OneNow, Topic \subseteq PromptUnlock,
           NEW w \in Worker, NEW p \in Partition, Deliver(w, p), DOMAIN mine = Worker
    PROVE  OneNow' /\ StandsStay
<1> DEFINE j == [part |-> p, off |-> pos[p] + 1]
           l == FirstStep(log[p][pos[p] + 1])
<1>0. /\ PositionInv /\ LogType BY DEF TaskInv, RecordInv
<1>1. /\ pc[w] = "idle" /\ UNCHANGED <<log, ledger, req, handled, verdict, active, pos>>
      /\ job' = [job EXCEPT ![w] = j] /\ pc' = [pc EXCEPT ![w] = l]
      /\ \A v \in Worker : ~(mine[v] /\ job[v].part = p)
      /\ \A v \in Worker : Settled(v) => KeyOf(v) # p[2]
      /\ mine' = [mine EXCEPT ![w] = TRUE]
  <2>1. p[1] \in PromptUnlock BY DEF Partition
  <2> QED BY <2>1 DEF Deliver, Goto, kafkaVars, failVars, redisVars
<1>2. l \in {"poison", "lock"} /\ j.part = p /\ j.off = pos[p] + 1 BY DEF FirstStep
<1> HIDE DEF j, l
<1>3. /\ pc'[w] = l /\ job'[w] = j
      /\ \A u \in Worker \ {w} : pc'[u] = pc[u] /\ job'[u] = job[u]
  BY <1>0, <1>1 DEF PositionInv, PositionType
<1>4. InTurn BY DEF OneNow
<1>5. InTurn'
  <2>0. \A q, o : Handled(q, o)' <=> Handled(q, o) BY <1>1 DEF Handled
  <2>1. ASSUME NEW u \in Worker, pc'[u] # "idle"
        PROVE  mine'[u] /\ job'[u].off = pos'[job'[u].part] + 1
    <3>1. CASE u = w
      BY <1>1, <1>2, <1>3, <3>1
    <3>2. CASE u # w
      <4>1. mine[u] /\ job[u].off = pos[job[u].part] + 1 BY <1>3, <1>4, <2>1, <3>2 DEF InTurn
      <4> QED BY <1>1, <1>3, <3>2, <4>1
    <3> QED BY <3>1, <3>2
  <2>2. ASSUME NEW u \in Worker, NEW v \in Worker, pc'[u] # "idle", pc'[v] # "idle",
               job'[u].part = job'[v].part
        PROVE  u = v
    <3>1. \A x \in Worker \ {w} : pc[x] # "idle" => job[x].part # p BY <1>1, <1>4 DEF InTurn
    <3> QED BY <1>2, <1>3, <1>4, <2>2, <3>1 DEF InTurn
  <2>3. ASSUME NEW q \in Partition, NEW o \in Nat, Handled(q, o)'
        PROVE  o <= pos'[q] \/ \E u \in Worker : pc'[u] = "commit" /\ job'[u].part = q /\ job'[u].off = o
    <3>1. o <= pos[q] \/ \E u \in Worker : pc[u] = "commit" /\ job[u].part = q /\ job[u].off = o
      BY <1>4, <2>0, <2>3 DEF InTurn
    <3> QED BY <1>1, <1>3, <3>1
  <2> QED BY <2>1, <2>2, <2>3 DEF InTurn
<1>6. \A u \in Worker : /\ Leaving(u)' <=> Leaving(u)
                        /\ Settled(u)' <=> Settled(u)
                        /\ Settled(u) => u # w
  BY <1>1, <1>2, <1>3 DEF Leaving, Settled
<1>7. \A k, t, o : Stands(k, t, o)' <=> Stands(k, t, o)
  <2>1. \A u \in Worker : Leaving(u) => u # w BY <1>1 DEF Leaving
  <2>2. \A u \in Worker : Leaving(u) => job'[u] = job[u] BY <1>3, <2>1
  <2>3. \A k, t, o : Waiting(k, t, o)' <=> Waiting(k, t, o) BY <1>1 DEF Waiting, Handled
  <2> QED BY <1>6, <2>2, <2>3 DEF Stands
<1>8. ASSUME NEW k \in Keys PROVE OneTask(k)'
  <2>0. OneTask(k) BY DEF OneNow
  <2>1. LedgerGrows BY <1>0, <1>1, SameGrows
  <2>2. \A r \in Request : Asks(r, k)' <=> Asks(r, k) BY <1>0, <1>1, <2>1, SameAsks
  <2> QED BY <1>1, <1>7, <2>0, <2>2, OneKept
<1>9. ASSUME NEW u \in Worker PROVE Successor(u)'
  <2>0. Successor(u) BY DEF OneNow
  <2>1. CASE u = w BY <1>2, <1>3, <2>1 DEF Successor
  <2>2. CASE u # w
    <3>1. KeyOf(u)' = KeyOf(u) /\ Rec(u)' = Rec(u) BY <1>1, <1>3, <2>2 DEF KeyOf, Rec
    <3> QED BY <1>1, <1>3, <1>7, <2>0, <2>2, <3>1 DEF Successor
  <2> QED BY <2>1, <2>2
<1>10. ASSUME NEW u \in Worker PROVE Alone(u)'
  <2> SUFFICES ASSUME Settled(u)', NEW v \in Worker, pc'[v] # "idle", KeyOf(v)' = KeyOf(u)'
               PROVE  v = u \/ pc'[v] = "commit"
    BY DEF Alone
  <2>1. Settled(u) /\ u # w /\ Alone(u) BY <1>6 DEF OneNow
  <2>2. KeyOf(u)' = KeyOf(u) BY <1>3, <2>1 DEF KeyOf
  <2>3. CASE v = w BY <1>1, <1>2, <1>3, <2>1, <2>2, <2>3 DEF KeyOf
  <2>4. CASE v # w BY <1>3, <2>1, <2>2, <2>4 DEF Alone, KeyOf
  <2> QED BY <2>3, <2>4
<1> QED BY <1>5, <1>7, <1>8, <1>9, <1>10 DEF OneNow, StandsStay

\* The owner moves on.
LEMMA OneCommit ==
    ASSUME TaskInv, OneNow, NEW w \in Worker, Commit(w), DOMAIN mine = Worker
    PROVE  OneNow' /\ StandsStay
<1>0. /\ PositionInv /\ LogType /\ JobsExist BY DEF TaskInv, RecordInv
<1>1. /\ pc[w] = "commit" /\ Rest(w) /\ UNCHANGED <<log, ledger, req, handled, active>>
      /\ pos' = IF mine[w] THEN [pos EXCEPT ![job[w].part] = job[w].off] ELSE pos
  BY DEF Commit, failVars, redisVars
<1>2. /\ pc'[w] = "idle"
      /\ \A u \in Worker \ {w} : /\ pc'[u] = pc[u] /\ job'[u] = job[u] /\ verdict'[u] = verdict[u]
                                 /\ mine'[u] = mine[u]
  BY <1>0, <1>1 DEF PositionInv, PositionType, Rest, Return, Goto
<1>3. /\ job[w].part \in Partition /\ mine[w] /\ job[w].off = pos[job[w].part] + 1 /\ InTurn
      /\ pos[job[w].part] \in Nat /\ pos \in [Partition -> Nat]
  BY <1>0, <1>1, WorkerRecord DEF OneNow, InTurn, PositionInv, PositionType
<1>4. /\ pos'[job[w].part] = job[w].off /\ \A p \in Partition : p # job[w].part => pos'[p] = pos[p]
  BY <1>1, <1>3
<1>5. InTurn'
  <2>0. \A q, o : Handled(q, o)' <=> Handled(q, o) BY <1>1 DEF Handled
  <2>1. ASSUME NEW u \in Worker, pc'[u] # "idle"
        PROVE  mine'[u] /\ job'[u].off = pos'[job'[u].part] + 1
    <3>1. u # w /\ pc[u] # "idle" BY <1>2, <2>1
    <3>2. job[u].part # job[w].part /\ mine[u] /\ job[u].off = pos[job[u].part] + 1
      BY <1>1, <1>3, <3>1 DEF InTurn
    <3>3. job[u].part \in Partition BY <1>0, <3>1, WorkerRecord
    <3> QED BY <1>2, <1>4, <3>1, <3>2, <3>3
  <2>2. \A u, v \in Worker : pc'[u] # "idle" /\ pc'[v] # "idle" /\ job'[u].part = job'[v].part => u = v
    BY <1>2, <1>3 DEF InTurn
  <2>3. ASSUME NEW q \in Partition, NEW o \in Nat, Handled(q, o)'
        PROVE  o <= pos'[q] \/ \E u \in Worker : pc'[u] = "commit" /\ job'[u].part = q /\ job'[u].off = o
    <3>1. o <= pos[q] \/ \E u \in Worker : pc[u] = "commit" /\ job[u].part = q /\ job[u].off = o
      BY <1>3, <2>0, <2>3 DEF InTurn
    <3>2. CASE q = job[w].part
      <4>1. o <= pos[q] \/ o = job[w].off BY <1>1, <1>3, <3>1, <3>2 DEF InTurn
      <4> QED BY <1>3, <1>4, <3>2, <4>1
    <3>3. CASE q # job[w].part BY <1>2, <1>4, <3>1, <3>3
    <3> QED BY <3>2, <3>3
  <2> QED BY <2>1, <2>2, <2>3 DEF InTurn
<1>6. \A u \in Worker : /\ Leaving(u)' <=> Leaving(u)
                        /\ Settled(u)' <=> Settled(u)
                        /\ Settled(u) \/ Leaving(u) => u # w
  BY <1>1, <1>2 DEF Leaving, Settled
<1>7. \A k, t, o : Stands(k, t, o)' <=> Stands(k, t, o)
  <2>1. \A u \in Worker : Leaving(u) => job'[u] = job[u] BY <1>2, <1>6
  <2>2. \A k, t, o : Waiting(k, t, o)' <=> Waiting(k, t, o) BY <1>1 DEF Waiting, Handled
  <2> QED BY <1>6, <2>1, <2>2 DEF Stands
<1>8. ASSUME NEW k \in Keys PROVE OneTask(k)'
  <2>0. OneTask(k) BY DEF OneNow
  <2>1. LedgerGrows BY <1>0, <1>1, SameGrows
  <2>2. \A r \in Request : Asks(r, k)' <=> Asks(r, k) BY <1>0, <1>1, <2>1, SameAsks
  <2> QED BY <1>1, <1>7, <2>0, <2>2, OneKept
<1>9. ASSUME NEW u \in Worker PROVE Successor(u)'
  <2>0. Successor(u) BY DEF OneNow
  <2>1. CASE u = w BY <1>2, <2>1 DEF Successor
  <2>2. CASE u # w
    <3>1. KeyOf(u)' = KeyOf(u) /\ Rec(u)' = Rec(u) BY <1>1, <1>2, <2>2 DEF KeyOf, Rec
    <3> QED BY <1>1, <1>2, <1>7, <2>0, <2>2, <3>1 DEF Successor
  <2> QED BY <2>1, <2>2
<1>10. ASSUME NEW u \in Worker PROVE Alone(u)'
  <2>1. Alone(u) BY DEF OneNow
  <2> QED BY <1>2, <1>6, <2>1 DEF Alone, KeyOf
<1> QED BY <1>5, <1>7, <1>8, <1>9, <1>10 DEF OneNow, StandsStay

LEMMA OneSame ==
    ASSUME OneNow, UNCHANGED <<log, ledger, req, pc, job, mine, verdict, handled, active, pos>>
    PROVE  OneNow' /\ StandsStay
<1>1. \A u \in Worker : (Leaving(u)' <=> Leaving(u)) /\ KeyOf(u)' = KeyOf(u) /\ Rec(u)' = Rec(u)
  BY DEF Leaving, KeyOf, Rec
<1>2. \A k, t, o : Stands(k, t, o)' <=> Stands(k, t, o) BY <1>1, StandsSame
<1>3. InTurn'
  <2>1. InTurn /\ \A p, o : Handled(p, o)' <=> Handled(p, o) BY DEF OneNow, Handled
  <2> QED BY <2>1 DEF InTurn
<1>4. ASSUME NEW k \in Keys PROVE OneTask(k)'
  <2>1. \A r \in Request : Asks(r, k)' <=> Asks(r, k) BY DEF Asks, Key
  <2>2. OneTask(k) BY DEF OneNow
  <2> QED BY <1>2, <2>1, <2>2, OneKept
<1>5. ASSUME NEW u \in Worker PROVE Successor(u)' /\ Alone(u)'
  <2>1. Successor(u) /\ Alone(u) BY DEF OneNow
  <2>2. Successor(u)' BY <1>1, <1>2, <2>1 DEF Successor
  <2>3. Alone(u)' BY <1>1, <2>1 DEF Alone, Settled
  <2> QED BY <2>2, <2>3
<1> QED BY <1>2, <1>3, <1>4, <1>5 DEF OneNow, StandsStay

LEMMA NextOne ==
    ASSUME OneInv, [Next]_vars, Topic \subseteq PromptUnlock
    PROVE  OneInv'
<1>0. TaskInv /\ Plain /\ TaskInv' /\ Plain' BY NextTask, NextPlain DEF OneInv
<1> SUFFICES ASSUME Steady' PROVE OneNow' BY <1>0 DEF OneInv
<1>1. OneNow /\ ~Spend("rebalance") /\ ~Spend("poison") BY <1>0, PlainFaults DEF OneInv
<1>2. CASE \E r \in Request : Submission(r) \/ Replay(r) BY <1>0, <1>1, <1>2, OneRequest
<1>3. ASSUME NEW w \in Worker, Work(w) PROVE OneNow'
  <2>1. CASE \E p \in Partition : Deliver(w, p) BY <1>0, <1>1, <2>1, OneDeliver DEF Plain
  <2>2. CASE Handle(w)
    <3>1. ~RouteFails(w) /\ ~DiscardPoison(w) BY <1>0, <2>2, PlainHandle
    <3> QED BY <1>0, <1>1, <2>2, <3>1, OneTryLock, OneProcess, OneForward, OneSettle, OneUnlock DEF Handle
  <2>3. CASE Redeliver(w) BY <1>0, <2>3 DEF Redeliver, Plain
  <2>4. CASE Commit(w) BY <1>0, <1>1, <2>4, OneCommit DEF Plain
  <2> QED BY <1>3, <2>1, <2>2, <2>3, <2>4 DEF Work
<1>4. CASE Environment
  <2>0. /\ LockInv /\ ~Spend("lock") /\ ~Spend("crash") /\ ~Spend("marker")
    BY <1>0, SparedFaults DEF TaskInv, Losing
  <2>1. CASE \E w \in Worker : LoseLock(w) \/ Crash(w)
    BY <2>0, <2>1, LoseLockMoves DEF LockInv, Crash
  <2>2. CASE \E p \in Partition : Rebalance(p) BY <1>1, <2>2 DEF Rebalance
  <2>3. CASE \E k \in Keys : Lapse(k) \/ OrphanExpires(k) \/ MarkerExpires(k)
    <3>1. PICK k \in Keys : lock[k] = Orphan BY <2>0, <2>3 DEF Lapse, OrphanExpires, MarkerExpires
    <3> QED BY <2>0, <3>1, PipelineAssumption DEF LockInv, Free, Orphan
  <2>4. CASE \E r \in Request : RequestCrash(r) BY <2>0, <2>4 DEF RequestCrash
  <2>5. CASE \E m \in Media : DeleteMedia(m)
    BY <1>1, <2>5, OneSame DEF DeleteMedia, kafkaVars, workerVars, failVars, redisVars
  <2>6. CASE \E m \in Media : ForeignPublish(m) BY <1>1, <2>6 DEF ForeignPublish
  <2> QED BY <1>4, <2>1, <2>2, <2>3, <2>4, <2>5, <2>6 DEF Environment
<1>5. CASE UNCHANGED vars
  BY <1>1, <1>5, OneSame DEF vars, kafkaVars, workerVars, failVars, redisVars
<1> QED BY <1>2, <1>3, <1>4, <1>5 DEF Next

LEMMA OneInit ==
    ASSUME Init, \A x \in Doubling : Budget[x] = 0
    PROVE  OneInv
<1>1. TaskInv BY TaskInit DEF Doubling
<1>2. \A p \in Partition : log[p] = <<>> BY DEF Init
<1>3. \A k \in Keys : \A t, o : ~Stands(k, t, o)
  <2>1. \A k \in Keys : \A t \in Topic : Len(log[<<t, k>>]) = 0 BY <1>2 DEF Partition
  <2> QED BY <2>1 DEF Stands, Waiting
<1>4. Plain
  <2>1. \A p \in Partition : Len(log[p]) = 0 BY <1>2
  <2>2. Budget["poison"] = 0 /\ Budget["rebalance"] \in Nat
    BY PipelineAssumption DEF Doubling, Fault
  <2> QED BY <2>1, <2>2 DEF Init, Plain, Settled
<1>5. InTurn BY DEF Init, InTurn, Handled
<1>6. ASSUME NEW k \in Keys PROVE OneTask(k)
  <2>1. \A r \in Request : ~Asks(r, k) BY DEF Init, Asks
  <2> QED BY <1>3, <2>1 DEF OneTask
<1>7. \A w \in Worker : Successor(w) /\ Alone(w) BY DEF Init, Successor, Alone, Settled
<1> QED BY <1>1, <1>4, <1>5, <1>6, <1>7 DEF OneInv, OneNow

-----------------------------------------------------------------------------
(* The marker stays during retries *)

\* "keep active alive during retries", for any number of partitions, workers and requests,
\* failed analyses, failed calls, deletions and replays: a record that waits in a retry topic is
\* under the active marker of its key, until the worker that has it is about to return, as long as
\* no partition has changed hands.  A crash, a lost acknowledgement, an early expiry or a foreign
\* message takes the marker from under it; TaskInv excludes the other faults in Doubling.
THEOREM RetriesKeepActive ==
    ASSUME \A x \in Doubling : Budget[x] = 0, Topic \subseteq PromptUnlock
    PROVE  Spec => []RetryKeepsActive
<1>1. Init => OneInv BY OneInit
<1>2. OneInv /\ [Next]_vars => OneInv' BY NextOne
<1>3. OneInv => RetryKeepsActive
  <2> SUFFICES ASSUME OneInv, Steady, NEW p \in Partition,
                      NEW o \in committed[p] + 1 .. Len(log[p]), ~Handled(p, o),
                      ~\E w \in Worker : job[w] = [part |-> p, off |-> o] /\ pc[w] = "unlock"
               PROVE  active[p[2]]
    BY DEF RetryKeepsActive, Steady
  <2>0. /\ TaskInv /\ OneNow /\ PositionInv /\ LogType /\ JobsExist
    BY DEF OneInv, TaskInv, RecordInv
  <2>1. /\ p[1] \in Topic /\ p[2] \in Keys /\ p = <<p[1], p[2]>> BY DEF Partition
  <2>2. committed[p] \in Nat /\ Len(log[p]) \in Nat BY <2>0 DEF PositionInv, PositionType, LogType
  <2>3. Waiting(p[2], p[1], o)
    <3>1. o \in 1 .. Len(log[p]) BY <2>2
    <3> QED BY <2>1, <3>1 DEF Waiting
  <2>4. OneTask(p[2]) BY <2>0, <2>1 DEF OneNow
  <2>5. CASE Stands(p[2], p[1], o) BY <2>4, <2>5 DEF OneTask
  <2>6. CASE ~Stands(p[2], p[1], o)
    <3>1. PICK w \in Worker : Leaving(w) /\ job[w].part = p /\ job[w].off = o
      BY <2>1, <2>3, <2>6 DEF Stands
    <3>2. job[w] = [part |-> p, off |-> o] BY <2>0, <3>1 DEF PositionInv, PositionType, Job
    <3>3. pc[w] = "settle" /\ verdict[w] = "retry" BY <3>1, <3>2 DEF Leaving
    <3>4. KeyOf(w) = p[2] BY <3>1 DEF KeyOf
    <3>5. \E t, n : Stands(p[2], t, n) BY <2>0, <3>3, <3>4 DEF OneNow, Successor
    <3> QED BY <2>4, <3>5 DEF OneTask
  <2> QED BY <2>5, <2>6
<1> QED BY <1>1, <1>2, <1>3, PTL DEF Spec

-----------------------------------------------------------------------------
(* Every task ends visibly *)

\* What is open stays open while its record stands and no worker claims it.
LEMMA OpenStays ==
    ASSUME NEW m, LogGrows,
           StandsStay \/ \E w \in Worker : StandsBut(w) /\ (Rec(w).media # m \/ Claims(w)),
           \A w \in Worker : Claims(w)' => (Claims(w) /\ job'[w] = job[w]) \/ Rec(w)'.media # m
    PROVE  Open(m) => Open(m)'
<1> SUFFICES ASSUME Open(m) PROVE Open(m)' OBVIOUS
<1>1. PICK k \in Keys : \E t, o :
          /\ Stands(k, t, o) /\ log[<<t, k>>][o].media = m
          /\ ~\E w \in Worker : Claims(w) /\ job[w].part = <<t, k>> /\ job[w].off = o
  BY DEF Open
<1>2. PICK t, o : /\ Stands(k, t, o) /\ log[<<t, k>>][o].media = m
                  /\ ~\E w \in Worker : Claims(w) /\ job[w].part = <<t, k>> /\ job[w].off = o
  BY <1>1
<1>3. Stands(k, t, o)'
  <2>1. CASE StandsStay BY <1>2, <2>1 DEF StandsStay
  <2>2. ASSUME NEW w \in Worker, StandsBut(w), Rec(w).media # m \/ Claims(w) PROVE Stands(k, t, o)'
    <3>1. ~(job[w].part = <<t, k>> /\ job[w].off = o) BY <1>2, <2>2 DEF Rec
    <3> QED BY <1>2, <2>2, <3>1 DEF StandsBut
  <2> QED BY <2>1, <2>2
<1>4. log'[<<t, k>>][o].media = m BY <1>2 DEF Stands, Waiting, LogGrows, Partition
<1>5. ~\E w \in Worker : Claims(w)' /\ job'[w].part = <<t, k>> /\ job'[w].off = o
  BY <1>2, <1>4 DEF Rec
<1>6. \E u, n : /\ Stands(k, u, n)' /\ log'[<<u, k>>][n].media = m
                /\ ~\E w \in Worker : Claims(w)' /\ job'[w].part = <<u, k>> /\ job'[w].off = n
  BY <1>3, <1>4, <1>5
<1> QED BY <1>6 DEF Open

\* A worker's own record is open as long as the worker does not claim it.
LEMMA OwnIsOpen ==
    ASSUME TaskInv, OneNow, StandsStay, UNCHANGED <<log, job>>, NEW w \in Worker, NEW m, m = Rec(w).media,
           pc[w] \notin {"idle", "commit"}, ~Leaving(w), ~Claims(w)',
           \A u \in Worker \ {w} : Claims(u)' => Claims(u)
    PROVE  Open(m)'
<1>1. PICK k \in Keys, t \in Topic, o \in Nat :
          Stands(k, t, o) /\ job[w].part = <<t, k>> /\ job[w].off = o
  <2>1. /\ Stands(KeyOf(w), job[w].part[1], job[w].off) /\ KeyOf(w) \in Keys
        /\ job[w].part = <<job[w].part[1], KeyOf(w)>>
    BY HasStanding
  <2>2. job[w].part[1] \in Topic /\ job[w].off \in Nat
    BY <2>1 DEF TaskInv, RecordInv, PositionInv, PositionType, Job, Stands, Waiting
  <2> QED BY <2>1, <2>2
<1>2. Stands(k, t, o)' /\ log'[<<t, k>>][o].media = m BY <1>1 DEF StandsStay, Rec
<1>3. ASSUME NEW u \in Worker, Claims(u)', job'[u].part = <<t, k>> PROVE FALSE
  <2>1. u # w /\ Claims(u) BY <1>3
  <2>2. pc[u] # "idle" BY <2>1 DEF Claims
  <2>3. u = w BY <1>1, <1>3, <2>2 DEF OneNow, InTurn
  <2> QED BY <2>1, <2>3
<1>4. \E v, n : /\ Stands(k, v, n)' /\ log'[<<v, k>>][n].media = m
                /\ ~\E u \in Worker : Claims(u)' /\ job'[u].part = <<v, k>> /\ job'[u].off = n
  BY <1>2, <1>3
<1> QED BY <1>4 DEF Open

\* What is published stays the same, unless something is appended.
LEMMA PublishedSame ==
    ASSUME UNCHANGED log, NEW m
    PROVE  Published(m)' => Published(m)
BY DEF Published

LEMMA PublishedNew ==
    ASSUME LogType, NEW p \in Partition, NEW x \in Record, Produce(p, x), NEW m, Published(m)'
    PROVE  Published(m) \/ x.media = m
<1>1. PICK k \in Keys : \E o \in 1 .. Len(log'[<<Main, k>>]) : log'[<<Main, k>>][o].media = m
  BY DEF Published
<1>2. PICK o \in 1 .. Len(log'[<<Main, k>>]) : log'[<<Main, k>>][o].media = m BY <1>1
<1>3. <<Main, k>> \in Partition BY DEF Partition, Topic
<1>4. /\ LogGrows /\ Len(log'[p]) = Len(log[p]) + 1 /\ log'[p][Len(log[p]) + 1] = x
      /\ Len(log[p]) \in Nat
  BY ProduceGrows DEF LogType
<1>5. CASE <<Main, k>> # p
  <2>1. log'[<<Main, k>>] = log[<<Main, k>>] BY <1>3, <1>5 DEF Produce, LogType
  <2> QED BY <1>2, <2>1 DEF Published
<1>6. CASE <<Main, k>> = p
  <2>1. o \in 1 .. Len(log[p]) \/ o = Len(log[p]) + 1 BY <1>2, <1>4, <1>6
  <2>2. CASE o \in 1 .. Len(log[p])
    <3>1. log'[p][o] = log[p][o] BY <1>4, <2>2 DEF LogGrows
    <3> QED BY <1>2, <1>6, <2>2, <3>1 DEF Published
  <2>3. CASE o = Len(log[p]) + 1 BY <1>2, <1>4, <1>6, <2>3
  <2> QED BY <2>1, <2>2, <2>3
<1> QED BY <1>5, <1>6

\* Handle's own work shows on the media of its record only; a worker that claims it has shown
\* something, or changes nothing that is shown.
LEMMA ProcessShows ==
    ASSUME TaskInv, EndType, NEW w \in Worker, NEW m, m = Rec(w).media,
           \/ CheckMedia(w) \/ BeginRevision(w) \/ TryReuse(w) \/ AsyncAnalyze(w)
           \/ Run(w) \/ Conclude(w) \/ CallFails(w)
    PROVE  /\ UNCHANGED media /\ EndType'
           /\ \A n \in Media \ {m} : result'[n] = result[n] /\ stage'[n] = stage[n]
           /\ Claims(w)' => Shown(m)' \/ (Claims(w) /\ UNCHANGED <<result, stage>>)
<1>0. /\ PositionInv /\ LogType /\ JobsExist /\ result \in [Media -> BOOLEAN] /\ DOMAIN stage = Media
      /\ pc \in [Worker -> PC] /\ verdict \in [Worker -> Verdict] /\ DOMAIN media = Media
  BY DEF TaskInv, RecordInv, EndType, PositionInv, PositionType
<1>1. pc[w] # "idle" BY <1>0, ProcessMoves
<1>2. Rec(w) \in Record BY <1>0, <1>1, WorkerRecord
<1>3. m \in Media BY <1>2 DEF Record
<1> DEFINE Kept == \A n \in Media \ {m} : result'[n] = result[n] /\ stage'[n] = stage[n]
<1>4. CASE CheckMedia(w)
  <2>1. UNCHANGED <<media, result, stage>> BY <1>4 DEF CheckMedia, agentVars
  <2>2. Claims(w)' => media[m] # "present" BY <1>0, <1>4 DEF CheckMedia, Goto, Return, Claims
  <2> QED BY <1>0, <2>1, <2>2 DEF EndType, Shown
<1>5. CASE BeginRevision(w)
  <2>1. /\ UNCHANGED media
        /\ \/ UNCHANGED result
           \/ \E b \in BOOLEAN : result' = [result EXCEPT ![m] = b]
        /\ \/ UNCHANGED stage
           \/ \E c : stage' = [stage EXCEPT ![m] = c]
    <3>1. UNCHANGED media BY <1>5 DEF BeginRevision
    <3>2. CASE revision[m] = "none" BY <1>5, <3>1, <3>2 DEF BeginRevision, agentVars
    <3>3. CASE revision[m] # "none"
      <4>1. result' = [result EXCEPT ![m] = result[m] /\ revision[m] = "applied"]
        BY <1>5, <3>3 DEF BeginRevision
      <4>2. UNCHANGED stage \/ \E c : stage' = [stage EXCEPT ![m] = c]
        BY <1>5, <3>3 DEF BeginRevision, SetStage
      <4> QED BY <3>1, <4>1, <4>2
    <3> QED BY <3>2, <3>3
  <2>2. pc'[w] \in {"route", "analyze"} BY <1>0, <1>5 DEF BeginRevision, Goto, Return
  <2>3. EndType' BY <1>0, <2>1 DEF EndType
  <2>4. Kept BY <1>0, <2>1
  <2> QED BY <2>1, <2>2, <2>3, <2>4 DEF Claims
<1>6. CASE TryReuse(w)
  <2>1. /\ UNCHANGED media
        /\ UNCHANGED result \/ result' = [result EXCEPT ![m] = TRUE]
        /\ UNCHANGED stage \/ \E c : stage' = [stage EXCEPT ![m] = c]
    BY <1>6 DEF TryReuse, ReuseResult, SetStage
  <2>2. /\ pc'[w] \in {"settle", "route", "analyze"}
        /\ pc'[w] = "settle" => result' = [result EXCEPT ![m] = TRUE]
    BY <1>0, <1>6 DEF TryReuse, ReuseResult, Goto, Return
  <2>3. EndType' BY <1>0, <2>1 DEF EndType
  <2>4. Kept BY <1>0, <2>1
  <2>5. Claims(w)' => result'[m] BY <1>0, <1>3, <2>2 DEF Claims
  <2> QED BY <2>1, <2>3, <2>4, <2>5 DEF Shown
<1>7. CASE AsyncAnalyze(w)
  <2>1. UNCHANGED <<media, result, stage>> BY <1>7 DEF AsyncAnalyze, agentVars
  <2>2. /\ pc'[w] \in {"route", "conclude", "run"}
        /\ pc'[w] = "conclude" => result[m]
    BY <1>0, <1>7 DEF AsyncAnalyze, HasResult, Goto, Return
  <2>3. Claims(w)' => result'[m] BY <2>1, <2>2 DEF Claims
  <2> QED BY <1>0, <2>1, <2>3 DEF EndType, Shown
<1>8. CASE Run(w)
  <2>1. /\ UNCHANGED media
        /\ UNCHANGED result \/ result' = [result EXCEPT ![m] = TRUE]
        /\ \E c : stage' = [stage EXCEPT ![m] = c]
    BY <1>8 DEF Run, SaveFailure, SetStage
  <2>2. /\ pc'[w] \in {"conclude", "settle", "route"}
        /\ pc'[w] = "conclude" => result' = [result EXCEPT ![m] = TRUE]
        /\ pc'[w] = "settle" => verdict'[w] = "budget"
    BY <1>0, <1>8 DEF Run, MapError, Codes, Goto, Return
  <2>3. EndType' BY <1>0, <2>1 DEF EndType
  <2>4. Kept BY <1>0, <2>1
  <2>5. Claims(w)' => result'[m] BY <1>0, <1>3, <2>2 DEF Claims
  <2> QED BY <2>1, <2>3, <2>4, <2>5 DEF Shown
<1>9. CASE Conclude(w)
  <2>1. /\ UNCHANGED media /\ Claims(w)
        /\ \/ UNCHANGED <<result, stage>>
           \/ /\ media[m] # "present" /\ result' = [result EXCEPT ![m] = FALSE]
              /\ stage' = [stage EXCEPT ![m] = "none"]
    BY <1>9 DEF Conclude, Claims, SetStage
  <2>2. EndType' BY <1>0, <2>1 DEF EndType
  <2>3. Kept BY <1>0, <2>1
  <2> QED BY <2>1, <2>2, <2>3 DEF Shown
<1>10. CASE CallFails(w)
  <2>1. /\ UNCHANGED <<media, result>> /\ pc'[w] = "route"
        /\ UNCHANGED stage \/ \E c : stage' = [stage EXCEPT ![m] = c]
    BY <1>0, <1>10 DEF CallFails, Return, Goto, SaveFailure, SetStage
  <2>2. EndType' BY <1>0, <2>1 DEF EndType
  <2>3. Kept BY <1>0, <2>1
  <2> QED BY <2>1, <2>2, <2>3 DEF Claims
<1> QED BY <1>4, <1>5, <1>6, <1>7, <1>8, <1>9, <1>10

\* Nothing is shown or hidden.
LEMMA EndQuiet ==
    ASSUME EndNow, StandsStay, LogGrows, UNCHANGED <<media, result, stage>>,
           \A w \in Worker : Claims(w)' => Claims(w) /\ job'[w] = job[w],
           \A m \in Media : Published(m)' => Published(m) \/ Open(m)'
    PROVE  EndNow'
<1> SUFFICES ASSUME NEW m \in Media, Published(m)' PROVE Shown(m)' \/ Open(m)' BY DEF EndNow
<1>1. Shown(m)' <=> Shown(m) BY DEF Shown
<1>2. Open(m) => Open(m)' BY OpenStays
<1> QED BY <1>1, <1>2 DEF EndNow

\* A task that is published is open.
LEMMA EndRequest ==
    ASSUME TaskInv, OneNow, EndNow, NEW r \in Request, Submission(r) \/ Replay(r)
    PROVE  EndNow'
<1>0. /\ RecordInv /\ LogType /\ LogGrows /\ UNCHANGED <<pc, job, verdict, handled, media, result, stage>>
      /\ StandsStay
  BY SubmissionGrows, ReplayGrows, RequestsOnly, RequestsKeepPositions, OneRequest
     DEF TaskInv, RecordInv, Grows
<1>1. \A w \in Worker : (Claims(w)' => Claims(w)) /\ (Leaving(w)' => Leaving(w))
  BY <1>0 DEF Claims, Leaving
<1>2. ASSUME NEW m \in Media, Published(m)' PROVE Published(m) \/ Open(m)'
  <2>1. CASE UNCHANGED log BY <1>2, <2>1, PublishedSame
  <2>2. CASE log' # log
    <3>1. PICK k \in Keys, x \in Record : Produce(<<Main, k>>, x) /\ <<Main, k>> \in Partition
      BY <2>2, RequestPublishes
    <3>2. CASE x.media # m BY <1>0, <1>2, <3>1, <3>2, PublishedNew
    <3>3. CASE x.media = m
      <4>1. PICK n \in Nat : n = Len(log[<<Main, k>>]) + 1 BY <1>0, <3>1 DEF LogType
      <4>2. Main \in Topic BY DEF Topic
      <4>3. /\ Waiting(k, Main, n)' /\ log'[<<Main, k>>][n] = x
            /\ \A u \in Worker : pc[u] # "idle" => job[u].part # <<Main, k>> \/ job[u].off # n
        BY <1>0, <3>1, <4>1, <4>2, ProduceStands
      <4>4. \A u \in Worker : Claims(u)' \/ Leaving(u)' => pc[u] # "idle"
        BY <1>1 DEF Claims, Leaving
      <4>5. \A u \in Worker : Claims(u)' \/ Leaving(u)' => ~(job'[u].part = <<Main, k>> /\ job'[u].off = n)
        BY <1>0, <4>3, <4>4
      <4>6. Stands(k, Main, n)' BY <4>3, <4>5 DEF Stands
      <4>7. \E t, o : /\ Stands(k, t, o)' /\ log'[<<t, k>>][o].media = m
                      /\ ~\E u \in Worker : Claims(u)' /\ job'[u].part = <<t, k>> /\ job'[u].off = o
        BY <3>3, <4>3, <4>5, <4>6
      <4> QED BY <4>7 DEF Open
    <3> QED BY <3>2, <3>3
  <2> QED BY <2>1, <2>2
<1> QED BY <1>0, <1>1, <1>2, EndQuiet

\* Handle works on a record: what it undoes it will do again.
LEMMA EndProcess ==
    ASSUME TaskInv, OneNow, EndType, EndNow, NEW w \in Worker,
           \/ CheckMedia(w) \/ BeginRevision(w) \/ TryReuse(w) \/ AsyncAnalyze(w)
           \/ Run(w) \/ Conclude(w) \/ CallFails(w)
    PROVE  EndNow'
<1>0. /\ PositionInv /\ LogType /\ JobsExist /\ StandsStay BY OneProcess DEF TaskInv, RecordInv
<1>1. /\ pc[w] \in {"process", "prepare", "analyze", "run", "conclude"} /\ UNCHANGED log
  BY <1>0, ProcessMoves
<1>2. PICK l, v : Moves(w, l, v) BY <1>0, ProcessMoves
<1>3. UNCHANGED job /\ \A u \in Worker \ {w} : pc'[u] = pc[u] /\ verdict'[u] = verdict[u]
  BY <1>0, <1>2 DEF PositionInv, PositionType, Moves
<1>4. Rec(w) \in Record BY <1>0, <1>1, WorkerRecord
<1>5. PICK q \in Media : q = Rec(w).media BY <1>4 DEF Record
<1>6. /\ UNCHANGED media
      /\ \A n \in Media \ {q} : result'[n] = result[n] /\ stage'[n] = stage[n]
      /\ Claims(w)' => Shown(q)' \/ (Claims(w) /\ UNCHANGED <<result, stage>>)
  BY <1>5, ProcessShows
<1>7. \A u \in Worker \ {w} : Claims(u)' => Claims(u) BY <1>3 DEF Claims
<1>8. LogGrows /\ Rec(w)' = Rec(w) BY <1>0, <1>1, <1>3, SameGrows DEF Rec
<1>9. ASSUME NEW m \in Media, Published(m)' PROVE Shown(m)' \/ Open(m)'
  <2>1. Shown(m) \/ Open(m) BY <1>1, <1>9, PublishedSame DEF EndNow
  <2>2. CASE m # q
    <3>1. Shown(m)' <=> Shown(m) BY <1>6, <2>2 DEF Shown
    <3>2. \A u \in Worker : Claims(u)' => (Claims(u) /\ job'[u] = job[u]) \/ Rec(u)'.media # m
      BY <1>3, <1>5, <1>7, <1>8, <2>2
    <3>3. Open(m) => Open(m)' BY <1>0, <1>8, <3>2, OpenStays
    <3> QED BY <2>1, <3>1, <3>3
  <2>3. CASE m = q /\ ~Claims(w)'
    <3>1. ~Leaving(w) BY <1>1 DEF Leaving
    <3> QED BY <1>0, <1>1, <1>3, <1>5, <1>7, <2>3, <3>1, OwnIsOpen
  <2>4. CASE m = q /\ Claims(w)' /\ ~Shown(m)'
    <3>1. Claims(w) /\ UNCHANGED <<result, stage>> BY <1>6, <2>4
    <3>2. Shown(m)' <=> Shown(m) BY <1>6, <3>1 DEF Shown
    <3>3. \A u \in Worker : Claims(u)' => Claims(u) /\ job'[u] = job[u] BY <1>3, <1>7, <3>1
    <3>4. Open(m) => Open(m)' BY <1>0, <1>8, <3>3, OpenStays
    <3> QED BY <2>1, <3>2, <3>4
  <2> QED BY <2>2, <2>3, <2>4
<1> QED BY <1>9 DEF EndNow

\* The lock, and a record that is given up on: the stage follows when the worker settles.
LEMMA EndWorks ==
    ASSUME TaskInv, OneNow, EndNow, NEW w \in Worker, TryLock(w) \/ TryLockOrphaned(w) \/ DeadLetter(w) \/ Unlock(w),
           Plain
    PROVE  EndNow'
<1>0. /\ PositionInv /\ LogType /\ JobsExist /\ StandsStay
  BY OneTryLock, OneProcess, OneUnlock DEF TaskInv, RecordInv
<1>1. UNCHANGED <<log, job, media, result, stage>>
  BY DEF TryLock, TryLockOrphaned, DeadLetter, Unlock, kafkaVars, agentVars
<1>2. PICK l, v : Moves(w, l, v) /\ (l \in {"process", "route", "commit", "backoff"} \/ (l = "settle" /\ v = "dlq"))
  BY <1>0, TryLockMoves, DeadLetterMoves, UnlockMoves
<1>3. /\ pc'[w] = l /\ verdict'[w] = v
      /\ \A u \in Worker \ {w} : pc'[u] = pc[u] /\ verdict'[u] = verdict[u]
  BY <1>0, <1>2 DEF PositionInv, PositionType, Moves
<1>4. \A u \in Worker : Claims(u)' => Claims(u) BY <1>2, <1>3 DEF Claims
<1>5. LogGrows BY <1>0, <1>1, SameGrows
<1> QED BY <1>0, <1>1, <1>4, <1>5, PublishedSame, EndQuiet

\* The task goes on in the record that was forwarded.
LEMMA EndForward ==
    ASSUME TaskInv, Plain, OneNow, EndNow, NEW w \in Worker, ForwardRetry(w)
    PROVE  EndNow'
<1>0. /\ PositionInv /\ LogType /\ JobsExist /\ StandsBut(w) /\ Forwarded(w)
  BY OneForward DEF TaskInv, RecordInv
<1>1. /\ pc[w] = "route" /\ Moves(w, "settle", "retry") /\ Route(w) # DLQ
      /\ Produce(<<Route(w), KeyOf(w)>>, NextAttempt(Rec(w)))
      /\ UNCHANGED <<media, result, stage>>
  BY ForwardMoves DEF ForwardRetry, agentVars
<1>2. /\ NextAttempt(Rec(w)) \in Record /\ <<Route(w), KeyOf(w)>> \in Partition
      /\ NextAttempt(Rec(w)).media = Rec(w).media
  BY <1>0, <1>1, ForwardedRecord, ForwardFiled
<1>3. /\ UNCHANGED job /\ pc'[w] = "settle" /\ verdict'[w] = "retry"
      /\ \A u \in Worker \ {w} : pc'[u] = pc[u] /\ verdict'[u] = verdict[u]
  BY <1>0, <1>1 DEF PositionInv, PositionType, Moves
<1>4. \A u \in Worker : Claims(u)' => Claims(u) /\ job'[u] = job[u] BY <1>3 DEF Claims
<1>5. LogGrows BY <1>0, <1>1, <1>2, ProduceGrows
<1>6. ASSUME NEW m \in Media, Published(m)' PROVE Shown(m)' \/ Open(m)'
  <2>1. CASE m = Rec(w).media
    <3>1. PICK k \in Keys : \E t, o :
              /\ k = KeyOf(w) /\ Stands(k, t, o)' /\ log'[<<t, k>>][o].media = Rec(w).media
              /\ \A u \in Worker : pc'[u] # "idle" => ~(job'[u].part = <<t, k>> /\ job'[u].off = o)
      BY <1>0 DEF Forwarded
    <3>2. \A u \in Worker : Claims(u)' => pc'[u] # "idle" BY DEF Claims
    <3>3. \E t, o : /\ Stands(k, t, o)' /\ log'[<<t, k>>][o].media = m
                    /\ ~\E u \in Worker : Claims(u)' /\ job'[u].part = <<t, k>> /\ job'[u].off = o
      BY <2>1, <3>1, <3>2
    <3> QED BY <3>3 DEF Open
  <2>2. CASE m # Rec(w).media
    <3>1. Published(m) BY <1>0, <1>1, <1>2, <1>6, <2>2, PublishedNew
    <3>2. Shown(m)' <=> Shown(m) BY <1>1 DEF Shown
    <3>3. Open(m) => Open(m)' BY <1>0, <1>4, <1>5, <2>2, OpenStays
    <3> QED BY <3>1, <3>2, <3>3 DEF EndNow
  <2> QED BY <2>1, <2>2
<1> QED BY <1>6 DEF EndNow

\* The worker shows what it gave up on; after a retry the record it left is open.
LEMMA EndSettle ==
    ASSUME TaskInv, Plain, OneNow, EndType, EndNow, NEW w \in Worker, Settle(w)
    PROVE  EndNow'
<1>0. /\ PositionInv /\ LogType /\ JobsExist /\ StandsBut(w) /\ (verdict[w] = "retry" => StandsStay)
  BY OneSettle DEF TaskInv, RecordInv
<1>1. /\ pc[w] = "settle" /\ Moves(w, "unlock", verdict[w]) /\ UNCHANGED log
  BY <1>0, SettleMoves
<1>2. Rec(w) \in Record BY <1>0, <1>1, WorkerRecord
<1>3. PICK q \in Media : q = Rec(w).media BY <1>2 DEF Record
<1>4. /\ UNCHANGED <<media, result>> /\ \A n \in Media \ {q} : stage'[n] = stage[n]
      /\ verdict[w] = "dlq" => stage'[q] = "DEAD_LETTERED"
      /\ verdict[w] = "budget" => stage'[q] = "BUDGET_EXHAUSTED"
      /\ verdict[w] \in {"success", "reused", "gone"} => stage'[q] = stage[q]
  BY <1>3 DEF Settle, EndType
<1>5. /\ UNCHANGED job /\ pc'[w] = "unlock"
      /\ \A u \in Worker \ {w} : pc'[u] = pc[u] /\ verdict'[u] = verdict[u]
  BY <1>0, <1>1 DEF PositionInv, PositionType, Moves
<1>6. \A u \in Worker : Claims(u)' => u # w /\ Claims(u) /\ job'[u] = job[u] BY <1>5 DEF Claims
<1>7. LogGrows BY <1>0, <1>1, SameGrows
<1>8. ASSUME NEW m \in Media, Published(m)' PROVE Shown(m)' \/ Open(m)'
  <2>1. Shown(m) \/ Open(m) BY <1>1, <1>8, PublishedSame DEF EndNow
  <2>2. CASE m # q \/ Claims(w)
    <3>1. m = q => verdict[w] \in {"success", "reused", "gone"} BY <1>1, <2>2 DEF Claims
    <3>2. Shown(m)' <=> Shown(m) BY <1>4, <3>1 DEF Shown
    <3>3. Open(m) => Open(m)' BY <1>0, <1>3, <1>6, <1>7, <2>2, OpenStays
    <3> QED BY <2>1, <3>2, <3>3
  <2>3. CASE m = q /\ verdict[w] \in {"dlq", "budget"} BY <1>4, <2>3 DEF Shown
  <2>4. CASE m = q /\ verdict[w] = "retry"
    <3>0. Successor(w) /\ Alone(w) BY DEF OneNow
    <3>1. PICK k \in Keys : k = KeyOf(w) BY <1>0, <1>1, WorkerRecord
    <3>2. PICK t, o : Stands(k, t, o) /\ log[<<t, k>>][o].media = m
      BY <1>1, <1>3, <2>4, <3>0, <3>1 DEF Successor
    <3>3. Stands(k, t, o)' /\ log'[<<t, k>>][o].media = m BY <1>0, <1>1, <2>4, <3>2 DEF StandsStay
    <3>4. ASSUME NEW u \in Worker, Claims(u)', job'[u].part = <<t, k>> PROVE FALSE
      <4>1. u # w /\ pc[u] \notin {"idle", "commit"} /\ KeyOf(u) = k
        BY <1>6, <3>4 DEF Claims, KeyOf
      <4> QED BY <1>1, <3>0, <3>1, <4>1 DEF Alone, Settled
    <3>5. \E v, n : /\ Stands(k, v, n)' /\ log'[<<v, k>>][n].media = m
                    /\ ~\E u \in Worker : Claims(u)' /\ job'[u].part = <<v, k>> /\ job'[u].off = n
      BY <3>3, <3>4
    <3> QED BY <3>5 DEF Open
  <2>5. verdict[w] \in {"success", "reused", "gone", "budget", "retry", "dlq"}
    BY <1>1 DEF Plain, Settled, Ended
  <2>6. verdict[w] \in {"success", "reused", "gone"} => Claims(w) BY <1>1 DEF Claims
  <2> QED BY <2>2, <2>3, <2>4, <2>5, <2>6
<1> QED BY <1>8 DEF EndNow

LEMMA NextEndType ==
    ASSUME TaskInv, Plain, EndType, [Next]_vars
    PROVE  EndType'
<1>0. UNCHANGED <<media, result, stage>> => EndType' BY DEF EndType
<1>1. CASE \E r \in Request : Submission(r) \/ Replay(r)
  BY <1>0, <1>1, RequestsOnly, RequestsKeepPositions
<1>2. ASSUME NEW w \in Worker, Work(w) PROVE EndType'
  <2>1. CASE Handle(w)
    <3>1. ~RouteFails(w) /\ ~DiscardPoison(w) BY <2>1, PlainHandle
    <3>2. CASE \/ CheckMedia(w) \/ BeginRevision(w) \/ TryReuse(w) \/ AsyncAnalyze(w)
               \/ Run(w) \/ Conclude(w) \/ CallFails(w)
      BY <3>2, ProcessShows
    <3>3. CASE TryLock(w) \/ TryLockOrphaned(w) \/ ForwardRetry(w) \/ DeadLetter(w) \/ Unlock(w)
      BY <1>0, <3>3 DEF TryLock, TryLockOrphaned, ForwardRetry, DeadLetter, Unlock, agentVars
    <3>4. CASE Settle(w)
      <4>1. UNCHANGED <<media, result>> /\ DOMAIN stage' = DOMAIN stage BY <3>4 DEF Settle
      <4> QED BY <4>1 DEF EndType
    <3> QED BY <2>1, <3>1, <3>2, <3>3, <3>4 DEF Handle
  <2>2. CASE \E p \in Partition : Deliver(w, p) BY <1>0, <2>2 DEF Deliver, agentVars
  <2>3. CASE Redeliver(w) \/ Commit(w) BY <1>0, <2>3 DEF Redeliver, Commit, agentVars
  <2> QED BY <1>2, <2>1, <2>2, <2>3 DEF Work
<1>3. CASE Environment
  <2>0. /\ LockInv /\ ~Spend("lock") BY SparedFaults DEF TaskInv, Losing
  <2>1. CASE \E w \in Worker : LoseLock(w) BY <2>0, <2>1, LoseLockMoves DEF LockInv
  <2>2. CASE \E m \in Media : DeleteMedia(m)
    <3>1. PICK m \in Media : DeleteMedia(m) BY <2>2
    <3>2. /\ DOMAIN media' = DOMAIN media
          /\ UNCHANGED result \/ result' = [result EXCEPT ![m] = FALSE]
          /\ DOMAIN stage' = DOMAIN stage
      BY <3>1 DEF DeleteMedia, SetStage, agentVars
    <3> QED BY <3>2 DEF EndType
  <2>3. CASE \/ \E w \in Worker : Crash(w)
             \/ \E p \in Partition : Rebalance(p)
             \/ \E k \in Keys : Lapse(k) \/ OrphanExpires(k) \/ MarkerExpires(k)
             \/ \E r \in Request : RequestCrash(r)
             \/ \E m \in Media : ForeignPublish(m)
    BY <1>0, <2>3 DEF Crash, Rebalance, Lapse, OrphanExpires, MarkerExpires, RequestCrash,
                      ForeignPublish, agentVars
  <2> QED BY <1>3, <2>1, <2>2, <2>3 DEF Environment
<1>4. CASE UNCHANGED vars BY <1>0, <1>4 DEF vars, agentVars
<1> QED BY <1>1, <1>2, <1>3, <1>4 DEF Next

LEMMA NextEnd ==
    ASSUME OneInv, EndInv, [Next]_vars, Topic \subseteq PromptUnlock
    PROVE  EndInv'
<1>0. TaskInv /\ Plain /\ EndType /\ EndType' BY NextEndType DEF OneInv, EndInv
<1> SUFFICES ASSUME Steady' PROVE EndNow' BY <1>0 DEF EndInv
<1>1. /\ OneNow /\ EndNow /\ ~Spend("rebalance") /\ ~Spend("poison") /\ LogType /\ PositionInv
  BY <1>0, PlainFaults DEF OneInv, EndInv, TaskInv, RecordInv
<1>2. CASE \E r \in Request : Submission(r) \/ Replay(r) BY <1>0, <1>1, <1>2, EndRequest
<1>3. ASSUME NEW w \in Worker, Work(w) PROVE EndNow'
  <2>1. CASE \E p \in Partition : Deliver(w, p)
    <3>1. PICK p \in Partition : Deliver(w, p) BY <2>1
    <3> DEFINE l == FirstStep(log[p][pos[p] + 1])
    <3>2. /\ pc[w] = "idle" /\ UNCHANGED <<log, verdict, media, result, stage>>
          /\ job' = [job EXCEPT ![w] = [part |-> p, off |-> pos[p] + 1]] /\ pc' = [pc EXCEPT ![w] = l]
      BY <3>1 DEF Deliver, Goto, kafkaVars, agentVars
    <3>3. l \in {"poison", "lock"} BY DEF FirstStep
    <3> HIDE DEF l
    <3>4. pc'[w] = l /\ \A u \in Worker \ {w} : pc'[u] = pc[u] /\ job'[u] = job[u]
      BY <1>1, <3>2 DEF PositionInv, PositionType
    <3>5. \A u \in Worker : Claims(u)' => Claims(u) /\ job'[u] = job[u]
      BY <3>2, <3>3, <3>4 DEF Claims
    <3>6. StandsStay /\ LogGrows BY <1>0, <1>1, <3>1, <3>2, OneDeliver, SameGrows DEF Plain
    <3> QED BY <1>1, <3>2, <3>5, <3>6, PublishedSame, EndQuiet
  <2>2. CASE Handle(w)
    <3>1. ~RouteFails(w) /\ ~DiscardPoison(w) BY <1>0, <2>2, PlainHandle
    <3> QED BY <1>0, <1>1, <2>2, <3>1, EndWorks, EndProcess, EndForward, EndSettle DEF Handle
  <2>3. CASE Redeliver(w) BY <1>0, <2>3 DEF Redeliver, Plain
  <2>4. CASE Commit(w)
    <3>1. pc[w] = "commit" /\ Rest(w) /\ UNCHANGED <<log, media, result, stage>>
      BY <2>4 DEF Commit, agentVars
    <3>2. /\ pc'[w] = "idle"
          /\ \A u \in Worker \ {w} : pc'[u] = pc[u] /\ job'[u] = job[u] /\ verdict'[u] = verdict[u]
      BY <1>1, <3>1 DEF PositionInv, PositionType, Rest, Return, Goto
    <3>3. \A u \in Worker : Claims(u)' => Claims(u) /\ job'[u] = job[u] BY <3>2 DEF Claims
    <3>4. StandsStay /\ LogGrows BY <1>0, <1>1, <2>4, <3>1, OneCommit, SameGrows DEF Plain
    <3> QED BY <1>1, <3>1, <3>3, <3>4, PublishedSame, EndQuiet
  <2> QED BY <1>3, <2>1, <2>2, <2>3, <2>4 DEF Work
<1>4. CASE Environment \/ UNCHANGED vars
  <2>0. /\ LockInv /\ ~Spend("lock") /\ ~Spend("crash") /\ ~Spend("marker")
    BY <1>0, SparedFaults DEF TaskInv, Losing
  <2>1. CASE \E w \in Worker : LoseLock(w) \/ Crash(w)
    BY <2>0, <2>1, LoseLockMoves DEF LockInv, Crash
  <2>2. CASE \E p \in Partition : Rebalance(p) BY <1>1, <2>2 DEF Rebalance
  <2>3. CASE \E k \in Keys : Lapse(k) \/ OrphanExpires(k) \/ MarkerExpires(k)
    <3>1. PICK k \in Keys : lock[k] = Orphan BY <2>0, <2>3 DEF Lapse, OrphanExpires, MarkerExpires
    <3> QED BY <2>0, <3>1, PipelineAssumption DEF LockInv, Free, Orphan
  <2>4. CASE \E r \in Request : RequestCrash(r) BY <2>0, <2>4 DEF RequestCrash
  <2>5. CASE (\E m \in Media : DeleteMedia(m)) \/ UNCHANGED vars
    <3>1. UNCHANGED <<log, ledger, req, pc, job, mine, verdict, handled, active, pos>>
      BY <2>5 DEF DeleteMedia, vars, kafkaVars, workerVars, failVars, redisVars
    <3>2. StandsStay /\ LogGrows BY <1>1, <3>1, OneSame, SameGrows
    <3>3. \A u \in Worker : Claims(u)' => Claims(u) /\ job'[u] = job[u] BY <3>1 DEF Claims
    <3>4. ASSUME NEW m \in Media PROVE Shown(m) => Shown(m)'
      <4>1. \/ media'[m] # "present"
            \/ media'[m] = media[m] /\ result'[m] = result[m] /\ stage'[m] = stage[m]
        <5>1. CASE UNCHANGED vars BY <5>1 DEF vars, agentVars
        <5>2. ASSUME NEW n \in Media, DeleteMedia(n)
              PROVE  \/ media'[m] # "present"
                     \/ media'[m] = media[m] /\ result'[m] = result[m] /\ stage'[m] = stage[m]
          BY <1>0, <5>2 DEF DeleteMedia, EndType, SetStage, agentVars
        <5> QED BY <2>5, <5>1, <5>2
      <4> QED BY <4>1 DEF Shown
    <3>5. ASSUME NEW m \in Media, Published(m)' PROVE Shown(m)' \/ Open(m)'
      <4>1. Shown(m) \/ Open(m) BY <1>1, <3>1, <3>5, PublishedSame DEF EndNow
      <4>2. Open(m) => Open(m)' BY <3>2, <3>3, OpenStays
      <4> QED BY <3>4, <4>1, <4>2
    <3> QED BY <3>5 DEF EndNow
  <2>6. CASE \E m \in Media : ForeignPublish(m) BY <1>1, <2>6 DEF ForeignPublish
  <2> QED BY <1>4, <2>1, <2>2, <2>3, <2>4, <2>5, <2>6 DEF Environment
<1> QED BY <1>2, <1>3, <1>4 DEF Next

LEMMA EndInit ==
    ASSUME Init
    PROVE  EndInv
<1>1. EndType BY DEF Init, EndType
<1>2. \A m : ~Published(m)
  <2>1. \A k \in Keys : log[<<Main, k>>] = <<>> BY DEF Init, Partition, Topic
  <2>2. \A k \in Keys : Len(log[<<Main, k>>]) = 0 BY <2>1
  <2>3. \A k \in Keys : 1 .. Len(log[<<Main, k>>]) = {} BY <2>2
  <2> QED BY <2>3 DEF Published
<1> QED BY <1>1, <1>2 DEF EndInv, EndNow

\* An accepted task ends visibly, for any number of partitions, workers and requests, failed
\* analyses, failed calls, deletions and replays: once nothing is pending for the media, its
\* status is DONE or FAILED, as long as no partition has changed hands.  Every fault in Doubling
\* but a failed produce (which TaskInv excludes) can end a task without a trace.
THEOREM TasksEndVisibly ==
    ASSUME \A x \in Doubling : Budget[x] = 0, Topic \subseteq PromptUnlock
    PROVE  Spec => []EndIsVisible
<1>1. Init => OneInv /\ EndInv BY OneInit, EndInit
<1>2. OneInv /\ EndInv /\ [Next]_vars => OneInv' /\ EndInv' BY NextOne, NextEnd
<1>3. OneInv /\ EndInv => EndIsVisible
  <2> SUFFICES ASSUME OneInv, EndInv, Steady, NEW m \in Media, NEW a \in Actions, media[m] = "present",
                      \E o \in DOMAIN log[<<Main, Key(m, a)>>] : log[<<Main, Key(m, a)>>][o].media = m,
                      \A q \in Keys \intersect {m, HashOf[m]} : ~Requested(q) /\ ~Uncommitted(q) /\ ~InFlight(q)
               PROVE  Current(m) \in {"DONE", "FAILED"}
    BY DEF EndIsVisible, Steady
  <2>0. TaskInv /\ RecordInv /\ LogType /\ Plain /\ OneNow /\ EndNow
    BY DEF OneInv, EndInv, TaskInv, RecordInv
  <2>1. Key(m, a) \in Keys BY PipelineAssumption DEF Key, Keys
  <2>2. Published(m)
    <3>1. <<Main, Key(m, a)>> \in Partition BY <2>1 DEF Partition, Topic
    <3>2. DOMAIN log[<<Main, Key(m, a)>>] = 1 .. Len(log[<<Main, Key(m, a)>>]) BY <2>0, <3>1 DEF LogType
    <3> QED BY <2>1, <3>2 DEF Published
  <2>3. ~Open(m)
    <3> SUFFICES ASSUME Open(m) PROVE FALSE OBVIOUS
    <3>1. PICK k \in Keys : \E t, o : Stands(k, t, o) /\ log[<<t, k>>][o].media = m BY DEF Open
    <3>2. PICK t, o : Stands(k, t, o) /\ log[<<t, k>>][o].media = m BY <3>1
    <3>3. Waiting(k, t, o) BY <3>2 DEF Stands
    <3>4. <<t, k>> \in Partition /\ o \in 1 .. Len(log[<<t, k>>]) BY <3>3 DEF Waiting, Partition
    <3>5. Filed(<<t, k>>, log[<<t, k>>][o]) BY <2>0, <3>4 DEF Plain
    <3>6. k \in {m, HashOf[m]} BY <3>2, <3>5 DEF Filed, Key
    <3> QED BY <2>0, <3>3, <3>6, WaitingUncommitted
  <2>4. Shown(m) BY <2>0, <2>2, <2>3 DEF EndNow
  <2>5. ~IsActive(m) BY <2>0, TaskNotLost DEF NoTaskLost, IsActive
  <2>6. CASE result[m] BY <2>6 DEF Current, LoadResult, HasResult
  <2>7. CASE ~result[m]
    <3>1. stage[m] \in {"BUDGET_EXHAUSTED", "FAILED", "DEAD_LETTERED"} BY <2>4, <2>7 DEF Shown
    <3> QED BY <2>5, <2>7, <3>1 DEF Current, LoadResult, HasResult, LoadStage
  <2> QED BY <2>6, <2>7
<1> QED BY <1>1, <1>2, <1>3, PTL DEF Spec

-----------------------------------------------------------------------------
(* Replays are booked *)

\* What can keep a replay from marking its row: the process dies, or a call fails or seems to.
Unbooking == {"call", "lostack", "crash"}
Bookkeeping == left \in [Fault -> Nat] /\ \A x \in Unbooking : left[x] = 0

\* The request that published the row's task is about to mark the row.
Booking(i) == \E r \in Request : req[r].do = "replayMark" /\ req[r].row = i
Replayed(i) == ledger[i].status = "FAILED" /\ ledger[i].replays > 0
BookInv == RecordInv /\ Bookkeeping /\ \A i \in DOMAIN ledger : Replayed(i) => Booking(i)

LEMMA BookkeepingFaults ==
    ASSUME Bookkeeping, NEW x \in Unbooking
    PROVE  ~Spend(x)
<1>1. x \in Fault BY DEF Unbooking, Fault
<1>2. left[x] = 0 BY DEF Bookkeeping
<1> QED BY <1>1, <1>2, SpendDrops DEF Bookkeeping

LEMMA NextBookkeeping ==
    ASSUME Bookkeeping, [Next]_vars
    PROVE  Bookkeeping'
<1>1. LeftDrops BY NextDrops DEF Bookkeeping
<1>2. Unbooking \subseteq Fault BY DEF Unbooking, Fault
<1>3. ASSUME NEW x \in Unbooking PROVE left'[x] = 0
  BY <1>1, <1>2 DEF LeftDrops, Bookkeeping
<1> QED BY <1>1, <1>3 DEF LeftDrops, Bookkeeping

\* A step that marks no row and is no replay's: rows are only added, and new ones are not replayed.
LEMMA NewRows ==
    ASSUME RecordInv, \A i \in DOMAIN ledger : Replayed(i) => Booking(i), UNCHANGED req,
           \/ UNCHANGED ledger
           \/ \E x \in Record : RecordFailure(x)
    PROVE  \A i \in DOMAIN ledger' : Replayed(i)' => Booking(i)'
<1>1. ASSUME NEW i \in DOMAIN ledger', Replayed(i)' PROVE Booking(i)
  <2>1. CASE UNCHANGED ledger BY <1>1, <2>1 DEF Replayed
  <2>2. CASE \E x \in Record : RecordFailure(x)
    <3>1. PICK x \in Record : RecordFailure(x) BY <2>2
    <3> DEFINE row == [media |-> x.media, action |-> x.action, status |-> "FAILED", replays |-> 0]
    <3>2. row.replays = 0 OBVIOUS
    <3>3. ledger' = Append(ledger, row) BY <3>1 DEF RecordFailure
    <3> HIDE DEF row
    <3>4. ledger \in Seq(Row) BY DEF RecordInv, LogType
    <3>5. /\ DOMAIN ledger' = 1 .. Len(ledger) + 1 /\ Len(ledger) \in Nat
          /\ DOMAIN ledger = 1 .. Len(ledger) /\ ledger'[Len(ledger) + 1] = row
          /\ \A j \in 1 .. Len(ledger) : ledger'[j] = ledger[j]
      BY <3>3, <3>4
    <3>6. i # Len(ledger) + 1 BY <1>1, <3>2, <3>5 DEF Replayed
    <3>7. i \in 1 .. Len(ledger) BY <3>5, <3>6
    <3> QED BY <1>1, <3>5, <3>7 DEF Replayed
  <2> QED BY <2>1, <2>2
<1> QED BY <1>1 DEF Booking

\* The steps of a request that is not replaying: nobody stops booking, and no row changes.
LEMMA OthersBook ==
    ASSUME LogType, \A i \in DOMAIN ledger : Replayed(i) => Booking(i), UNCHANGED ledger,
           NEW r \in Request, req[r].do # "replayMark", NEW x, req' = [req EXCEPT ![r] = x]
    PROVE  \A i \in DOMAIN ledger' : Replayed(i)' => Booking(i)'
<1> SUFFICES ASSUME NEW i \in DOMAIN ledger, Replayed(i) PROVE Booking(i)'
  BY DEF Replayed
<1>1. PICK s \in Request : req[s].do = "replayMark" /\ req[s].row = i BY DEF Booking
<1>2. req'[s] = req[s] BY <1>1 DEF LogType
<1> QED BY <1>1, <1>2 DEF Booking

LEMMA SubmissionBooks ==
    ASSUME BookInv, NEW r \in Request, Submission(r)
    PROVE  \A i \in DOMAIN ledger' : Replayed(i)' => Booking(i)'
<1>0. LogType /\ \A i \in DOMAIN ledger : Replayed(i) => Booking(i) BY DEF BookInv, RecordInv
<1>1. /\ UNCHANGED ledger /\ req[r].do # "replayMark"
      /\ \E x : req' = [req EXCEPT ![r] = x]
  <2>1. CASE \E m \in Media : aiAnalyze(r, m) \/ reviseAgentResult(r, m)
    BY <2>1 DEF aiAnalyze, reviseAgentResult, SubmitReserve, SetReq, Done, failVars
  <2>2. CASE SubmitRateLimited(r) BY <2>2 DEF SubmitRateLimited, SetReq, Done, failVars
  <2>3. CASE SubmitStage(r) BY <2>3 DEF SubmitStage, SetReq, failVars
  <2>4. CASE SubmitPublish(r) BY <2>4 DEF SubmitPublish, SetReq, Done, failVars
  <2>5. CASE SubmitFail(r) BY <2>5 DEF SubmitFail, SetReq, Done, failVars
  <2> QED BY <2>1, <2>2, <2>3, <2>4, <2>5 DEF Submission
<1> QED BY <1>0, <1>1, OthersBook

LEMMA ReplayBooks ==
    ASSUME BookInv, NEW r \in Request, Replay(r)
    PROVE  \A i \in DOMAIN ledger' : Replayed(i)' => Booking(i)'
<1>0. /\ LogType /\ req \in [Request -> RequestState] /\ ledger \in Seq(Row) /\ Bookkeeping
      /\ \A i \in DOMAIN ledger : Replayed(i) => Booking(i)
  BY DEF BookInv, RecordInv, LogType
<1>1. "call" \in Unbooking /\ "lostack" \in Unbooking BY DEF Unbooking
<1>2. CASE failedReplay(r)
  BY <1>0, <1>2, OthersBook DEF failedReplay, ReplayRead, SetReq, failVars
<1>3. CASE ReplayReserve(r)
  <2>1. /\ UNCHANGED ledger /\ req[r].do # "replayMark"
        /\ \E x : req' = [req EXCEPT ![r] = x]
    BY <1>3 DEF ReplayReserve, SetReq, Done, failVars
  <2> QED BY <1>0, <2>1, OthersBook
<1>4. CASE ReplayPublish(r)
  <2>0. ~Spend("lostack") BY <1>0, <1>1, BookkeepingFaults
  <2>1. CASE /\ ledger' = [ledger EXCEPT ![req[r].row].replays = @ + 1]
             /\ SetReq(r, [req[r] EXCEPT !.do = "replayMark"])
    <3>1. req[r].do = "replayPublish" BY <1>4 DEF ReplayPublish
    <3>2. req[r] \in [do : {"replay", "replayPublish", "replayMark"}, row : Nat]
      BY <1>0, <3>1, ReplayRow
    <3>3. req'[r].do = "replayMark" /\ req'[r].row = req[r].row
      BY <1>0, <2>1, <3>2 DEF SetReq
    <3>4. Booking(req[r].row)' BY <3>3 DEF Booking
    <3>5. ASSUME NEW i \in DOMAIN ledger', Replayed(i)' PROVE Booking(i)'
      <4>1. CASE i = req[r].row BY <3>3, <4>1 DEF Booking
      <4>2. CASE i # req[r].row
        <5>1. i \in DOMAIN ledger /\ ledger'[i] = ledger[i] BY <2>1, <4>2
        <5>2. Booking(i) BY <1>0, <3>5, <5>1 DEF Replayed
        <5>3. PICK s \in Request : req[s].do = "replayMark" /\ req[s].row = i BY <5>2 DEF Booking
        <5>4. req'[s] = req[s] BY <1>0, <2>1, <3>1, <5>3 DEF SetReq
        <5> QED BY <5>3, <5>4 DEF Booking
      <4> QED BY <4>1, <4>2
    <3> QED BY <3>5
  <2>2. CASE UNCHANGED ledger /\ Done(r)
    <3>1. req[r].do # "replayMark" BY <1>4 DEF ReplayPublish
    <3> QED BY <1>0, <2>2, <3>1, OthersBook DEF Done, SetReq
  <2> QED BY <1>4, <2>0, <2>1, <2>2 DEF ReplayPublish
<1>5. CASE ReplayMark(r)
  <2>0. ~Spend("call") BY <1>0, <1>1, BookkeepingFaults
  <2>1. /\ ledger' = [ledger EXCEPT ![req[r].row].status = "REQUEUED"] /\ req[r].do = "replayMark"
        /\ req' = [req EXCEPT ![r] = [do |-> "done"]]
    BY <1>5, <2>0 DEF ReplayMark, MarkRequeued, Done, SetReq
  <2>2. req[r].row \in DOMAIN ledger BY <1>0, <2>1, ReplayRow
  <2>3. ASSUME NEW i \in DOMAIN ledger', Replayed(i)' PROVE Booking(i)'
    <3>1. i \in DOMAIN ledger BY <2>1, <2>3
    <3>2. i # req[r].row
      <4>1. SUFFICES ASSUME i = req[r].row PROVE FALSE OBVIOUS
      <4>2. ledger[i] \in Row BY <1>0, <3>1
      <4>3. ledger'[i].status = "REQUEUED" BY <2>1, <3>1, <4>1, <4>2 DEF Row
      <4> QED BY <2>3, <4>3 DEF Replayed
    <3>3. ledger'[i] = ledger[i] BY <2>1, <3>1, <3>2
    <3>4. Booking(i) BY <1>0, <2>3, <3>1, <3>3 DEF Replayed
    <3>5. PICK s \in Request : req[s].do = "replayMark" /\ req[s].row = i BY <3>4 DEF Booking
    <3>6. req'[s] = req[s] BY <1>0, <2>1, <3>2, <3>5
    <3> QED BY <3>5, <3>6 DEF Booking
  <2> QED BY <2>3
<1> QED BY <1>2, <1>3, <1>4, <1>5 DEF Replay

\* What everybody else does to the ledger.
LEMMA RowsAdded ==
    ASSUME RecordInv, Bookkeeping, (\E w \in Worker : Work(w)) \/ Environment
    PROVE  UNCHANGED req /\ (UNCHANGED ledger \/ \E x \in Record : RecordFailure(x))
<1>0. PositionInv /\ LogType /\ JobsExist BY DEF RecordInv
<1>1. ~Spend("crash") BY BookkeepingFaults DEF Unbooking
<1>2. ASSUME NEW w \in Worker, Work(w)
      PROVE  UNCHANGED req /\ (UNCHANGED ledger \/ \E x \in Record : RecordFailure(x))
  <2>1. CASE \E p \in Partition : Deliver(w, p) BY <2>1 DEF Deliver, failVars
  <2>2. CASE Redeliver(w) BY <2>2 DEF Redeliver, failVars
  <2>3. CASE Commit(w) BY <2>3 DEF Commit, failVars
  <2>4. CASE TryLock(w) \/ TryLockOrphaned(w) BY <2>4 DEF TryLock, TryLockOrphaned, failVars
  <2>5. CASE CheckMedia(w) \/ BeginRevision(w) \/ TryReuse(w) \/ AsyncAnalyze(w)
    BY <2>5 DEF CheckMedia, BeginRevision, TryReuse, AsyncAnalyze, failVars
  <2>6. CASE Run(w) \/ Conclude(w) \/ CallFails(w) \/ ForwardRetry(w)
    BY <2>6 DEF Run, Conclude, CallFails, ForwardRetry, failVars
  <2>7. CASE DeadLetter(w)
    BY <1>0, <2>7, DeadLetterMoves, WorkerRecord
  <2>8. CASE RouteFails(w) BY <1>0, <2>8, RouteFailsMoves, WorkerRecord
  <2>9. CASE Settle(w) \/ Unlock(w) BY <2>9 DEF Settle, Unlock, failVars
  <2>10. CASE DiscardPoison(w)
    <3>1. /\ pc[w] # "idle" /\ UNCHANGED req
          /\ UNCHANGED ledger \/ RecordFailure(Rec(w))
      BY <2>10 DEF DiscardPoison
    <3> QED BY <1>0, <3>1, WorkerRecord
  <2> QED BY <1>2, <2>1, <2>2, <2>3, <2>4, <2>5, <2>6, <2>7, <2>8, <2>9, <2>10 DEF Work, Handle
<1>3. ASSUME Environment PROVE UNCHANGED req /\ UNCHANGED ledger
  <2>1. CASE \E w \in Worker : LoseLock(w) \/ Crash(w) BY <2>1 DEF LoseLock, Crash, failVars
  <2>2. CASE \E p \in Partition : Rebalance(p) BY <2>2 DEF Rebalance, failVars
  <2>3. CASE \E k \in Keys : Lapse(k) \/ OrphanExpires(k) \/ MarkerExpires(k)
    BY <2>3 DEF Lapse, OrphanExpires, MarkerExpires, failVars
  <2>4. CASE \E r \in Request : RequestCrash(r) BY <1>1, <2>4 DEF RequestCrash
  <2>5. CASE \E m \in Media : DeleteMedia(m) \/ ForeignPublish(m)
    BY <2>5 DEF DeleteMedia, ForeignPublish, failVars
  <2> QED BY <1>3, <2>1, <2>2, <2>3, <2>4, <2>5 DEF Environment
<1> QED BY <1>2, <1>3

LEMMA NextBook ==
    ASSUME BookInv, [Next]_vars
    PROVE  BookInv'
<1>0. /\ RecordInv /\ Bookkeeping /\ \A i \in DOMAIN ledger : Replayed(i) => Booking(i)
  BY DEF BookInv
<1>1. RecordInv' /\ Bookkeeping' BY <1>0, NextRecord, NextBookkeeping
<1>2. CASE \E r \in Request : Submission(r) \/ Replay(r)
  BY <1>1, <1>2, SubmissionBooks, ReplayBooks DEF BookInv
<1>3. CASE (\E w \in Worker : Work(w)) \/ Environment
  BY <1>0, <1>1, <1>3, RowsAdded, NewRows DEF BookInv
<1>4. CASE UNCHANGED vars
  <2>1. UNCHANGED <<ledger, req>> BY <1>4 DEF vars, failVars
  <2> QED BY <1>0, <1>1, <2>1, NewRows DEF BookInv
<1> QED BY <1>2, <1>3, <1>4 DEF Next

\* A row that was replayed and still reads FAILED is about to be marked or guarded by the marker
\* (FailedTasks.Replay), for any number of administrators, rebalances, lock losses and failed
\* produces.  The guard of the marker itself is needed after a failed MarkRequeued, and ends with
\* the replayed task (see the README): that fault, and a crash, are excluded.
THEOREM ReplaysAreBooked ==
    ASSUME \A x \in Unbooking : Budget[x] = 0
    PROVE  Spec => []ReplayGuarded
<1>1. Init => BookInv
  <2> SUFFICES ASSUME Init PROVE BookInv OBVIOUS
  <2>1. Bookkeeping BY PipelineAssumption DEF Init, Bookkeeping
  <2>2. DOMAIN ledger = {} BY DEF Init
  <2> QED BY <2>1, <2>2, RecordInit DEF BookInv
<1>2. BookInv /\ [Next]_vars => BookInv' BY NextBook
<1>3. BookInv => ReplayGuarded BY DEF BookInv, ReplayGuarded, Replayed, Booking
<1> QED BY <1>1, <1>2, <1>3, PTL DEF Spec
=============================================================================
