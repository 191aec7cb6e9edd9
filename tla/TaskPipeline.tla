---------------------------- MODULE TaskPipeline ----------------------------
(***************************************************************************)
(* The analysis task pipeline of server-go: Dispatcher.Submit and the      *)
(* ledger's Replay put tasks on Kafka; the partition workers of the        *)
(* consumer group run Consumer.Handle on them, forward failures to the     *)
(* retry topics or the DLQ, and commit offsets by hand.                    *)
(*                                                                         *)
(* One analysis goal is modelled (keys of different goals never meet), so  *)
(* the active marker, the completed marker and the task lock are indexed   *)
(* by content hash alone.  Records are keyed by content hash: a partition  *)
(* is a topic and a key (two keys on one partition only remove             *)
(* interleavings).  A Worker is the goroutine that handles one record of   *)
(* one partition; between records it keeps nothing but the position, which *)
(* belongs to the partition.  The lease lock is module RedisLock, here     *)
(* reduced to whose key it is: a worker's, nobody's (Free), or that of an  *)
(* owner that is gone (Orphan) until it expires.                           *)
(***************************************************************************)
EXTENDS Integers, Sequences, FiniteSets

CONSTANTS
    Media,         \* media ids
    Hash,          \* content hashes
    HashOf,        \* MediaFile.ContentHash
    Actions,       \* the actions users submit
    Worker,        \* partition workers
    Request,       \* HTTP requests: submissions and replays
    Budget,        \* how often each fault may happen
    PromptUnlock,  \* topics none of whose records is taken while its task is settled but still locked
    None

\* What may go wrong, each at most Budget[x] times:
\*   agent      AsyncAnalyze fails          produce    a Kafka produce fails
\*   lostack    a call is applied but reported as failed
\*   call       a Redis, database or agent call fails
\*   lock       the task lock's lease lapses or is orphaned
\*   crash      a server process dies       rebalance  a partition changes hands
\*   delete     a media is deleted          replay     an administrator replays a row
\*   poison     a foreign producer writes an unusable message
\*   marker     the active marker outlives its task (a failed DEL is ignored) or expires early
\*   any        all of the above together
Fault == {"agent", "produce", "lostack", "call", "lock", "crash", "rebalance", "delete",
          "replay", "poison", "marker", "any"}

Main == "main"
Retry10s == "retry10s"
Retry60s == "retry60s"
DLQ == "dlq"
Topic == {Main, Retry10s, Retry60s}
MaxAttempts == 3

Free == "free"
Orphan == "orphan"

ASSUME PipelineAssumption ==
    /\ None \notin Media
    /\ HashOf \in [Media -> Hash]
    /\ Actions \subseteq {"START", "REVISE"}
    /\ Budget \in [Fault -> Nat]
    /\ PromptUnlock \subseteq {Main, Retry10s, Retry60s}
    /\ Free \notin Worker /\ Orphan \notin Worker

\* The content hash a task is filed under: a revision is scoped to its media.
Key(m, a) == IF a = "REVISE" THEN m ELSE HashOf[m]

Keys == {HashOf[m] : m \in Media} \union (IF "REVISE" \in Actions THEN Media ELSE {})
Partition == Topic \X Keys
Record == [media : Media, action : Actions \union {"BAD"}, attempt : 1 .. MaxAttempts]

\* mq.Outcome, with success split into run and reused, skipped into contended and media gone.
Outcome == {"success", "reused", "skipped", "gone", "retry", "dlq", "budget", "poison"}

VARIABLES
    log,        \* Kafka: the records of each partition
    committed,  \* Kafka: the group's committed offset (records before it are done)
    pos,        \* the position of the partition's current owner
    pc,         \* where each worker is in handle/Handle
    job,        \* the partition and offset it works on
    mine,       \* the worker's partition has not been revoked
    held,       \* lock.IsHeld() of the worker's lock
    verdict,    \* how Handle is ending: an Outcome, or the kind of bodyErr
    active,     \* Redis: analysis:active:{key} exists
    completed,  \* Redis: analysis:completed:{key}
    lock,       \* Redis: lock:analysis:{key}
    media,      \* database: present, deleting (row gone, artifacts not purged yet), gone
    result,     \* agent: a result checkpoint exists
    revision,   \* agent: the staged revision of the media
    stage,      \* checkpoint: the goal's stage
    ledger,     \* database: failed_analysis_task rows
    dlq,        \* Kafka: the dead-letter topic
    req,        \* what each HTTP request is doing
    left,       \* faults that may still happen
    handled     \* history: which record Handle has finished, and how

kafkaVars == <<log, committed, pos>>
workerVars == <<pc, job, mine, held, verdict>>
redisVars == <<active, completed, lock>>
agentVars == <<result, revision, stage>>
failVars == <<ledger, dlq>>
vars == <<kafkaVars, workerVars, redisVars, media, agentVars, failVars, req, left, handled>>

-----------------------------------------------------------------------------
(* Helpers *)

NoJob == [part |-> <<Main, None>>, off |-> 0]
Rec(w) == log[job[w].part][job[w].off]
KeyOf(w) == job[w].part[2]

Spend(x) ==
    /\ left[x] > 0 /\ left["any"] > 0
    /\ left' = [left EXCEPT ![x] = @ - 1, !["any"] = @ - 1]
Goto(w, l) == pc' = [pc EXCEPT ![w] = l]
Return(w, v, l) == verdict' = [verdict EXCEPT ![w] = v] /\ Goto(w, l)
Produce(p, r) == log' = [log EXCEPT ![p] = Append(@, r)]
SetStage(m, s) == stage' = [stage EXCEPT ![m] = s]
SaveFailure(m) == SetStage(m, "FAILED")
LoadStage(m) == stage[m]
HasResult(m) == result[m]
Release(k) == active' = [active EXCEPT ![k] = FALSE]

\* FailedTasks.Record: a new FAILED row.
RecordFailure(r) == ledger' = Append(ledger, [media |-> r.media, action |-> r.action,
                                        status |-> "FAILED", replays |-> 0])

Init ==
    /\ log = [p \in Partition |-> <<>>]
    /\ committed = [p \in Partition |-> 0]
    /\ pos = [p \in Partition |-> 0]
    /\ pc = [w \in Worker |-> "idle"]
    /\ job = [w \in Worker |-> NoJob]
    /\ mine = [w \in Worker |-> FALSE]
    /\ held = [w \in Worker |-> FALSE]
    /\ verdict = [w \in Worker |-> "none"]
    /\ active = [k \in Keys |-> FALSE]
    /\ completed = [k \in Keys |-> None]
    /\ lock = [k \in Keys |-> Free]
    /\ media = [m \in Media |-> "present"]
    /\ result = [m \in Media |-> FALSE]
    /\ revision = [m \in Media |-> "none"]
    /\ stage = [m \in Media |-> "none"]
    /\ ledger = <<>>
    /\ dlq = {}
    /\ req = [r \in Request |-> [do |-> "new"]]
    /\ left = Budget
    /\ handled = {}

-----------------------------------------------------------------------------
(* Dispatcher.Submit.  Duplicate, quota and billing refusals leave no trace. *)

SetReq(r, x) == req' = [req EXCEPT ![r] = x]
Done(r) == SetReq(r, [do |-> "done"])

\* SETNX of the active marker.
SubmitReserve(r, m, a) ==
    /\ req[r].do = "new" /\ media[m] = "present"
    /\ a \in Actions
    /\ ~active[Key(m, a)]
    /\ active' = [active EXCEPT ![Key(m, a)] = TRUE]
    /\ \/ SetReq(r, [do |-> "quota", media |-> m, action |-> a]) /\ UNCHANGED left
       \/ Spend("lostack") /\ Done(r)
    /\ UNCHANGED <<kafkaVars, workerVars, completed, lock, media, agentVars, failVars, handled>>

\* LoadResult: the agent is asked only for a result there is a checkpoint of.
LoadResult(m) == HasResult(m)

\* The aiAnalyze handler: a result there is answers the request.
aiAnalyze(r, m) == ~LoadResult(m) /\ SubmitReserve(r, m, "START")

\* The reviseAgentResult handler.
reviseAgentResult(r, m) == SubmitReserve(r, m, "REVISE")

\* The buckets say no: only the marker is taken back (an error of the DEL is ignored).
SubmitRateLimited(r) ==
    /\ req[r].do = "quota"
    /\ \/ Release(Key(req[r].media, req[r].action)) /\ UNCHANGED left
       \/ Spend("marker") /\ UNCHANGED active
    /\ Done(r)
    /\ UNCHANGED <<kafkaVars, workerVars, completed, lock, media, agentVars, failVars, handled>>

\* Quota granted; a revision is staged before it is enqueued (the old result stays).
SubmitStage(r) ==
    /\ req[r].do = "quota"
    /\ SetReq(r, [req[r] EXCEPT !.do = "publish"])
    /\ revision' = IF req[r].action = "REVISE"
                   THEN [revision EXCEPT ![req[r].media] = "pending"] ELSE revision
    /\ UNCHANGED <<kafkaVars, workerVars, redisVars, media, result, stage, failVars, left,
                   handled>>

\* The broker acknowledged the task.
SubmitPublish(r) ==
    /\ req[r].do = "publish"
    /\ Produce(<<Main, Key(req[r].media, req[r].action)>>,
               [media |-> req[r].media, action |-> req[r].action, attempt |-> 1])
    /\ Done(r)
    /\ UNCHANGED <<committed, pos, workerVars, redisVars, media, agentVars, failVars, left,
                   handled>>

\* fail(): the limiter, StageRevision or the produce failed.
SubmitFail(r) ==
    /\ \/ req[r].do = "quota" /\ Spend("call") /\ UNCHANGED log
       \/ req[r].do = "publish" /\ Spend("produce") /\ UNCHANGED log
       \/ /\ req[r].do = "publish" /\ Spend("lostack")
          /\ Produce(<<Main, Key(req[r].media, req[r].action)>>,
                     [media |-> req[r].media, action |-> req[r].action, attempt |-> 1])
    /\ Release(Key(req[r].media, req[r].action))
    /\ revision' = IF req[r].action = "REVISE"
                   THEN [revision EXCEPT ![req[r].media] = "none"] ELSE revision
    /\ Done(r)
    /\ UNCHANGED <<committed, pos, workerVars, completed, lock, media, result, stage, failVars,
                   handled>>

-----------------------------------------------------------------------------
(* FailedTasks.Replay *)

\* FindByID and the checks on the row; a poison row (unsupported action) is refused.
ReplayRead(r, i) ==
    /\ req[r].do = "new" /\ Spend("replay")
    /\ ledger[i].status = "FAILED" /\ ledger[i].action # "BAD"
    /\ SetReq(r, [do |-> "replay", row |-> i])
    /\ UNCHANGED <<kafkaVars, workerVars, redisVars, media, agentVars, failVars, handled>>

\* The failedReplay handler, for an administrator.
failedReplay(r) == \E i \in DOMAIN ledger : ReplayRead(r, i)

ReplayReserve(r) ==
    /\ req[r].do = "replay"
    /\ LET k == Key(ledger[req[r].row].media, ledger[req[r].row].action)
       IN  IF active[k]
           THEN Done(r) /\ UNCHANGED active
           ELSE /\ active' = [active EXCEPT ![k] = TRUE]
                /\ SetReq(r, [req[r] EXCEPT !.do = "replayPublish"])
    /\ UNCHANGED <<kafkaVars, workerVars, completed, lock, media, agentVars, failVars, left,
                   handled>>

\* PublishTask; a failure takes the marker back.
ReplayPublish(r) ==
    /\ req[r].do = "replayPublish"
    /\ LET row == ledger[req[r].row]
           k == Key(row.media, row.action)
       IN  \/ /\ Produce(<<Main, k>>, [media |-> row.media, action |-> row.action, attempt |-> 1])
              /\ ledger' = [ledger EXCEPT ![req[r].row].replays = @ + 1]
              /\ SetReq(r, [req[r] EXCEPT !.do = "replayMark"])
              /\ UNCHANGED <<active, left>>
           \/ /\ Spend("produce") /\ Release(k) /\ Done(r)
              /\ UNCHANGED <<log, ledger>>
           \/ /\ Spend("lostack") /\ Release(k) /\ Done(r)
              /\ Produce(<<Main, k>>, [media |-> row.media, action |-> row.action, attempt |-> 1])
              /\ ledger' = [ledger EXCEPT ![req[r].row].replays = @ + 1]
    /\ UNCHANGED <<committed, pos, workerVars, completed, lock, media, agentVars, dlq, handled>>

\* Mutant: the row is not updated.
ReplayMarkForgotten(r) ==
    /\ req[r].do = "replayMark"
    /\ Done(r)
    /\ UNCHANGED <<kafkaVars, workerVars, redisVars, media, agentVars, failVars, left, handled>>

MarkRequeued(i) == ledger' = [ledger EXCEPT ![i].status = "REQUEUED"]

\* If MarkRequeued fails the marker is kept and the row stays FAILED.
ReplayMark(r) ==
    /\ req[r].do = "replayMark"
    /\ \/ MarkRequeued(req[r].row) /\ UNCHANGED left
       \/ Spend("call") /\ UNCHANGED ledger
    /\ Done(r)
    /\ UNCHANGED <<kafkaVars, workerVars, redisVars, media, agentVars, dlq, handled>>

-----------------------------------------------------------------------------
(* Runner: a worker takes the next record of a partition and calls Handle. *)

FirstStep(r) == IF r.action = "BAD" THEN "poison" ELSE "lock"

Settled(w) == pc[w] \in {"settle", "unlock"}

Deliver(w, p) ==
    /\ pc[w] = "idle"
    /\ \A v \in Worker : ~(mine[v] /\ job[v].part = p)
    /\ pos[p] < Len(log[p])
    /\ p[1] \in PromptUnlock => \A v \in Worker : Settled(v) => KeyOf(v) # p[2]
    /\ job' = [job EXCEPT ![w] = [part |-> p, off |-> pos[p] + 1]]
    /\ mine' = [mine EXCEPT ![w] = TRUE]
    /\ Goto(w, FirstStep(log[p][pos[p] + 1]))
    /\ UNCHANGED <<kafkaVars, held, verdict, redisVars, media, agentVars, failVars, req, left,
                   handled>>

\* The worker is done with its record: back to the pool.
Rest(w) ==
    /\ Return(w, "none", "idle")
    /\ job' = [job EXCEPT ![w] = NoJob]
    /\ mine' = [mine EXCEPT ![w] = FALSE]

Finish(w, v) == handled' = handled \union {<<job[w].part, job[w].off, v>>}

\* Mutant: the backoff never ends.
RedeliverNever(w) ==
    /\ pc[w] = "backoff" /\ ~mine[w]
    /\ Rest(w)
    /\ UNCHANGED <<kafkaVars, held, redisVars, media, agentVars, failVars, req, left, handled>>

\* Handle returned an error: sleep and handle the record again, unless the worker was stopped.
Redeliver(w) ==
    /\ pc[w] = "backoff"
    /\ IF mine[w]
       THEN Return(w, "none", FirstStep(Rec(w))) /\ UNCHANGED <<job, mine>>
       ELSE Rest(w)
    /\ UNCHANGED <<kafkaVars, held, redisVars, media, agentVars, failVars, req, left, handled>>

\* Mutant: commits one record too many.
CommitOneMore(w) ==
    /\ pc[w] = "commit"
    /\ committed' = [committed EXCEPT ![job[w].part] = job[w].off + 1]
    /\ pos' = IF mine[w] THEN [pos EXCEPT ![job[w].part] = job[w].off] ELSE pos
    /\ Rest(w)
    /\ UNCHANGED <<log, held, redisVars, media, agentVars, failVars, req, left, handled>>

\* commit: the group's offset is set to this record's even if the partition was revoked
\* meanwhile; a failure (a member that left, a timeout) is only logged.
Commit(w) ==
    /\ pc[w] = "commit"
    /\ \/ committed' = [committed EXCEPT ![job[w].part] = job[w].off] /\ UNCHANGED left
       \/ UNCHANGED <<committed, left>> /\ ~mine[w]
       \/ UNCHANGED committed /\ Spend("call")
    /\ pos' = IF mine[w] THEN [pos EXCEPT ![job[w].part] = job[w].off] ELSE pos
    /\ Rest(w)
    /\ UNCHANGED <<log, held, redisVars, media, agentVars, failVars, req, handled>>

\* onRevoked and the next owner's start: the worker of the partition is detached (its record in
\* flight goes on), the new owner reads from the committed offset.
Rebalance(p) ==
    /\ pos[p] # committed[p] \/ \E w \in Worker : mine[w] /\ job[w].part = p
    /\ Spend("rebalance")
    /\ pos' = [pos EXCEPT ![p] = committed[p]]
    /\ mine' = [w \in Worker |-> mine[w] /\ job[w].part # p]
    /\ UNCHANGED <<log, committed, pc, job, held, verdict, redisVars, media, agentVars, failVars,
                   req, handled>>

-----------------------------------------------------------------------------
(* Consumer.Handle *)

\* TryLock with no wait.
TryLock(w) ==
    LET k == KeyOf(w) IN
    /\ pc[w] = "lock"
    /\ \/ /\ lock[k] = Free
          /\ lock' = [lock EXCEPT ![k] = w]
          /\ held' = [held EXCEPT ![w] = TRUE]
          /\ Goto(w, "process")
          /\ UNCHANGED <<verdict, left, handled>>
       \/ /\ lock[k] # Free
          /\ Return(w, "skipped", "commit")
          /\ Finish(w, "skipped")
          /\ UNCHANGED <<lock, held, left>>
       \/ /\ Spend("call")
          /\ Return(w, "transient", "route")
          /\ UNCHANGED <<lock, held, handled>>
    /\ UNCHANGED <<kafkaVars, job, mine, active, completed, media, agentVars, failVars, req>>

\* SET NX is applied but its reply is lost: TryLock fails, or the Redis client asks again and is
\* told the lock is taken (RedisLock!Resend).
TryLockOrphaned(w) ==
    /\ pc[w] = "lock" /\ lock[KeyOf(w)] = Free
    /\ Spend("lock")
    /\ lock' = [lock EXCEPT ![KeyOf(w)] = Orphan]
    /\ \/ Return(w, "transient", "route") /\ UNCHANGED handled
       \/ Return(w, "skipped", "commit") /\ Finish(w, "skipped")
    /\ UNCHANGED <<kafkaVars, job, mine, held, active, completed, media, agentVars, failVars, req>>

\* process: Media.Exists.
CheckMedia(w) ==
    /\ pc[w] = "process"
    /\ IF media[Rec(w).media] = "present"
       THEN Goto(w, "prepare") /\ UNCHANGED verdict
       ELSE Return(w, "gone", "settle")
    /\ UNCHANGED <<kafkaVars, job, mine, held, redisVars, media, agentVars, failVars, req, left,
                   handled>>

\* process, REVISE: BeginRevision (a pending revision drops the goal's checkpoints once), then
\* the completed marker goes.
BeginRevision(w) ==
    LET m == Rec(w).media IN
    /\ pc[w] = "prepare" /\ Rec(w).action = "REVISE"
    /\ IF revision[m] = "none"
       THEN /\ Return(w, "transient", "route")
            /\ UNCHANGED <<completed, agentVars, left>>
       ELSE /\ revision' = [revision EXCEPT ![m] = "applied"]
            /\ result' = [result EXCEPT ![m] = @ /\ revision[m] = "applied"]
            /\ \/ /\ completed' = [completed EXCEPT ![m] = None]
                  /\ SetStage(m, "CONSUMING")
                  /\ Goto(w, "analyze")
                  /\ UNCHANGED <<verdict, left>>
               \/ /\ Spend("call")
                  /\ stage' = IF revision[m] = "pending"
                              THEN [stage EXCEPT ![m] = "none"] ELSE stage
                  /\ Return(w, "transient", "route")
                  /\ UNCHANGED completed
    /\ UNCHANGED <<kafkaVars, job, mine, held, active, lock, media, failVars, req, handled>>

\* Mutant: reports a reuse without attaching the result.
TryReuseForgetsResult(w) ==
    LET src == completed[KeyOf(w)] IN
    /\ pc[w] = "prepare" /\ Rec(w).action = "START"
    /\ IF src # None /\ result[src]
       THEN Return(w, "reused", "settle") /\ UNCHANGED <<completed, stage>>
       ELSE /\ completed' = [completed EXCEPT ![KeyOf(w)] = None]
            /\ SetStage(Rec(w).media, "CONSUMING")
            /\ Goto(w, "analyze")
            /\ UNCHANGED verdict
    /\ UNCHANGED <<kafkaVars, job, mine, held, active, lock, media, result, revision, failVars, req,
                   left, handled>>

\* Mutant: a media whose own result is found is refused as a source.
TryReuseRefusesItself(w) ==
    /\ pc[w] = "prepare" /\ Rec(w).action = "START"
    /\ IF completed[KeyOf(w)] = Rec(w).media
       THEN Return(w, "permanent", "route") /\ UNCHANGED stage
       ELSE Goto(w, "analyze") /\ SetStage(Rec(w).media, "CONSUMING") /\ UNCHANGED verdict
    /\ UNCHANGED <<kafkaVars, job, mine, held, redisVars, media, result, revision, failVars, req,
                   left, handled>>

\* ReuseResult: the agent attaches the finished result of another media.
ReuseResult(m) == result' = [result EXCEPT ![m] = TRUE] /\ SetStage(m, "COMPLETED")

\* process, START: tryReuse a finished analysis of the same content.
TryReuse(w) ==
    LET m == Rec(w).media
        src == completed[KeyOf(w)]
    IN
    /\ pc[w] = "prepare" /\ Rec(w).action = "START"
    /\ IF src # None /\ result[src]
       THEN /\ IF media[m] = "present"
               THEN /\ ReuseResult(m)
                    /\ \/ Return(w, "reused", "settle") /\ UNCHANGED left
                       \/ Spend("call") /\ Return(w, "transient", "route")
               ELSE /\ Return(w, "permanent", "route")
                    /\ UNCHANGED <<result, stage, left>>
            /\ UNCHANGED completed
       ELSE /\ completed' = [completed EXCEPT ![KeyOf(w)] = None]
            /\ SetStage(m, "CONSUMING")
            /\ Goto(w, "analyze")
            /\ UNCHANGED <<verdict, result, left>>
    /\ UNCHANGED <<kafkaVars, job, mine, held, active, lock, media, revision, failVars, req,
                   handled>>

\* AsyncAnalyze: a media without a row is an invalid argument; an existing result ends it.
AsyncAnalyze(w) ==
    LET m == Rec(w).media IN
    /\ pc[w] = "analyze"
    /\ IF media[m] # "present"
       THEN Return(w, "permanent", "route")
       ELSE Goto(w, IF HasResult(m) THEN "conclude" ELSE "run") /\ UNCHANGED verdict
    /\ UNCHANGED <<kafkaVars, job, mine, held, redisVars, media, agentVars, failVars, req, left,
                   handled>>

\* How a gRPC call of the agent fails; BudgetExhausted is ResourceExhausted with that reason in the trailer.
Codes == {"InvalidArgument", "FailedPrecondition", "BudgetExhausted", "ResourceExhausted", "Unauthenticated",
          "Unavailable"}

\* MapError: what the status means for the task.
MapError(code) == CASE code = "InvalidArgument" -> "permanent"
                    [] code = "BudgetExhausted" -> "budget"
                    [] OTHER -> "transient"

\* Context build and agent run: a result, or a failure of some kind (SaveFailure); the agent may
\* have stored the result although its reply or persistResult failed.
Run(w) ==
    LET m == Rec(w).media IN
    /\ pc[w] = "run"
    /\ \/ /\ result' = [result EXCEPT ![m] = TRUE]
          /\ SetStage(m, "COMPLETED")
          /\ Goto(w, "conclude")
          /\ UNCHANGED <<verdict, left>>
       \/ /\ Spend("agent")
          /\ SaveFailure(m)
          /\ \E code \in Codes :
                Return(w, MapError(code), IF MapError(code) = "budget" THEN "settle" ELSE "route")
          /\ UNCHANGED result
       \/ /\ Spend("lostack")
          /\ SaveFailure(m)
          /\ Return(w, "transient", "route")
          /\ result' = [result EXCEPT ![m] = TRUE]
    /\ UNCHANGED <<kafkaVars, job, mine, held, redisVars, media, revision, failVars, req, handled>>

\* process, after the analysis: CompleteRevision, clean up after a media deleted meanwhile, or
\* remember the result under the completed marker.
Conclude(w) ==
    LET m == Rec(w).media IN
    /\ pc[w] = "conclude"
    /\ \/ /\ media[m] = "present"
          /\ completed' = [completed EXCEPT ![KeyOf(w)] = m]
          /\ revision' = IF Rec(w).action = "REVISE"
                         THEN [revision EXCEPT ![m] = "none"] ELSE revision
          /\ Return(w, "success", "settle")
          /\ UNCHANGED <<result, stage, left>>
       \/ /\ media[m] # "present"
          /\ result' = [result EXCEPT ![m] = FALSE]
          /\ revision' = [revision EXCEPT ![m] = "none"]
          /\ SetStage(m, "none")
          /\ Return(w, "success", "settle")
          /\ UNCHANGED <<completed, left>>
       \/ /\ Spend("call")
          /\ revision' = IF Rec(w).action = "REVISE"
                         THEN [revision EXCEPT ![m] = "none"] ELSE revision
          /\ \/ UNCHANGED completed
             \/ media[m] = "present" /\ completed' = [completed EXCEPT ![KeyOf(w)] = m]
          /\ Return(w, "transient", "route")
          /\ UNCHANGED <<result, stage>>
    /\ UNCHANGED <<kafkaVars, job, mine, held, active, lock, media, failVars, req, handled>>

\* A call of process fails before it has any effect (AsyncAnalyze may save the failure).
CallFails(w) ==
    /\ pc[w] \in {"process", "prepare", "analyze", "conclude"}
    /\ Spend("call")
    /\ Return(w, "transient", "route")
    /\ \/ UNCHANGED stage
       \/ pc[w] = "analyze" /\ SaveFailure(Rec(w).media)
    /\ UNCHANGED <<kafkaVars, job, mine, held, redisVars, media, result, revision, failVars, req,
                   handled>>

RouteFailure(permanent, attempt) ==
    IF permanent THEN DLQ
    ELSE IF attempt <= 1 THEN Retry10s
    ELSE IF attempt < MaxAttempts THEN Retry60s
    ELSE DLQ

IsPermanentFailure(kind) == kind = "permanent"

Route(w) == RouteFailure(IsPermanentFailure(verdict[w]), Rec(w).attempt)

NextAttempt(r) == [r EXCEPT !.attempt = @ + 1]

\* Mutant: a detached worker leaves the retry to the new owner.
ForwardRetryIfAttached(w) ==
    /\ pc[w] = "route" /\ Route(w) # DLQ
    /\ IF mine[w] THEN Produce(<<Route(w), KeyOf(w)>>, NextAttempt(Rec(w))) ELSE UNCHANGED log
    /\ Return(w, "retry", "settle")
    /\ UNCHANGED <<committed, pos, job, mine, held, redisVars, media, agentVars, failVars, req,
                   left, handled>>

\* Forward to a retry topic.
ForwardRetry(w) ==
    /\ pc[w] = "route" /\ Route(w) # DLQ
    /\ Produce(<<Route(w), KeyOf(w)>>, NextAttempt(Rec(w)))
    /\ Return(w, "retry", "settle")
    /\ UNCHANGED <<committed, pos, job, mine, held, redisVars, media, agentVars, failVars, req,
                   left, handled>>

\* Dead-letter: the ledger row (a failure to write it is only logged), then the DLQ record.
DeadLetter(w) ==
    /\ pc[w] = "route" /\ Route(w) = DLQ
    /\ \/ RecordFailure(Rec(w)) /\ UNCHANGED left
       \/ UNCHANGED ledger /\ Spend("call")
    /\ dlq' = dlq \union {Rec(w)}
    /\ Return(w, "dlq", "settle")
    /\ UNCHANGED <<kafkaVars, job, mine, held, redisVars, media, agentVars, req, handled>>

\* The produce failed, or seems to have: Handle returns an error and the record is kept.
RouteFails(w) ==
    /\ pc[w] = "route"
    /\ \/ Spend("produce") /\ UNCHANGED log
       \/ /\ Spend("lostack") /\ Route(w) # DLQ
          /\ Produce(<<Route(w), KeyOf(w)>>, NextAttempt(Rec(w)))
    /\ IF Route(w) = DLQ THEN RecordFailure(Rec(w)) ELSE UNCHANGED ledger
    /\ Return(w, "redeliver", "unlock")
    /\ UNCHANGED <<committed, pos, job, mine, held, redisVars, media, agentVars, dlq, req, handled>>

\* Mutant: the marker goes during retries too.
SettleAlwaysReleases(w) ==
    /\ pc[w] = "settle"
    /\ Release(KeyOf(w))
    /\ Goto(w, "unlock")
    /\ UNCHANGED <<kafkaVars, job, mine, held, verdict, completed, lock, media, agentVars, failVars,
                   req, left, handled>>

\* What Handle does once the outcome is known: the active marker goes (but stays alive during
\* retries; an error of the DEL is ignored), the stage is recorded.
Settle(w) ==
    LET m == Rec(w).media IN
    /\ pc[w] = "settle"
    /\ \/ verdict[w] = "retry" /\ UNCHANGED <<active, left>>
       \/ verdict[w] # "retry" /\ Release(KeyOf(w)) /\ UNCHANGED left
       \/ verdict[w] # "retry" /\ Spend("marker") /\ UNCHANGED active
    /\ stage' = [stage EXCEPT ![m] = CASE verdict[w] = "retry"  -> "RETRYING"
                                       [] verdict[w] = "dlq"    -> "DEAD_LETTERED"
                                       [] verdict[w] = "budget" -> "BUDGET_EXHAUSTED"
                                       [] OTHER                 -> @]
    /\ Goto(w, "unlock")
    /\ UNCHANGED <<kafkaVars, job, mine, held, verdict, completed, lock, media, result, revision,
                   failVars, req, handled>>

\* The deferred Unlock (compare and delete), then Handle returns.
Unlock(w) ==
    LET k == KeyOf(w) IN
    /\ pc[w] = "unlock"
    /\ \/ /\ lock' = IF held[w] /\ lock[k] = w THEN [lock EXCEPT ![k] = Free] ELSE lock
          /\ UNCHANGED left
       \/ held[w] /\ lock[k] = w /\ Spend("lock") /\ lock' = [lock EXCEPT ![k] = Orphan]
    /\ held' = [held EXCEPT ![w] = FALSE]
    /\ IF verdict[w] = "redeliver"
       THEN Goto(w, "backoff") /\ UNCHANGED handled
       ELSE Goto(w, "commit") /\ Finish(w, verdict[w])
    /\ UNCHANGED <<kafkaVars, job, mine, verdict, active, completed, media, agentVars, failVars,
                   req>>

\* Mutant: failures of both sinks are only logged.
DiscardPoisonLogged(w) ==
    /\ pc[w] = "poison"
    /\ \/ RecordFailure(Rec(w)) /\ dlq' = dlq \union {Rec(w)} /\ UNCHANGED left
       \/ UNCHANGED <<ledger, dlq>> /\ Spend("call")
    /\ Release(KeyOf(w))
    /\ Return(w, "poison", "commit")
    /\ Finish(w, "poison")
    /\ UNCHANGED <<kafkaVars, job, mine, held, completed, lock, media, agentVars, req>>

\* discardPoison: ledger and DLQ are both tried, one is enough; then the task's marker goes.
\* One outage may take both.
DiscardPoison(w) ==
    LET m == Rec(w).media IN
    /\ pc[w] = "poison"
    /\ \/ /\ \/ RecordFailure(Rec(w)) /\ dlq' = dlq \union {Rec(w)} /\ UNCHANGED left
             \/ Spend("produce") /\ RecordFailure(Rec(w)) /\ UNCHANGED dlq
             \/ Spend("call") /\ UNCHANGED ledger /\ dlq' = dlq \union {Rec(w)}
          /\ Release(KeyOf(w))
          /\ SetStage(m, "DEAD_LETTERED")
          /\ Return(w, "poison", "commit")
          /\ Finish(w, "poison")
       \/ /\ left["produce"] > 0 /\ left["call"] > 0 /\ left["any"] > 0
          /\ left' = [left EXCEPT !["produce"] = @ - 1, !["call"] = @ - 1, !["any"] = @ - 1]
          /\ Return(w, "redeliver", "backoff")
          /\ UNCHANGED <<ledger, dlq, active, stage, handled>>
    /\ UNCHANGED <<kafkaVars, job, mine, held, completed, lock, media, result, revision, req>>

-----------------------------------------------------------------------------
(* The task lock's trouble, crashes and the environment *)

\* The lease expires under a worker that does not know yet.
Lapse(k) ==
    /\ lock[k] \in Worker
    /\ Spend("lock")
    /\ lock' = [lock EXCEPT ![k] = Free]
    /\ UNCHANGED <<kafkaVars, workerVars, active, completed, media, agentVars, failVars, req,
                   handled>>

\* Lost() closes: because the lease is gone, or (lock fault) after renewals whose replies were
\* lost while the key is still there (RedisLock!RenewError).  Work in progress is cancelled.
LoseLock(w) ==
    /\ held[w]
    /\ IF lock[KeyOf(w)] = w
       THEN Spend("lock") /\ lock' = [lock EXCEPT ![KeyOf(w)] = Orphan]
       ELSE UNCHANGED <<lock, left>>
    /\ held' = [held EXCEPT ![w] = FALSE]
    /\ IF pc[w] \in {"process", "prepare", "analyze", "run", "conclude"}
       THEN Return(w, "transient", "route")
       ELSE UNCHANGED <<pc, verdict>>
    /\ IF pc[w] = "run" THEN SaveFailure(Rec(w).media) ELSE UNCHANGED stage
    /\ UNCHANGED <<kafkaVars, job, mine, active, completed, media, result, revision, failVars, req,
                   handled>>

\* The active marker's six hours run out.
MarkerExpires(k) ==
    /\ active[k] /\ Spend("marker")
    /\ Release(k)
    /\ UNCHANGED <<kafkaVars, workerVars, completed, lock, media, agentVars, failVars, req, handled>>

\* The lease nobody renews runs out.
OrphanExpires(k) ==
    /\ lock[k] = Orphan
    /\ lock' = [lock EXCEPT ![k] = Free]
    /\ UNCHANGED <<kafkaVars, workerVars, active, completed, media, agentVars, failVars, req, left,
                   handled>>

\* The process dies: its lock is orphaned, the next owner of the partition starts at the
\* committed offset.
Crash(w) ==
    /\ pc[w] # "idle"
    /\ Spend("crash")
    /\ lock' = [k \in Keys |-> IF lock[k] = w THEN Orphan ELSE lock[k]]
    /\ pos' = IF mine[w] THEN [pos EXCEPT ![job[w].part] = committed[job[w].part]] ELSE pos
    /\ held' = [held EXCEPT ![w] = FALSE]
    /\ Rest(w)
    /\ UNCHANGED <<log, committed, active, completed, media, agentVars, failVars, req, handled>>

RequestCrash(r) ==
    /\ req[r].do \notin {"new", "done"}
    /\ Spend("crash")
    /\ Done(r)
    /\ UNCHANGED <<kafkaVars, workerVars, redisVars, media, agentVars, failVars, handled>>

\* DeleteOwnedMedia: the row first, the runtime artifacts afterwards.
DeleteMedia(m) ==
    /\ \/ /\ media[m] = "present" /\ Spend("delete")
          /\ media' = [media EXCEPT ![m] = "deleting"]
          /\ UNCHANGED agentVars
       \/ /\ media[m] = "deleting"
          /\ media' = [media EXCEPT ![m] = "gone"]
          /\ result' = [result EXCEPT ![m] = FALSE]
          /\ revision' = [revision EXCEPT ![m] = "none"]
          /\ SetStage(m, "none")
          /\ UNCHANGED left
    /\ UNCHANGED <<kafkaVars, workerVars, redisVars, failVars, req, handled>>

\* A message with an action this consumer does not know.
ForeignPublish(m) ==
    /\ Spend("poison")
    /\ Produce(<<Main, HashOf[m]>>, [media |-> m, action |-> "BAD", attempt |-> 1])
    /\ UNCHANGED <<committed, pos, workerVars, redisVars, media, agentVars, failVars, req, handled>>

-----------------------------------------------------------------------------

Submission(r) ==
    \/ \E m \in Media : aiAnalyze(r, m) \/ reviseAgentResult(r, m)
    \/ SubmitRateLimited(r) \/ SubmitStage(r) \/ SubmitPublish(r) \/ SubmitFail(r)

Replay(r) ==
    \/ failedReplay(r) \/ ReplayReserve(r) \/ ReplayPublish(r) \/ ReplayMark(r)

Handle(w) ==
    \/ TryLock(w) \/ TryLockOrphaned(w) \/ CheckMedia(w) \/ BeginRevision(w) \/ TryReuse(w)
    \/ AsyncAnalyze(w) \/ Run(w) \/ Conclude(w) \/ CallFails(w) \/ ForwardRetry(w)
    \/ DeadLetter(w) \/ RouteFails(w) \/ Settle(w) \/ Unlock(w) \/ DiscardPoison(w)

Work(w) == (\E p \in Partition : Deliver(w, p)) \/ Handle(w) \/ Redeliver(w) \/ Commit(w)

Environment ==
    \/ \E w \in Worker : LoseLock(w) \/ Crash(w)
    \/ \E p \in Partition : Rebalance(p)
    \/ \E k \in Keys : Lapse(k) \/ OrphanExpires(k) \/ MarkerExpires(k)
    \/ \E r \in Request : RequestCrash(r)
    \/ \E m \in Media : DeleteMedia(m) \/ ForeignPublish(m)

Next ==
    \/ \E r \in Request : Submission(r) \/ Replay(r)
    \/ \E w \in Worker : Work(w)
    \/ Environment

Spec == Init /\ [][Next]_vars

\* Requests, workers and lease expiry go on by themselves; faults need not happen.
Fairness ==
    /\ \A r \in Request : WF_vars(SubmitStage(r) \/ SubmitRateLimited(r)) /\ WF_vars(SubmitPublish(r))
    /\ \A r \in Request : WF_vars(ReplayReserve(r) \/ ReplayPublish(r) \/ ReplayMark(r))
    /\ \A w \in Worker : WF_vars(Handle(w) \/ Redeliver(w) \/ Commit(w))
    /\ \A p \in Partition : WF_vars(\E w \in Worker : Deliver(w, p))
    /\ \A k \in Keys : WF_vars(OrphanExpires(k))

FairSpec == Spec /\ Fairness

-----------------------------------------------------------------------------
(* Properties *)

Handled(p, o) == \E v \in Outcome : <<p, o, v>> \in handled

\* At-least-once: an offset is committed only when Handle has finished every record before it,
\* although a detached worker may commit behind the new owner's back.
CommitImpliesHandled ==
    \A p \in Partition : \A o \in 1 .. committed[p] : Handled(p, o)

\* Somebody will still finish this key's task.
Requested(k) ==
    \E r \in Request :
        \/ /\ req[r].do \in {"quota", "publish"}
           /\ Key(req[r].media, req[r].action) = k
        \/ /\ req[r].do = "replayPublish"
           /\ Key(ledger[req[r].row].media, ledger[req[r].row].action) = k
Uncommitted(k) == \E t \in Topic : committed[<<t, k>>] < Len(log[<<t, k>>])
InFlight(k) ==
    \E w \in Worker : /\ pc[w] # "idle" /\ KeyOf(w) = k
                      /\ pc[w] = "backoff" => mine[w]

\* No task is lost: while the active marker says that a task is running, a request is about to
\* publish it, Kafka still has its record, or a worker has it in hand.
NoTaskLost == \A k \in Keys : active[k] => Requested(k) \/ Uncommitted(k) \/ InFlight(k)

\* "keep active alive during retries": the marker outlives every record that waits in a retry
\* topic and has not been handled, as long as no partition has changed hands.
RetryKeepsActive ==
    left["rebalance"] = Budget["rebalance"] => \A p \in Partition : \A o \in committed[p] + 1 .. Len(log[p]) :
        p[1] # Main /\ ~Handled(p, o)
          => \/ active[p[2]]
             \/ \E w \in Worker : job[w] = [part |-> p, off |-> o] /\ pc[w] = "unlock"

\* IsActive: a task of the content, or a revision of the media.
IsActive(m) == \E k \in Keys \intersect {m, HashOf[m]} : active[k]

\* StatusService.Current: what the user is told about a media's analysis.
Current(m) ==
    CASE LoadResult(m) -> "DONE"
      [] ~LoadResult(m) /\ IsActive(m) -> "PROCESSING"
      [] OTHER -> IF LoadStage(m) \in {"BUDGET_EXHAUSTED", "FAILED", "DEAD_LETTERED"}
                  THEN "FAILED" ELSE "NOT_STARTED"

\* Every accepted task ends visibly: once nothing of it is pending, the user is shown a result
\* or a failure, not "processing" and not "never submitted", as long as no partition has changed hands.
EndIsVisible ==
    left["rebalance"] = Budget["rebalance"] => \A m \in Media, a \in Actions :
        LET k == Key(m, a) IN
        (/\ media[m] = "present"
         /\ \E o \in DOMAIN log[<<Main, k>>] :
               log[<<Main, k>>][o].media = m /\ log[<<Main, k>>][o].action = a
         /\ \A q \in Keys \intersect {m, HashOf[m]} :
               ~Requested(q) /\ ~Uncommitted(q) /\ ~InFlight(q))
        => Current(m) \in {"DONE", "FAILED"}

\* A dead-lettered or unusable message can be found: in the ledger or in the DLQ.
FailureIsRecorded ==
    \A h \in handled :
        h[3] \in {"dlq", "poison"} =>
            LET r == log[h[1]][h[2]] IN
            \/ \E i \in DOMAIN ledger : ledger[i].media = r.media /\ ledger[i].action = r.action
            \/ \E d \in dlq : d.media = r.media /\ d.action = r.action

\* "the next owner re-handles the record and the idempotency keys absorb it": a record that was
\* handled successfully is not treated as failed when it is delivered again, unless its media is deleted.
AbsorbsRedelivery ==
    \A w \in Worker :
        pc[w] = "settle" /\ verdict[w] \in {"retry", "dlq"} /\ media[Rec(w).media] = "present"
          => <<job[w].part, job[w].off, "success">> \notin handled

\* "keep the idempotency key so a bookkeeping failure cannot cause a duplicate replay": a row
\* that was replayed but still reads FAILED is guarded by the active marker.
ReplayGuarded ==
    \A i \in DOMAIN ledger :
        /\ ledger[i].status = "FAILED" /\ ledger[i].replays > 0
        /\ ~\E r \in Request : req[r].do = "replayMark" /\ req[r].row = i
        => active[Key(ledger[i].media, ledger[i].action)]

\* A task that is accepted stops being active.
TasksEnd == \A k \in Keys : active[k] ~> ~active[k]
=============================================================================
