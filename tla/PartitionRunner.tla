--------------------------- MODULE PartitionRunner ---------------------------
(***************************************************************************)
(* How mq.Runner feeds one partition: the poll loop hands a fetched batch  *)
(* to the partition's worker goroutine and pauses fetching, the worker     *)
(* resumes it when its queue is empty, a rebalance detaches the worker,    *)
(* Shutdown stops it.  Handle itself is module TaskPipeline; here it only  *)
(* succeeds or fails.  The Kafka client (fetch position, pause flag,       *)
(* assignment) is external and modelled from the calls the runner makes.   *)
(***************************************************************************)
EXTENDS Integers, Sequences

CONSTANTS
    N,         \* records in the partition
    MaxBatch,  \* records one poll may return (256 in Run)
    Worker,    \* goroutines; an id is free again when its goroutine has returned
    None

ASSUME RunnerAssumption == N \in Nat /\ MaxBatch \in Nat \ {0} /\ None \notin Worker

VARIABLES
    loop,       \* Run: where the poll loop is
    batch,      \* the records of the poll being dispatched
    cur,        \* r.workers[tp], or None
    pc,         \* each worker's place in run()
    q,          \* w.q
    rec,        \* the record in hand, or 0
    wake,       \* w.wake holds its token
    done,       \* w.done is closed
    assigned,   \* this member owns the partition
    paused,     \* fetching of the partition is paused
    fetch,      \* the client's fetch position: the last record polled
    committed,  \* the group's committed offset
    handled     \* history: the records Handle has finished

runVars == <<loop, batch, cur>>
workerVars == <<pc, q, rec, wake, done>>
kafkaVars == <<assigned, paused, fetch, committed>>
vars == <<runVars, workerVars, kafkaVars, handled>>

Init ==
    /\ loop = "poll" /\ batch = <<>> /\ cur = None
    /\ pc = [w \in Worker |-> "gone"]
    /\ q = [w \in Worker |-> <<>>]
    /\ rec = [w \in Worker |-> 0]
    /\ wake = [w \in Worker |-> FALSE]
    /\ done = [w \in Worker |-> FALSE]
    /\ assigned = TRUE /\ paused = FALSE /\ fetch = 0 /\ committed = 0
    /\ handled = {}

-----------------------------------------------------------------------------
(* Run and dispatch *)

\* PollRecords returns the next records of the partition, unless it is paused.
Poll ==
    /\ loop = "poll" /\ assigned /\ ~paused
    /\ \E n \in 1 .. MaxBatch :
         /\ fetch + n <= N
         /\ batch' = [i \in 1 .. n |-> fetch + i]
         /\ fetch' = fetch + n
    /\ loop' = "dispatch"
    /\ UNCHANGED <<cur, workerVars, assigned, paused, committed, handled>>

\* dispatch looks the worker up, or starts one.
Dispatch ==
    /\ loop = "dispatch"
    /\ \/ cur # None /\ UNCHANGED <<cur, workerVars>>
       \/ \E w \in Worker :
            /\ cur = None /\ pc[w] = "gone"
            /\ cur' = w
            /\ pc' = [pc EXCEPT ![w] = "loop"]
            /\ UNCHANGED <<q, rec, wake, done>>
    /\ loop' = "pause"
    /\ UNCHANGED <<batch, kafkaVars, handled>>

Pause ==
    /\ loop = "pause"
    /\ paused' = TRUE
    /\ loop' = "enqueue"
    /\ UNCHANGED <<batch, cur, workerVars, assigned, fetch, committed, handled>>

\* w.mu is free: no worker is between the two halves of next().
Unlocked(w) == pc[w] # "resume"

\* Mutant: the queue is replaced, as if it were known to be empty.
EnqueueReplaces ==
    /\ loop = "enqueue" /\ Unlocked(cur)
    /\ q' = [q EXCEPT ![cur] = batch]
    /\ wake' = [wake EXCEPT ![cur] = TRUE]
    /\ loop' = "poll" /\ batch' = <<>>
    /\ UNCHANGED <<cur, pc, rec, done, kafkaVars, handled>>

\* enqueue, and the token if the channel has room; then the next poll.
Enqueue ==
    /\ loop = "enqueue" /\ Unlocked(cur)
    /\ q' = [q EXCEPT ![cur] = @ \o batch]
    /\ wake' = [wake EXCEPT ![cur] = TRUE]
    /\ loop' = "poll" /\ batch' = <<>>
    /\ UNCHANGED <<cur, pc, rec, done, kafkaVars, handled>>

-----------------------------------------------------------------------------
(* partitionWorker.run *)

Goto(w, l) == pc' = [pc EXCEPT ![w] = l]

\* The goroutine returns; what it had queued is garbage.
Return(w) ==
    /\ Goto(w, "gone")
    /\ q' = [q EXCEPT ![w] = <<>>]
    /\ rec' = [rec EXCEPT ![w] = 0]
    /\ wake' = [wake EXCEPT ![w] = FALSE]
    /\ done' = [done EXCEPT ![w] = FALSE]

\* Top of the inner loop.
CheckStopped(w) ==
    /\ pc[w] = "loop"
    /\ IF done[w] THEN Return(w) ELSE Goto(w, "next") /\ UNCHANGED <<q, rec, wake, done>>
    /\ UNCHANGED <<runVars, kafkaVars, handled>>

\* next(): take the head, or find the queue empty and the worker not stopped.
Take(w) ==
    /\ pc[w] = "next"
    /\ IF q[w] = <<>>
       THEN Goto(w, IF done[w] THEN "wait" ELSE "resume") /\ UNCHANGED <<q, rec>>
       ELSE /\ rec' = [rec EXCEPT ![w] = Head(q[w])]
            /\ q' = [q EXCEPT ![w] = Tail(@)]
            /\ Goto(w, "handle")
    /\ UNCHANGED <<runVars, wake, done, kafkaVars, handled>>

\* ResumeFetchPartitions, still under w.mu.
Resume(w) ==
    /\ pc[w] = "resume"
    /\ paused' = FALSE
    /\ Goto(w, "wait")
    /\ UNCHANGED <<runVars, q, rec, wake, done, assigned, fetch, committed, handled>>

\* select on the token and on done.
Wait(w) ==
    /\ pc[w] = "wait"
    /\ \/ /\ wake[w] /\ wake' = [wake EXCEPT ![w] = FALSE]
          /\ Goto(w, "loop")
          /\ UNCHANGED <<q, rec, done>>
       \/ done[w] /\ Return(w)
    /\ UNCHANGED <<runVars, kafkaVars, handled>>

\* Handle succeeds; the commit may fail (it is only logged), and that of a worker whose partition
\* was revoked may still be accepted.
HandleOK(w) ==
    /\ pc[w] = "handle"
    /\ handled' = handled \union {rec[w]}
    /\ \/ committed' = rec[w]
       \/ UNCHANGED committed
    /\ Goto(w, "loop")
    /\ rec' = [rec EXCEPT ![w] = 0]
    /\ UNCHANGED <<runVars, q, wake, done, assigned, paused, fetch>>

\* Handle failed, or the record's x-not-before is in the future: sleep, and give up if stopped.
\* (Not stopped, the same record is handled again.)
GiveUp(w) ==
    /\ pc[w] = "handle" /\ done[w]
    /\ Return(w)
    /\ UNCHANGED <<runVars, kafkaVars, handled>>

-----------------------------------------------------------------------------
(* Rebalance and shutdown *)

\* Between polls (BlockRebalanceOnPoll): the worker is stopped and forgotten, fetching resumed.
OnRevoked ==
    /\ loop = "poll" /\ assigned
    /\ assigned' = FALSE /\ paused' = FALSE
    /\ done' = IF cur = None THEN done ELSE [done EXCEPT ![cur] = TRUE]
    /\ cur' = None
    /\ UNCHANGED <<loop, batch, pc, q, rec, wake, fetch, committed, handled>>

\* The partition comes back; fetching starts at the committed offset.
Assign ==
    /\ loop = "poll" /\ ~assigned
    /\ assigned' = TRUE /\ fetch' = committed
    /\ UNCHANGED <<runVars, workerVars, paused, committed, handled>>

\* Another member owns the partition and handles its next record.
OtherMember ==
    /\ ~assigned /\ committed < N
    /\ committed' = committed + 1 /\ handled' = handled \union {committed + 1}
    /\ UNCHANGED <<runVars, workerVars, assigned, paused, fetch>>

\* Mutant: the worker is forgotten but not stopped.
ShutdownWithoutStop ==
    /\ loop = "poll"
    /\ loop' = "closing"
    /\ cur' = None
    /\ UNCHANGED <<batch, workerVars, kafkaVars, handled>>

\* The process ends: polling has stopped, then Shutdown stops the workers.
Shutdown ==
    /\ loop = "poll"
    /\ loop' = "closing"
    /\ done' = IF cur = None THEN done ELSE [done EXCEPT ![cur] = TRUE]
    /\ cur' = None
    /\ UNCHANGED <<batch, pc, q, rec, wake, kafkaVars, handled>>

\* The workers have returned: leave the group.
CloseAllowingRebalance ==
    /\ loop = "closing" /\ \A w \in Worker : pc[w] = "gone"
    /\ loop' = "closed"
    /\ assigned' = FALSE
    /\ UNCHANGED <<batch, cur, workerVars, paused, fetch, committed, handled>>

-----------------------------------------------------------------------------

Run == Poll \/ Dispatch \/ Pause \/ Enqueue
Work(w) == CheckStopped(w) \/ Take(w) \/ Resume(w) \/ Wait(w) \/ HandleOK(w) \/ GiveUp(w)
Group == OnRevoked \/ Assign \/ OtherMember \/ Shutdown \/ CloseAllowingRebalance

Next == Run \/ Group \/ \E w \in Worker : Work(w)

Spec == Init /\ [][Next]_vars

\* The poll loop and the goroutines are scheduled; Handle succeeds in the end (its backoff loop
\* has no limit); a shutdown is finished.  Nobody has to start a rebalance or a shutdown.
FairSpec ==
    /\ Spec /\ WF_vars(Run) /\ WF_vars(CloseAllowingRebalance) /\ WF_vars(OtherMember)
    /\ \A w \in Worker : WF_vars(CheckStopped(w) \/ Take(w) \/ Resume(w) \/ Wait(w) \/ HandleOK(w))

-----------------------------------------------------------------------------
(* Properties *)

\* No record is skipped: when a worker has a record in hand, every earlier one has been handled,
\* also when a second batch was queued behind the first, and across rebalances.
NothingSkipped ==
    \A w \in Worker : pc[w] = "handle" => 1 .. rec[w] - 1 \subseteq handled

\* No lost wakeup: between polls a paused partition has a worker that is running or has a token
\* waiting, so that somebody will resume it (next() in runner.go).
PausedMeansBusy ==
    loop = "poll" /\ assigned /\ paused =>
        /\ cur # None /\ ~done[cur]
        /\ pc[cur] \in {"loop", "next", "resume", "handle"} \/ wake[cur]

\* Every record is handled: by this member if it keeps the partition, by others if it does not.
EveryRecordHandled == (<>[]assigned \/ <>[](~assigned)) => <>(handled = 1 .. N)
=============================================================================
