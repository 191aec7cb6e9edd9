------------------------------ MODULE Admission ------------------------------
(***************************************************************************)
(* What admits AI work of signed-in users: the daily allowance             *)
(* (billing/billing.go), the user's and the global bucket, and the AI pool *)
(* (workerpool/pool.go) that interactive questions (runInteractive) share  *)
(* with transcriptions (analysis/transcription.go).                        *)
(*                                                                         *)
(* One media is transcribed.  A model call costs between nothing and       *)
(* MaxCost.                                                                *)
(***************************************************************************)
EXTENDS Accounts, RateLimit

CONSTANTS Limit, MaxCost,   \* Ledger.Limit, and the cost of one call
          Workers, Queued,  \* the workers of the pool and its waiting slots
          Task              \* goroutines of the pool

ASSUME AdmissionAssumption ==
  /\ Limit \in Nat /\ MaxCost \in Nat /\ Workers \in Nat \ {0} /\ Queued \in Nat
  /\ IsFiniteSet(Task) /\ {None, "nobody"} \cap Client = {} /\ None # "nobody"
  /\ {"ask", "route"} \X (User \cup {None}) \subseteq Key

VARIABLES spent,     \* billing:spend:<user>:<day>
          late,      \* the client's request came after the allowance was used up (history)
          inflight,  \* the pool's counter
          task,      \* the goroutines Submit has started
          active,    \* transcription:active:<media>
          state,     \* transcription:state:<media>, "none" where it is missing
          text,      \* the media has a transcript
          lost       \* a call that ends a transcription failed (history)

pool == <<inflight, task>>
transcription == <<active, state, text, lost>>
admissionVars == <<spent, late, inflight, task, active, state, text, lost>>
allVars == <<accountVars, limitVars, admissionVars>>

NoTask == [st |-> "none", by |-> None, for |-> None]

AdmissionInit == /\ AccountInit /\ LimitInit
                 /\ spent = [u \in User |-> 0] /\ late = [c \in Client |-> FALSE]
                 /\ inflight = 0 /\ task = [t \in Task |-> NoTask]
                 /\ active = FALSE /\ state = "none" /\ text = FALSE /\ lost = FALSE

\* A request goes on to another step.
Step(c, from, to) == At(c, from) /\ Goto(c, to) /\ UNCHANGED <<accounts, served>>

----------------------------------------------------------------------------
(* Allowance and quota                                                     *)

\* A request of a signed-in client.
SignedIn(c, step) == /\ ResolveUser(c) # None
                     /\ Arrive(c, ResolveUser(c), step) /\ Works
                     /\ late' = [late EXCEPT ![c] = spent[ResolveUser(c)] >= Limit]
                     /\ UNCHANGED <<accounts, limitVars, spent, pool, transcription>>

\* The followUp handler: for a media of the user that has a video context.
followUp(c) == SignedIn(c, "ask") \/ SignedIn(c, "idle")

\* The evidenceSearch handler asks the same questions in the same order.
evidenceSearch(c) == SignedIn(c, "ask") \/ SignedIn(c, "idle")

\* The route handler.
route(c) == SignedIn(c, "route")

\* Mutant: the last request of the day is free.
CheckLate(u) == spent[u] > Limit

\* Ledger.Check: today's allowance is used up.
Check(u) == spent[u] >= Limit

Stage == [ask |-> [user |-> "askUser", global |-> "askGlobal", submit |-> "askSubmit"],
          route |-> [user |-> "routeUser", global |-> "routeGlobal", submit |-> "routeSubmit"]]

\* RequireAiQuota and route check the allowance first; a ledger that cannot be read lets the request through.
CheckAllowance(c) ==
  \E scope \in {"ask", "route"} :
    /\ \/ /\ At(c, scope) /\ Works /\ UNCHANGED late
          /\ Step(c, scope, IF Check(user[c]) THEN "idle" ELSE Stage[scope].user)
       \/ Fault("redis") /\ Step(c, scope, Stage[scope].user) /\ late' = [late EXCEPT ![c] = FALSE]
    /\ UNCHANGED <<limitVars, spent, pool, transcription>>

\* TakeUserThenGlobal, the user's bucket: a token that is taken is not given back.
TakeUser(c) ==
  \E scope \in {"ask", "route"} :
    /\ \/ /\ At(c, Stage[scope].user) /\ Take(<<scope, user[c]>>) /\ Works
          /\ Step(c, Stage[scope].user, IF Granted THEN Stage[scope].global ELSE "idle")
       \/ Fault("redis") /\ Step(c, Stage[scope].user, "idle") /\ UNCHANGED limitVars
    /\ UNCHANGED admissionVars

\* ... and the bucket all users share.
TakeGlobal(c) ==
  \E scope \in {"ask", "route"} :
    /\ \/ /\ Take(<<scope, None>>) /\ Works
          /\ Step(c, Stage[scope].global, IF Granted THEN Stage[scope].submit ELSE "idle")
       \/ Fault("redis") /\ Step(c, Stage[scope].global, "idle") /\ UNCHANGED limitVars
    /\ UNCHANGED admissionVars

\* What the agent adds to the ledger for calls made for user u.
Charge(u) == \E cost \in 0 .. MaxCost : spent' = [spent EXCEPT ![u] = @ + cost]

\* ClassifyMode, in the handler's own goroutine; the answer to an error is GENERAL.
ClassifyMode(c) == /\ Step(c, "routeSubmit", "idle") /\ Works
                   /\ Charge(user[c])
                   /\ UNCHANGED <<limitVars, late, pool, transcription>>

\* The next day has a ledger of its own.
NextDay == /\ \E u \in User : spent[u] > 0
           /\ spent' = [u \in User |-> 0] /\ late' = [c \in Client |-> FALSE]
           /\ UNCHANGED <<accountVars, limitVars, pool, transcription>>

----------------------------------------------------------------------------
(* The AI pool                                                             *)

Running == {t \in Task : task[t].st \notin {"none", "queued"}}
Accepted == {t \in Task : task[t].st # "none"}

\* Submit: the counter goes up first.  A goroutine waits for a worker.
Submit(c, from, refused, accepted) ==
  /\ Works /\ inflight' = inflight + 1
  /\ \/ inflight' > Workers + Queued /\ Step(c, from, refused) /\ UNCHANGED task
     \/ /\ inflight' <= Workers + Queued /\ Step(c, from, accepted)
        /\ \E t \in Task \ Accepted :
             task' = [task EXCEPT ![t] = [st |-> "queued", by |-> IF from = "askSubmit" THEN c ELSE None, for |-> user[c]]]

\* modeParam and normalizeText refuse a parameter after the quota is charged.
InvalidAfterQuota(c) == Step(c, "askSubmit", "idle") /\ Works /\ UNCHANGED <<limitVars, admissionVars>>

SubmitAsk(c) == Submit(c, "askSubmit", "askRefused", "await") /\ UNCHANGED <<limitVars, spent, late, transcription>>
SubmitText(c) == Submit(c, "textSubmit", "textRefused", "idle") /\ UNCHANGED <<limitVars, spent, late, transcription>>

\* ErrRejected, once the counter is back.
Rejected(c) == /\ \/ Step(c, "askRefused", "idle")
                  \/ Step(c, "textRefused", "textClear")
               /\ inflight' = inflight - 1 /\ Works
               /\ UNCHANGED <<limitVars, spent, late, task, transcription>>

TaskTo(t, from, to) == task[t].st = from /\ task' = [task EXCEPT ![t].st = to]

\* A worker is free.
StartTask(t) == /\ TaskTo(t, "queued", IF task[t].by = None THEN "find" ELSE "call")
                /\ Cardinality(Running) < Workers
                /\ UNCHANGED <<accountVars, limitVars, spent, late, inflight, transcription>>

\* Interceptor sends the user of the task's context along, whom the agent bills.
Interceptor(t) == task[t].for

\* FollowUp or SearchEvidence returns; runInteractive hands the answer over if it still waits for it.
FollowUp(t) == /\ task[t].st = "call" /\ task' = [task EXCEPT ![t].st = "over", ![t].by = None]
               /\ Charge(Interceptor(t))
               /\ IF task[t].by \in Client THEN Goto(task[t].by, "idle") ELSE UNCHANGED <<pc, user>>
               /\ UNCHANGED <<accounts, served, faults, limitVars, late, inflight, transcription>>

\* The interactive timeout, or the client goes away: the task goes on with a cancelled context.
TimeOut(c) == /\ Step(c, "await", "idle") /\ Works
              /\ task' = [t \in Task |-> IF task[t].by = c THEN [task[t] EXCEPT !.by = "nobody"] ELSE task[t]]
              /\ UNCHANGED <<limitVars, spent, late, inflight, transcription>>

\* The deferred release of the worker and of the counter.
LeaveTask(t) == /\ task[t].st = "over" /\ task' = [task EXCEPT ![t] = NoTask]
                /\ inflight' = inflight - 1
                /\ UNCHANGED <<accountVars, limitVars, spent, late, transcription>>

----------------------------------------------------------------------------
(* Transcriptions                                                          *)

\* setState and clearActive: a failure is logged.
SetState(s) == (Works /\ state' = s /\ UNCHANGED lost) \/ (Fault("redis") /\ lost' = TRUE /\ UNCHANGED state)
ClearActive == (Works /\ active' = FALSE /\ UNCHANGED lost) \/ (Fault("redis") /\ lost' = TRUE /\ UNCHANGED active)

\* Queue's SETNX: the media's task, unless there is one.
Queue(c) == active' = TRUE /\ Arrive(c, ResolveUser(c), IF active THEN "idle" ELSE "textQueued")

\* The transcribe handler.
transcribe(c) == /\ ResolveUser(c) # None
                 /\ \/ Works /\ Queue(c)
                    \/ Fault("redis") /\ Arrive(c, ResolveUser(c), "idle") /\ UNCHANGED active
                 /\ UNCHANGED <<accounts, limitVars, spent, late, pool, state, text, lost>>

SetQueued(c) == /\ Step(c, "textQueued", "textSubmit") /\ SetState("QUEUED")
                /\ UNCHANGED <<limitVars, spent, late, pool, active, text>>

\* Mutant: the task stays queued.
RejectQueuedSilently(c) == /\ Step(c, "textClear", "idle") /\ ClearActive
                           /\ UNCHANGED <<limitVars, spent, late, pool, state, text>>

\* RejectQueued: the marker, then the state.
RejectQueued(c) == /\ \/ Step(c, "textClear", "textFail") /\ ClearActive /\ UNCHANGED state
                      \/ Step(c, "textFail", "idle") /\ SetState("FAILED") /\ UNCHANGED active
                   /\ UNCHANGED <<limitVars, spent, late, pool, text>>

\* TranscribeVideo and UpdateTranscript: a transcript, or an error.
TranscribeVideo(t) == \/ TaskTo(t, "asr", "done") /\ text' = TRUE
                      \/ TaskTo(t, "asr", "failed") /\ UNCHANGED text

\* run, step by step: the media, PROCESSING, speech recognition, the outcome, and the deferred clearActive.
runTranscription(t) ==
  /\ \/ TaskTo(t, "find", "found") /\ Works /\ UNCHANGED transcription
     \/ TaskTo(t, "find", "clear") /\ Fault("db") /\ lost' = TRUE /\ UNCHANGED <<active, state, text>>
     \/ TaskTo(t, "found", "asr") /\ SetState("PROCESSING") /\ UNCHANGED <<active, text>>
     \/ TranscribeVideo(t) /\ Works /\ UNCHANGED <<active, state, lost>>
     \/ TaskTo(t, "done", "clear") /\ SetState("COMPLETED") /\ UNCHANGED <<active, text>>
     \/ TaskTo(t, "failed", "clear") /\ SetState("FAILED") /\ UNCHANGED <<active, text>>
     \/ TaskTo(t, "clear", "over") /\ ClearActive /\ UNCHANGED <<state, text>>
  /\ UNCHANGED <<accounts, pc, user, served, limitVars, spent, late, inflight>>

\* Status: what the user is told; a transcript wins over the state.
Status == CASE text -> "COMPLETED"
            [] ~text /\ state = "none" -> IF active THEN "PROCESSING" ELSE "NOT_STARTED"
            [] OTHER -> state

----------------------------------------------------------------------------

AdmissionStep(c) ==
  \/ followUp(c) \/ evidenceSearch(c) \/ route(c) \/ CheckAllowance(c) \/ TakeUser(c) \/ TakeGlobal(c)
  \/ ClassifyMode(c) \/ InvalidAfterQuota(c) \/ SubmitAsk(c) \/ SubmitText(c) \/ Rejected(c) \/ TimeOut(c)
  \/ transcribe(c) \/ SetQueued(c) \/ RejectQueued(c)

AdmissionNext ==
  \/ \E c \in Client : AdmissionStep(c)
  \/ \E t \in Task : StartTask(t) \/ FollowUp(t) \/ LeaveTask(t) \/ runTranscription(t)
  \/ AccountNext /\ UNCHANGED <<limitVars, admissionVars>>
  \/ Tick /\ UNCHANGED <<accountVars, admissionVars>>
  \/ NextDay

AdmissionSpec == AdmissionInit /\ [][AdmissionNext]_allVars

----------------------------------------------------------------------------
(* Properties                                                              *)

\* A request that comes after the day's allowance is used up causes no model call, whichever handler takes it.
AllowanceHolds ==
  \A c \in Client : late[c] => pc[c] \notin {"askUser", "askGlobal", "askSubmit", "await", "routeUser", "routeGlobal", "routeSubmit"}

Texts == {t \in Task : task[t].st \in {"find", "found", "asr", "done", "failed", "clear"}
                        \/ (task[t].st = "queued" /\ task[t].by = None)}

\* "so the task does not hang": a user who is told that a transcription is queued or runs is told so while one does,
\* unless a write that ends it failed.
DoesNotHang == Status \in {"QUEUED", "PROCESSING"} =>
                 \/ lost \/ Texts # {}
                 \/ \E c \in Client : pc[c] \in {"textQueued", "textSubmit", "textRefused", "textClear", "textFail"}
=============================================================================
