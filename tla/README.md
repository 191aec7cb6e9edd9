# A TLA+ model of Vparser

Vparser analyses videos for its users.  A browser client (`src/client`) uploads a video and asks for an
analysis; the gateway (`src/server-go`) turns the request into a Kafka task, runs it in a consumer group,
prepares the video context and calls the agent (`src/agent-py`) over gRPC; events about the task travel
through Redis Pub/Sub to server-sent-event streams.  MySQL holds the durable state, Redis the locks, markers,
caches and buckets, MinIO the objects, Kafka the tasks.

These modules model the parts of the system whose correctness depends on interleavings, failures and expiries.
TLC checks small instances; TLAPS proves the theorems named in section 4 for every value of the constants.
`PROJECT.json` maps every definition to the lines it models and lists each hazard at its line.

## 1. Inventory

| component | state | operations | meets |
|---|---|---|---|
| Lease lock (`redislock/lock.go`) | Redis key with token and expiry; `Lock` (token, released, isLost); watchdog timers | `TryLock`, watchdog renewal, `Unlock`, `IsHeld`, `Lost` | consumer, context build, upload merge, media deletion, instant upload |
| Submission (`analysis/dispatch.go`, `status.go`) | `analysis:active:*` marker, staged revision, stage | `Submit`, `IsActive`, `Current` | limiter, checkpoints, producer |
| Consumer (`mq/consumer.go`, `routing.go`, `headers.go`) | task lock, active and completed markers, stage, result, attempt header | `Handle` (skip, reuse, revise, analyse, retry, dead-letter, poison) | lock, analyzer, ledger, producer, hub |
| Runner (`mq/runner.go`) | worker per partition: queue, wake token, stop flag; pause flag, offsets | poll, dispatch, pause/resume, handle, commit, revoke, shutdown | Kafka, consumer |
| Failed-task ledger (`analysis/failedtask.go`) | `failed_analysis_task` rows | `Record`, `Replay`, list | producer, marker |
| Task events (`taskevents/hub.go`, `httpapi/handlers_analysis.go`, `agent-py/app/events.py`, `client/src/taskEvents.js`) | channel, subscriptions with 64-event buffers, SSE streams | publish, subscribe, push, timeout, reconnect | everything that changes a status |
| Analyzer (`analysis/analyzer.go`) | context lock, owner index of a content | `AsyncAnalyze`, `resolveContext`, `reuseContentContext`, `buildContext` | agent, checkpoints, video context |
| Checkpoints (`checkpoint/checkpoint.go`, `agent-py/app/checkpoint`) | MySQL rows, Redis hash cache, goal index, staged revisions | load, save, begin/complete revision, purge | agent, consumer, media |
| Video context (`videocontext/`) | frame objects, two branches under a time budget | `Build`, `Transcribe`, `extractKeyFrames`, `merge`, `finish`, `deleteFrames` | analyzer, object store, pools |
| Agent loop and service (`agent-py/app/agent`, `rpc`, `llm`) | plan, critic state, budget, result | plan, execute, criticise, refresh evidence, resume | checkpoints, model API |
| Media library (`media/media.go`, `storage/minio.go`) | rows, objects, cached list | ingest, delete with reference count, list, purge | lock, object store, agent |
| Uploads (`upload/chunk.go`, `instant.go`) | parts set, session, completion marker, staged parts, challenges | init, chunk, complete, challenge, prove | lock, media, object store, lifecycle rule |
| Accounts (`auth/auth.go`, its handlers) | `tb_user`, sessions, failure counters | register, log in with throttle and rehash, log out | middleware |
| Limits, billing, pools (`ratelimit`, `billing`, `workerpool`) | token buckets, daily spend, in-flight counter | take, check, charge, submit | interactive handlers, submission |
| Transcription task (`analysis/transcription.go`) | `transcription:active`, `transcription:state`, transcript | start, run, reject, status | AI pool, video context |
| Link download (`ytdlp/`) | temporary file, ranges, mirrors | resolve, fetch whole or in ranges, retry, clean up | media import |
| Retrieval, model calls, evaluation, HTTP plumbing, configuration, SQL, browser workspace | none of their own that is shared | | |

What is hard here, and where it is treated:

* replies that are lost after a call was applied, leases that lapse under their owner (RedisLock, TaskPipeline,
  MediaObjects, VideoContexts);
* a record in flight in one worker while a rebalance delivers it to another (TaskPipeline, PartitionRunner);
* the steps between produce, marker, unlock and commit, each of which another worker can see (TaskPipeline);
* one of several stores failing (TaskPipeline: ledger and DLQ; MediaObjects: object and row; ChunkedUpload: row
  and marker; VideoContexts: MySQL and cache);
* a request whose client goes away: what it still does runs under a cancelled context (MediaObjects,
  ChunkedUpload, LinkDownload);
* a deletion racing an analysis, an instant upload or another deletion (VideoContexts, MediaObjects);
* a wake-up lost between poll loop and worker (PartitionRunner), a feeder left without takers (LinkDownload);
* a status read before the subscription that would report its change, buffers that fill up (TaskEvents);
* keys that expire at different times though they belong together (ChunkedUpload, RateLimit, Accounts);
* limits checked first and charged later, by several requests at once (Admission, Accounts);
* a run that ends between two checkpoints and is resumed, budgets checked only now and then, a model whose answers
  may be anything (AgentLoop).

What makes each component correct:

* lock - leases never overlap; a stale `IsHeld` is bounded; only the owner's token changes a key;
* pipeline - an accepted task is never lost, ends visibly and stops being active; offsets cover handled records
  only; a redelivery is absorbed; failures are recorded;
* runner - records in order, none skipped; a paused partition is resumed; every record handled;
* events - no premature end; a subscription misses nothing; every browser learns the end;
* agent loop - only finished, verified results are saved; rounds follow each other across resumptions; budgets
  hold; runs end;
* media - a row's object is stored, an object without rows is removed or its stay explained, a list is fresh;
* uploads - a part a client may skip is staged; one upload becomes one media;
* contexts - the frames of a context can be shown, those of no context are deleted or their stay explained; a
  deleted media leaves nothing; cache and database agree; a context is made once;
* admission - an exhausted allowance stops every handler; a transcription does not hang; buckets grant what they
  promise; lockouts begin in time and end;
* downloads - a finished file is whole, a failure names its cause, nothing is left behind, every download ends.

## 2. Modules

| module | models | state and actions |
|---|---|---|
| `RedisLock` | `redislock/lock.go`, for one key | A clock; the key; per caller the `Lock` object and its watchdog.  Each Redis call is two actions, the server's half (`Acquire`, `RenewScript`, `UnlockScript`) and the caller's (`Acquired`, `Contended`, `TryLockError`, `Renewed`, `RenewRefused`, `RenewError`, `UnlockError`), so that a reply can be late or lost; `Resend` is go-redis repeating a SET NX; `Abandon` a holder that dies. |
| `TaskPipeline` | `Dispatcher.Submit`, `FailedTasks.Replay`, `Consumer.Handle`, commit and rebalance, media deletion | Kafka logs, committed offsets and positions; Redis markers and locks; checkpoints as the pipeline sees them; ledger and DLQ.  One action per step of `Handle` between two calls another process can observe; `pc` names the step. |
| `PartitionRunner` | `mq/runner.go`, for one partition | The poll loop (`Poll`, `Dispatch`, `Pause`, `Enqueue`), worker goroutines (`CheckStopped`, `Take`, `Resume`, `Wait`, `HandleOK`, `GiveUp`), `OnRevoked`, `Assign`, `Shutdown`.  `Handle` only succeeds or fails here. |
| `TaskEvents` | the event path, for one task | Status and event to publish; channel per gateway; hub subscriptions; the browser's stream (`ReadStatus`, `Subscribe`, `QueueInitial`, `Push`, `Timeout`, `Disconnect`, `Stop`). |
| `AgentLoop` | `agent-py/app/agent/loop.py` as the Run RPC calls it, for one goal | The checkpoints (`chunked`, `planned`, `critic`, `result`, `stage`) and, per call, `pc`, the `state` of `_run_within_budget` and the model calls `spent`.  One action per step between two checkpoints; `BudgetStop` is `_check_budget` raising, `Interrupt` everything else that ends a call. |
| `ObjectReferences` | what the media library promises | `Store`, `Refer` (only to a stored object), `Forget`, `Collect` (only without references). |
| `MediaObjects` | `media/media.go`, `upload/instant.go`, `storage/minio.go` | Rows, objects, content lock, challenges, the cached list.  One action per call of the upload, import, instant upload, deletion and listing handlers; `conn` says under which context a request's calls run, `Disconnect` cancels it. |
| `ChunkedUpload` | `upload/chunk.go`, `storage/lifecycle.go` | Extends `MediaObjects`: sessions, parts, staged part objects, marker and merge lock of an upload.  `SaveMerged` is `MediaObjects`' insertion of the merged object; both modules share the requests and the budget of faults. |
| `VideoSegments` | `videocontext/frames.go`, `merge`, `model.NewVideoSegment` | Operators: which frames ffmpeg selects, which window a time belongs to, what segments speech and frames make. |
| `VideoContexts` | `analysis/analyzer.go`, `checkpoint.go` (contexts), `videocontext/`, purge of a deleted media | Media of one content; each one's context in MySQL and cache; frame objects; owner index and context lock.  A process is a worker's analysis or a deletion; loading is a subroutine (`ReadCache`, `FindPayload`, `FillCache`), and the two branches of `Build` run beside it. |
| `TokenBucket` | what package `ratelimit` promises | A bucket that starts full, gains tokens every tick and grants while it has one. |
| `RateLimit` | the Lua script of `ratelimit/limiter.go` | The hash of each bucket with tokens, timestamp and expiry, Redis's clock and gateways that lag behind it. |
| `Accounts` | `auth/auth.go`, its handlers and middleware | Stored password, failure counter with or without a time to live, sessions; one action per call of a login. |
| `Admission` | `billing.go`, `workerpool/pool.go`, `analysis/transcription.go`, the interactive handlers | Extends `Accounts` and `RateLimit`: who is signed in asks, routes or transcribes; allowance, user and global bucket, pool, the call, its charge. |
| `LinkDownload` | `ytdlp/ytdlp.go`, `ytdlp/bilibili.go` | Link resolution; `fetchFile` on one connection; `fetchChunks` with its feeder and goroutines; the caller and the deadline. |
| `MC*` | | model-checking instances: fault budgets, symmetry, view |
| `*Proofs` | | inductive invariants and theorems |

How they fit together.  TaskPipeline and PartitionRunner meet in `Deliver`/`Commit`/`Rebalance`: PartitionRunner shows
that the worker side really hands over records in order and detaches cleanly, which TaskPipeline takes for granted
when it models a partition as a position.  RedisLock and its users meet in `TryLock`, `Lapse`, `LoseLock`,
`LeaseExpires`: what a lock may do to its user is what RedisLock allows.  AgentLoop is what happens inside
TaskPipeline's `Run`: `Overlap = FALSE` is what the gateway's task lock gives it, `Overlap = TRUE` a gateway that died
while its call went on in the agent.  VideoContexts is what happens before it, in `AsyncAnalyze`; TaskPipeline sees of
it that it succeeds or fails.  LinkDownload is the first step of `MediaObjects!uploadURL`.  ChunkedUpload and
Admission are compositions in one state space.

Definitions marked "Mutant" are wrong variants of a definition; each property is violated when its mutant takes the
place of the definition (`PROJECT.json`, "mutants").

### Abstractions

* TaskPipeline: one goal (keys of different goals never meet); a partition holds one key; the lock is whose key it is;
  an agent run is one step with three kinds of failure (transient, permanent, budget) and a stored result whose reply
  was lost; billing and rate limits only refuse (`SubmitRateLimited`).
* `PromptUnlock` names the topics none of whose records is taken while the task they belong to is settled but
  still locked.  `Handle` publishes the retry and deletes the marker before its deferred `Unlock`; a retry is
  due 10 or 60 seconds later, and a new submission of the same content must arrive between two adjacent Redis
  calls.  The runs assume both windows away; section 6 says what happens in them.
* `NotOverrun` (TaskEvents): fewer than a buffer (64) of events come between the registration of a
  subscription and the next statement, which queues its initial event.
* AgentLoop keeps of a result whether it is complete and what its evidence is worth (none, real, bogus), of a
  critique the verdict and the kinds of demands, of a plan and of the chunks that they exist.  Tokens are counted in
  model calls; a structured call costs one or two (`_structured_chat` asks again for JSON).  The model's answers
  are unconstrained, except that a complete result has evidence (`_is_result_valid`).  The duration limit is an
  `Interrupt` that may strike at any step; a revision, which deletes the goal's checkpoints, begins the model anew.
* MediaObjects: an object's name is random, so its content is fixed by `HashOf`; the `media:md5` cache holds hashes that
  never change and is left out; file names were validated by the caller and do not fail again in `SaveUploadedMedia`;
  one user's list; every modelled object is a managed file.
* ChunkedUpload: `SessionExpires`, `MarkerExpires` and `PartsExpire` happen at any time their order in the code allows.
* VideoContexts: a context is known by its frames; recognised frames have a time in the first or the second window and
  may lack text; a frame whose upload failed is named by its position in the video, which no deletion touches (`None`).
  ffmpeg, speech and text recognition return any result.
* RateLimit: a tick is what the slowest bucket needs for a token; the script runs atomically.
* Admission: one media is transcribed; a model call costs between nothing and `MaxCost`; a day may end at any time.
* LinkDownload: lengths are counted in units, a unit of the file is a hole, right or wrong; a mirror answers what it
  likes, but a 206 carries the bytes that were asked for.
* Faults are counted, and each run says which kinds it has and how many (`Budget`, `Faults`, `MaxFaults`).  Where a
  property allows for the trace of a fault (`orphans`, `left`, `behind`, `lapses`, `lost`, `ownerLost`, `unarmed`), the
  variable is set only by the failure named in its comment, so that the property says everything else is in order.

## 3. Runs

| run | instance | states | what it shows |
|---|---|---|---|
| `redislock` | 2 callers, 4 tokens, TTL 6, interval 2, waits 0 and 3 | 0.14 M | leases never overlap, a stale belief lasts less than three intervals, only owners change a key; no deadlock |
| `pipeline_rebalance` | 2 users' copies of one video, 2 workers, 2 requests; any 4 of 3 agent failures, 2 rebalances, 1 deletion, 1 replay | 2.3 M | no task is lost, the marker outlives waiting retries, every task ends visibly, a replayed row is requeued or guarded, commits cover handled records, a finished first analysis is absorbed |
| `pipeline_storm` | 1 media, starts and revisions; any 2 of all faults (crash, rebalance, lost replies, lapsed locks, poison...) | 1.5 M | dead-lettered and unusable messages are on record |
| `pipeline_live` | 1 media, starts and revisions; 2 agent failures, 1 failed produce, 1 failed call | 0.28 M | every accepted task stops being active |
| `runner` | 3 records, batches of 1-2, current and detached worker | 0.51 M | order; every record handled |
| `events` | 2 gateways, 1 browser, 3 statuses, buffer 2, 2 faults | 0.18 M | no premature end, nothing missed since registration, the browser learns the end |
| `agent` | 4 calls, 3 rounds, 8 model calls, 1 chunk, no overlap | 0.11 M | saved results are final and verified; rounds follow each other; budgets hold; runs end |
| `media` | 2 requests at a time, 3 media, 2 objects of one content; 1 failed call, crash or client that leaves | 2.0 M | the library implements `ObjectReferences`; orphans and stale lists have an explanation |
| `upload` | 2 requests, one of which may be any of the library's; 1 upload of 2 parts, 2 media, 2 objects; 1 fault | 3.4 M | parts listed as received are staged; a second media of an upload has an explanation |
| `contexts` | 2 processes, 2 media of one content, 1 frame, 2 pieces of sound; 2 faults of MySQL, Redis, MinIO, pool, agent, crash | 2.8 M | frames stand or their stay is explained, deletion leaves nothing, cache and database agree, a context is not made again |
| `admission` | 2 clients of 1 account, 3 requests, login limit 1, allowance 1, 1 worker and 1 waiting slot, 2 goroutines; 1 fault | 0.56 M | an exhausted allowance stops every handler, transcriptions do not hang, lockouts end, guesses are bounded, the buckets are ideal |
| `download` | 2 goroutines, 2 mirrors, files of 1 range, 3 ranges and one too long; the code's stall limits 3 and 5 | 1.0 M | files are whole, causes are reported, nothing is left, downloads end |

Why these bounds are enough to be interesting.  Two workers are what a race needs (a partition has one current
owner; the second is the detached one or the owner of a retry partition).  Three agent failures take a task
through main, 10 s and 60 s topic into the DLQ, where a replay finds it.  In `runner`, three records in batches of up
to two give a second batch behind a first, and a rebalance between them.  In `events`, a buffer of two overflows with
three statuses.  In `agent`, four calls can be interrupted in three rounds and the last still find any checkpoint; the
default of two rounds has no round that is neither first nor last, hence three.  In `media`, two requests and three
rows let the last two copies of a video be deleted at once, or one be deleted while another is added, over two
objects; a second fault adds nothing the theorem (section 4) does not cover.  In `upload` a request for a part races
`Complete`, and a retry meets every point at which the first attempt stopped.  In `contexts` two media of one content
make one of them the owner and the other a copy; the frame has to be moved between them or stay.  In `admission` the
limits are the smallest that two clients can exceed together.  TTL and interval of the lock keep the code's ratio of
three; its clock is unbounded, and `MCRedisLock!View` identifies states that differ only in the date.

`CHECK_DEADLOCK FALSE` where the modelled work is finite: all requests served, the member shut down, every
browser done, all names and ids used.  `redislock` never stops and is checked for deadlock; so is `download`, whose end
is the explicit step `Done`.

### Fairness

* `pipeline_live`: requests in progress, workers (`Handle`, `Redeliver`, `Commit`), deliveries and the expiry of
  orphaned leases are weakly fair - goroutines are scheduled, the backoff loop of `partitionWorker.handle` has
  no limit, Redis expires keys.  Faults are not fair and bounded by the budget.
* `runner`: the poll loop, the goroutines, the end of a shutdown and the other members are weakly fair.
  Rebalances and shutdowns need not happen; `EveryRecordHandled` speaks of behaviours in which the assignment
  settles.
* `events`: the task, the publisher, handlers, browsers and the stream's 30-minute timer are weakly fair.  Redis
  need not deliver or reconnect.
* `agent`: a handler thread that runs goes on (`Proceed`).  Model calls have timeouts and three attempts, so each
  step ends; interruptions are not assumed.
* `download`: the downloading goroutine and each worker are weakly fair - they are scheduled, pauses end, and every
  request returns because its context has a deadline.  Neither the caller nor the deadline has to end anything:
  mirrors and attempts run out.

The other specifications state safety only and have no fairness.

## 4. Proofs

TLAPS checks the following for every value of the constants that satisfies the named assumptions (the `ASSUME`s of
the modules).

* `RedisLockProofs`.  `TypeCorrect`; `StaleBeliefIsBounded` from `TimingInv`, which bounds for each watchdog how
  far the last success, the next tick and the renewal in flight can be from the granted lease;
  `LeaseIsExclusive` and `OwnerOnly` from `OwnershipInv`: tokens are distinct, and an unexpired grant that
  nobody gave up *is* the key in Redis.  `LeaseExclusive` alone is not inductive because it says nothing of
  callers whose SET NX was won and not yet reported.
* `TaskPipelineProofs`.  `CommitsOnlyHandled` from `PositionInv`: not only the committed offset but also the
  position of the current owner covers handled records only, and a busy worker - detached or not - works on a
  record all of whose predecessors are handled, and is about to commit only what it has handled.  Every fault
  of the model, crashes and rebalances included, is a case of the proof.
  `FailuresAreRecorded`, under every fault too, from `RecordInv`: logs and ledger only grow (`Grows`), records in
  hand and records handled exist in their log, and a worker that has settled on dead-lettering or discarding
  its record has found it a place.
  `TasksAreNotLost` (`NoTaskLost`) assumes a budget of 0 for the faults in `Losing` and that every topic is in
  `PromptUnlock`; section 6 shows how each of them loses a task.  The property is not inductive, because it counts on
  *any* uncommitted record or busy worker, and a worker may be about to drop its own.  `KeyInv` says who really
  carries the task of an active key: a request, a record nobody has handled, or the holder of the key's lock who has
  not settled yet; and that a worker which will not touch the marker any more (it has forwarded the record, or is
  about to unlock) leaves a request or an untaken record behind wherever the marker stands.  A delivery is skipped
  only while somebody holds the lock (`LockInv`: a lock that is taken has a holder in the critical section of its key).
  `RedeliveriesAreAbsorbed` (`AbsorbsRedelivery`) assumes first analyses only and a budget of 0 for `Disturbing`, the
  failures of a call and of the lock in the second attempt.  `AbsorbInv`: a record handled with success has a
  result as long as its media lives (`ResultsStay`), so has one about to be (`ResultStands`), one worker at a time is
  in the critical section of a key (`Exclusive`), so that nobody finishes the record in hand in between
  (`NoRelapse`).
  `RetriesKeepActive` (`RetryKeepsActive`) and `TasksEndVisibly` (`EndIsVisible`) speak, like the properties, of the
  time before a partition changes hands (`Steady`), and assume a budget of 0 for `Doubling` and `PromptUnlock` for
  every topic.  Crashes, lost acknowledgements, early expiry of the marker and foreign messages refute both
  properties, a lost lock the second; a failed produce is excluded only because `TaskInv` excludes it.
  Both need that a key has one task: otherwise the second task's end takes the marker from under the
  first one's retry.  `OneInv`: each partition's records are taken in turn (`InTurn`); of the requests about to
  publish for a key and the records that stand for a task (nobody has handled them or passed them on, `Stands`) there
  is at most one, and the marker is set while there is one (`OneTask`); a worker that has forwarded its record has left
  a successor of the same media (`Successor`); and while a worker settles, nobody else works on the key (`Alone`).
  `EndInv` adds that every published media has been shown something (`Shown`) or has a record that still will be
  (`Open`: one that stands and whose worker has not stored its result yet).
  `ReplaysAreBooked` (`ReplayGuarded`) assumes a budget of 0 for `Unbooking`.  `BookInv`: a FAILED row that was
  replayed has a request about to mark it.  After a failed `MarkRequeued` only the marker guards the row, and only
  until the replayed task ends (section 6), so that case is no invariant of the code.
* `PartitionRunnerProofs`.  `NoLostWakeup` (`PausedMeansBusy`: a paused partition has a worker that will resume it)
  from `PauseInv` (who may be stopped or gone in each state of the poll loop).  `RecordsInOrder` from `OffsetInv`: the
  record in hand and the queue of every worker are consecutive records, those before them are handled, and the current
  worker's end where the fetch position (less the batch being dispatched) is.
* `TaskEventsProofs`.  `EventsTypeCorrect`, `TerminalEventsAreTrue`, `SubscriptionsMissNothing` from `EventsInv`:
  a terminal event anywhere implies a terminal status (`EndInv`); unregistered streams have empty buffers
  (`SubscriptionInv`); each status recorded since the registration is in the outbox, the gateway's channel, the
  buffer or the browser, unless a loss was noted (`DeliveryInv`).
* `AgentLoopProofs`.  `AgentTypeCorrect`, `ResultsAreFinal`, `PassesAreVerified` from `LoopInv`, with or without
  overlapping runs: what a run has in hand is within the rounds and verified, and terminal when it is about to be
  saved; `JudgedIsVerified` shows that the code's rules leave no way for the model to pass an unverified result.
  `BudgetsHold` from `BudgetInv`, the most that can have been spent at each step (`Overdraft`).  `ResultsStand` (no later
  run changes what a saved result left) and `RoundsFollow` assume `~Overlap` and rest on `SoloInv`: one run is active,
  it works on the checkpoint in the store (`Saved`), and none is at work once there is a result.
* `LibraryProofs`, of `MediaObjects`, `ChunkedUpload` and `LinkDownload`.  `MediaTypeCorrect` under every fault.  `RowsCanBePlayed`
  (`ReferencedIsStored`) and the refinement `LibraryKeepsReferences` (`KeepsReferences`) assume that neither `"reply"`
  nor `"lease"` is in `Faults`: section 6 says what these do.  The invariant `IInv` adds to types and goal who may have
  an object in hand: names are fresh (`Fresh`, `InHand`), an object between PutObject and INSERT is known to one
  request (`Private`), a request that verified or counted an object's references holds its content's lock (`Holds`),
  and what it saw under the lock still stands (`Seen`).  Without `Seen` the removal of an object with no references
  is not safe.  `OrphansAreExplained` (`OInv`: who has a stored object without a row in hand at each step) and
  `ListIsFresh` hold under every fault.
  `UploadsAreLibrary`: every step of `UploadSpec` is a step of the library or leaves it alone, so that all of these
  hold of the gateway with resumable uploads.  `ReceivedPartsAreStaged` (without the fault `"slow"`, an upload that
  outlives the lifecycle rule): a part is listed only after its PutObject, and cleanup comes after the row.
  `OneMediaForEachUpload` (without `"reply"`: a lost reply of the INSERT makes a media that `Complete` does not know of)
  from `OneMerge` (one request at a time is between the merge lock and its release), `NoMediaYet` and `BeforeSession`
  (what there cannot be yet), and `Counted`: while an upload has neither marker nor merge that is about to write one,
  all its media are accounted for by lapses.
  `DownloadsAreWhole` (`Whole`), `CausesAreReported` (`CauseIsReported`) and `DownloadsLeaveNothing` (`NothingLeft`) hold for any
  number of goroutines and mirrors and any length, range size and stall limit, from `DownloadInv`.  For one connection
  `FileInv`: the file is the video up to where it ends, whatever was resumed, and ends where the video does when a transfer of announced length
  had no error.  For ranges `ChunksInv`: every unit that was handed out is there, or in the range of a goroutine that is
  fetching, or an error is in the channel, and the feeder stops early only when somebody will say why.  `CauseInv`: the
  others are stopped only after an error is in the channel, so that the first error is never the cancellation it
  caused.  `ChannelInv` counts the errors against the goroutines that have reported.
* `AdmissionProofs`, of `Admission` with `Accounts` and `RateLimit`.  `ScriptIsIdeal` (`BucketsAreIdeal`) for `LimitSpec` and
  `Lag = {0}`: the script with its expiring keys implements `TokenBucket`.  `BucketInv`: a key that is there would be
  full by the time it expires, so that forgetting it changes nothing; this needs the rounding up in `TimeToLive`
  (`TimeToLiveSuffices`).  `AdmissionBucketsIdeal` carries it to `AdmissionSpec`: every step of the gateway is one of
  `LimitSpec` or leaves the buckets alone.
  `AdmissionInv` gives the others, under every fault.  `LockoutEndsAlways`: the invariant is inductive as it stands.
  `GuessesAreBounded` from `GuessInv`, which sets off the wrong guesses of an account against its counter and the
  clients that have read the counter and not yet added to it (a cardinality argument over the clients at each step).
  `AllowanceAlwaysHolds`: a late request that is still to be checked finds the allowance used up.  `TranscriptionDoesNotHang` from `HangInv`: the
  active marker of the transcription has exactly one holder, a request or a task, from SETNX to its removal, and a
  state that says there is work to come has somebody to replace it; all of this until a write is lost.
* `VideoContextsProofs`.  `FramesAreKept` (`FramesStand`), under every fault, lost leases included.  `FramesStand` alone
  does not survive a deletion; `OwnershipInv` says that a frame belongs to at most one media - through its row in
  MySQL, its cached copy or a process that holds it for that media - or to the one build that uploaded it, and
  `PurgeInv` that only the artifacts of deleted media are purged.
  `DeletionLeavesNothing` (`DeletedLeavesNothing`) from `PurgeAhead`: a context of a deleted media has
  somebody at work for that media who has not purged it yet.  `FramesAreExplained` (`FramesExplained`) adds `CourseInv`, what each branch of a build has
  at each of its steps, `Accounted`, which process answers for an uploaded frame, and `PurgeDone` (a purge has deleted
  every frame it could load, or noted that it did not).  Both hold under every
  fault.
  `CacheAlwaysAgrees` (`CacheAgrees`) and the action property `ContextsStand` (`ContextStands`) assume that `"lease"` is not
  in `Faults`.  They come from one invariant, `ContextInv`: whoever looks everything up again and builds has the
  content's lock (`LockInv`), only deleted media are purged (`GoneInv`), and unless a registration was lost
  (`Registered`) a builder has found no other owner and no context of its own, a copier has found an owner, and what is
  about to be cached is what the database has (`Fits`), while every context that has frames is the owner's or about
  to be registered (`Known`).
  `FramesAreCapped`: frames a gap apart never number more than `maxKeyFrames`, by counting distinct quotients.
  `MergeKeepsFrames`: the segments refer to exactly the recognised frames.  `SegmentsAreDisjoint`: segments have valid
  ranges and do not overlap.

Each inductive invariant was model-checked on the instance of its run, with more faults or processes where the theorem
allows for them, before it was proved.  That showed what the run of two processes cannot: a builder that dies
between saving its context and registering it (`analyzer.go`, `SaveContext` and `rememberContextOwner`) leaves a context
that no later build finds; with a third process the two contexts of one content meet.  `VideoContexts!Crash`
therefore notes such a death as a lost registration (`ownerLost`).

Only model-checked: the liveness properties (`TasksEnd`, `EveryRecordHandled`, `EveryBrowserLearnsTheEnd`, `RunsEnd`,
`Ends`), since fairness and ENABLED are out of the prover's reach, as is induction over data.

## 5. Not modelled

* The caches of results and stages and the goal index (`checkpoint.go`, `agent-py/app/checkpoint`): TaskPipeline reads and
  writes them as one value.  The context's cache, the same code, is modelled.
* Follow-up conversations and feedback: appended to rows nothing else reads.
* gRPC conversion code and generated stubs (a quarter of the repository's lines): field copies.  `MapError`, which
  decides what an agent's failure means for a task, is modelled.
* Retrieval (chunking, embeddings, vector search), prompts, model texts, evaluation: data without control; recursion
  over texts would only restate the code.
* Due times of the retry topics: a retry may become due at any time, so that every order is covered.
* Read-only handlers, presigned URLs, MP3 export, request parsing, response formatting, configuration, metrics,
  tracing, SQL beyond single statements, the browser's presentation state: no shared state of their own.
* ffmpeg, ASR, OCR and yt-dlp as programs: any result.

Worth doing next: a refinement from TaskPipeline to an abstract queue; `RetriesKeepActive` and `TasksEndVisibly` with
failed produces, for which `TaskInv` would have to follow a record through its backoff.

## 6. Observations

The models show the following when a constant is changed as the second column says; the properties of the runs are
stated so as to leave these cases out, and no run is kept for them.

| observation | how to see it |
|---|---|
| After a rebalance the new owner skips and commits a record because the old owner holds the lock (`consumer.go:169`); the old owner fails, cannot forward the record, and as a detached worker does not try again. The record is committed without being "succeeded, forwarded to a retry topic, or dead-lettered" (`topics.go:3`). | `pipeline_rebalance` with `produce` 1: `NoTaskLost` |
| A handled revision whose commit was lost is treated as failed when it is delivered again (`consumer.go:281`); "the idempotency keys absorb it" (`runner.go:284`) is not so. | `pipeline_rebalance` with revisions: `AbsorbsRedelivery` for them |
| The agent stores its result after the media was purged and its reply is lost; the retry finds no media and purges nothing, although `media.go:179` promises the removal of "all runtime artifacts". | TaskPipeline, `delete` 1, `lostack` 1 |
| A new task of the same content, or a retry taken early, is skipped because the previous holder has settled and not yet unlocked; nobody runs it. | `PromptUnlock` without `"main"`: `NoTaskLost` |
| A retry that meets the orphaned lock of a dead owner is skipped. | `agent` 1, `lock` 1: `NoTaskLost` |
| Two deliveries of one task: the second removes the marker while the first one's retry waits. The SETNX of the marker applied but reported as failed (`dispatch.go:75`), or an ignored DEL (`consumer.go:188`), leave it for six hours. | TaskPipeline, `marker` faults: `RetryKeepsActive`, `NoTaskLost` |
| After a failed `MarkRequeued` the marker guards the row only until the replayed task ends; two administrators may replay one row (`failedtask.go:117`). | `agent` 1, `replay` 1, `call` 1: `ReplayGuarded` |
| A new worker that finds its queue empty resumes fetching between `dispatch`'s pause and enqueue; `runner.go:136` says "at most one batch per partition is outstanding" (harmless: order is kept). | `runner`: `loop = "dispatch" /\ cur # None => q[cur] = <<>> /\ pc[cur] # "handle"` |
| `analysisEvents` reads the status before it subscribes (`handlers_analysis.go:417`); an event in between is never seen on this stream and its first event is stale, though `docs/architecture.md:125` says that a new subscription is first sent the current status. | `events`: a terminal status is seen before the timeout |
| A subscriber with a full buffer is unregistered, but its stream stays open and deaf until the timer. | `events`: `pc[s] = "open" => reg[s]` |
| A renewal whose reply was lost has extended the lease; the watchdog can give up a lease Redis still grants. | `redislock`: `isLost[c] => ~OwnsLease(c)` |
| A draft left by an interrupted run is criticised before the loop over the rounds, and the loop is entered even if it passed (`loop.py:160`): the Executor generates everything again, which `loop.py:151` says is avoided. | `agent`: a passed draft is the next result |
| A run that outlived its gateway and the next one overwrite each other's checkpoints: rounds repeat, and a result is followed by another draft. | `agent` with `Overlap = TRUE`: `ResultStands`, `RoundsAdvance` |
| The summaries of a long video are all made before the budget is first checked; 500 newer traces evict that of a run in progress, whose usage then reads as 0 (`telemetry.py:80`, not modelled). | `BudgetBounded`: the `2 * Chunks + 6` of the first steps |
| The reply to the INSERT of an upload is lost: the rollback removes the object of a row that exists. | `media` with `"reply"`: `KeepsReferences` |
| A lease lost while deleting or referring: neither looks at `Lost`, and the object of a new row is removed. | `media` with `"lease"`: `KeepsReferences` |
| A client that leaves between PutObject and INSERT leaves the object behind: the rollback runs under the cancelled context. | `media`: `OrphansExplained` without `orphans` |
| A listing overtaken by a change between its SELECT and its SET (`media.go:154`), or a DEL under a cancelled context, leave a stale list for up to 30 minutes. | `media`: `FreshList` without `behind` |
| The lifecycle rule removes parts a week after they were stored, though later parts renew the session; `lifecycle.go:16` says "a part older than this belongs to an abandoned upload". | `upload` with `"slow"`: `ReceivedIsStaged` |
| A part that comes after `Complete` renews the session but not the marker; a repeated `Complete` then makes a second media. | `upload`: `OneMediaPerUpload` without `lapses` |
| A context is built again although `analyzer.go:41` says "at most once per content hash": when the owner was deleted, or when `DropOwner`'s unconditional DEL (`analyzer.go:188`) removes a newer registration; the copy of a reuse can overwrite a built context when the owner key could not be read, or when the first builder died before it registered. | `contexts`: `ContextStands` without `ownerLost` |
| A frame uploaded more than ten seconds after its build was cancelled is not deleted; `uploaded` is read there without the mutex (`service.go:105`). | `contexts`: `FramesExplained` without `left` |
| A media deleted while its analysis fails after `SaveContext` keeps context and frames; a load that refills the cache after the deletion keeps a cached context for seven days (`checkpoint.go:88`). | `contexts`: `DeletedLeavesNothing` without `left`, or stated of `cache` |
| The cap of forty frames (`frames.go:26`) does not hold when ffprobe cannot tell the length: the gap is then 20 seconds. | `FramesAreCapped` needs `durationMs` |
| With gateways' clocks behind, a fresh key's bucket is not ideal (comment at `limiter.go:48`). | `admission` with `Lag = {0, 1}`: `BucketsAreIdeal` |
| A crash or a failed EXPIRE after the first INCR (`auth.go:312`) leaves a counter that never expires: once it is full the account is locked out for good. | `admission`: `LockoutEnds` without `unarmed` |
| A request may be refused while the pool has room: another one raised the counter and is about to lower it (`pool.go:37`). The allowance may be overshot by every request that was admitted before the first was charged. | `Admission!Submit`, `Check` |
| `RejectQueued` clears the marker before the state: a late FAILED may hide a newer task; a FindByID error leaves QUEUED for two hours (`transcription.go:54`). | `admission`: `DoesNotHang` without `lost` |
| A caller who leaves during `fetchFile`'s pause is reported as a timeout (`bilibili.go:293`); a worker's deadline surfaces as `context.DeadlineExceeded`; with an unknown size a clean early close is taken for the end. | `download`: `CauseIsReported` without `gone`; `Whole` without `size > 0` |
