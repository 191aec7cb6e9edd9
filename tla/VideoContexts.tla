---------------------------- MODULE VideoContexts ----------------------------
(***************************************************************************)
(* The video contexts of media with one content: analysis tasks load,      *)
(* share and build them (analysis/analyzer.go, checkpoint/checkpoint.go,   *)
(* videocontext/), and deletion purges them (media/media.go).              *)
(*                                                                         *)
(* A context is known by the evidence frames it refers to; it is kept in   *)
(* MySQL and cached in Redis.  Building runs speech recognition and frame  *)
(* extraction side by side under a time budget.  A step is one call to     *)
(* MySQL, Redis, MinIO or the agent, or one step of a branch.              *)
(***************************************************************************)
EXTENDS VideoSegments

CONSTANTS Process,   \* consumer workers and delete requests
          Media,     \* media of the same content
          Frame,     \* names of evidence-frame objects
          Segment,   \* the pieces a sound track is cut into
          Faults, MaxFaults,
          None

ASSUME ContextAssumption == /\ MaxFaults \in Nat /\ IsFiniteSet(Segment)
                            /\ None \notin Media \cup Process \cup Frame /\ \A context \in SUBSET Frame : context # None

VARIABLES rows,      \* the media that exist
          db,        \* agent_checkpoints, media:context: a set of frames, or None
          cache,     \* its copy in Redis
          owner,     \* the context owner of the content in Redis
          ownerLost, \* a registration was dropped, lost or never made, or could not be read (history)
          lock,      \* the context lock
          frames, named,  \* evidence-frame objects: stored, and named so far
          w,         \* the local state of each process
          left,      \* frames, and media with a context, that a failure left behind (history)
          faults

shared == <<rows, db, cache, owner, ownerLost, lock, frames, named>>
vars == <<shared, w, left, faults>>

Idle == [pc |-> "idle", med |-> None, tgt |-> None, why |-> "own", got |-> None, second |-> FALSE,
         locked |-> FALSE, asr |-> "off", ocr |-> "off", put |-> None, uploaded |-> {}, vc |-> None, ok |-> TRUE]

Init == /\ rows = Media
        /\ db = [m \in Media |-> None] /\ cache = [m \in Media |-> None]
        /\ owner = None /\ ownerLost = FALSE /\ lock = None
        /\ frames = {} /\ named = {}
        /\ w = [p \in Process |-> Idle]
        /\ left = {} /\ faults = 0

At(p, pc) == w[p].pc = pc
Goto(p, pc) == w' = [w EXCEPT ![p].pc = pc]
\* The frames a context refers to, if there is one.
FramesOf(context) == IF context = None THEN {} ELSE context

Works == UNCHANGED faults
Fault(kind) == kind \in Faults /\ faults < MaxFaults /\ faults' = faults + 1

\* The attempt ends with an error, once a lock it holds is released.
Fail(p) == w' = [w EXCEPT ![p].pc = "unlock", ![p].ok = FALSE]

----------------------------------------------------------------------------
(* LoadContext: cache, database, and the cache again                       *)

Load(p, m, why) == w' = [w EXCEPT ![p].pc = "cache", ![p].tgt = m, ![p].why = why]

\* The media's own context: the task goes on to the agent with it, or looks for another media's.
OwnContext(p, context) == Goto(p, IF context # None THEN "unlock" ELSE "owner")

\* Mutant: the reused context keeps the owner's frames.
ReusableContextShared(context) == context

\* ReusableContext: evidence frames become references into the media itself.
ReusableContext(context) == {}

\* reuseContentContext: the owner's context is copied; an owner without one is dropped.
ReuseContext(p, context) == IF context = None THEN Goto(p, "drop")
                            ELSE w' = [w EXCEPT ![p].pc = "save", ![p].vc = ReusableContext(context)]

Loaded(p, context) == CASE w[p].why = "own"   -> OwnContext(p, context)
                        [] w[p].why = "owner" -> ReuseContext(p, context)
                        [] w[p].why = "purge" -> w' = [w EXCEPT ![p].pc = "frames", ![p].got = context]

\* A cached context is taken; an error of Redis is a miss, and what cannot be read is dropped.
ReadCache(p) ==
  LET m == w[p].tgt
  IN /\ At(p, "cache")
     /\ \/ Works /\ cache[m] # None /\ Loaded(p, cache[m]) /\ UNCHANGED cache
        \/ Works /\ cache[m] = None /\ Goto(p, "query") /\ UNCHANGED cache
        \/ Fault("redis") /\ Goto(p, "query") /\ cache' \in {cache, [cache EXCEPT ![m] = None]}
     /\ UNCHANGED <<rows, db, owner, ownerLost, lock, frames, named, left>>

\* FindPayload.  PurgeRuntimeArtifacts goes on without a context when it fails.
FindPayload(p) ==
  LET found == db[w[p].tgt]
  IN /\ At(p, "query")
     /\ \/ Works /\ found = None /\ Loaded(p, None)
        \/ Works /\ found # None /\ w' = [w EXCEPT ![p].pc = "fill", ![p].got = found]
        \/ Fault("db") /\ IF w[p].why = "purge" THEN Loaded(p, None) ELSE Fail(p)
     /\ UNCHANGED <<shared, left>>

\* Mutant: a half-written entry stays.
CacheFieldHalf(m, context) == \/ Works /\ cache' = [cache EXCEPT ![m] = context]
                              \/ Fault("redis") /\ cache' = [cache EXCEPT ![m] = {}]

\* cacheField: an entry that may be half written is dropped.
CacheField(m, context) == \/ Works /\ cache' = [cache EXCEPT ![m] = context]
                          \/ Fault("redis") /\ cache' = [cache EXCEPT ![m] = None]

FillCache(p) == /\ At(p, "fill")
                /\ CacheField(w[p].tgt, w[p].got)
                /\ Loaded(p, w[p].got)
                /\ UNCHANGED <<rows, db, owner, ownerLost, lock, frames, named, left>>

----------------------------------------------------------------------------
(* resolveContext                                                          *)

\* A worker takes up a task of media m.
AsyncAnalyze(p, m) == /\ At(p, "idle") /\ m \in rows
                      /\ w' = [w EXCEPT ![p] = [Idle EXCEPT !.pc = "cache", !.med = m, !.tgt = m]]
                      /\ UNCHANGED <<shared, left, faults>>

\* There is nothing to reuse: take the lock and look again, or build.
WithoutReuse(p) == IF ~w[p].second THEN Goto(p, "lock") ELSE IF w[p].locked THEN Goto(p, "build") ELSE Fail(p)

\* contextOwner: trouble with Redis is as good as no owner.
ContextOwner(p) ==
  /\ At(p, "owner")
  /\ \/ Works /\ owner \notin {None, w[p].med} /\ Load(p, owner, "owner") /\ UNCHANGED ownerLost
     \/ Works /\ owner \in {None, w[p].med} /\ WithoutReuse(p) /\ UNCHANGED ownerLost
     \/ Fault("redis") /\ WithoutReuse(p) /\ ownerLost' = TRUE
  /\ UNCHANGED <<rows, db, cache, owner, lock, frames, named, left>>

\* The owner has no context: its registration is deleted, whoever has registered meanwhile.
DropOwner(p) ==
  /\ At(p, "drop")
  /\ \/ Works /\ owner' = None /\ ownerLost' = TRUE /\ WithoutReuse(p)
     \/ Fault("redis") /\ UNCHANGED <<owner, ownerLost>> /\ Fail(p)
  /\ UNCHANGED <<rows, db, cache, lock, frames, named, left>>

\* Mutant: whoever gets the lock builds without looking again.
TryLockBlind(p) ==
  /\ At(p, "lock") /\ lock = None
  /\ lock' = p
  /\ w' = [w EXCEPT ![p].pc = "build", ![p].second = TRUE, ![p].locked = TRUE]
  /\ Works
  /\ UNCHANGED <<rows, db, cache, owner, ownerLost, frames, named, left>>

\* TryLock waits 300 seconds for the context lock; then everything is looked up again, with or without it.
TryLock(p) ==
  LET Again(got) == w' = [w EXCEPT ![p].pc = "cache", ![p].tgt = w[p].med, ![p].why = "own", ![p].second = TRUE,
                                   ![p].locked = got]
  IN /\ At(p, "lock")
     /\ \/ Works /\ lock = None /\ lock' = p /\ Again(TRUE)
        \/ Works /\ lock # None /\ UNCHANGED lock /\ Again(FALSE)
        \/ Fault("redis") /\ UNCHANGED lock /\ Fail(p)
     /\ UNCHANGED <<rows, db, cache, owner, ownerLost, frames, named, left>>

\* SaveContext: the database first.  Frames of a build whose context cannot be saved are deleted.
SaveContext(p) ==
  /\ At(p, "save")
  /\ \/ /\ Works
        /\ db' = [db EXCEPT ![w[p].med] = w[p].vc]
        /\ left' = left \cup FramesOf(db[w[p].med])
        /\ Goto(p, "saveCache")
     \/ Fault("db") /\ w' = [w EXCEPT ![p].pc = "discard", ![p].ok = FALSE] /\ UNCHANGED <<db, left>>
  /\ UNCHANGED <<rows, cache, owner, ownerLost, lock, frames, named>>

SaveCache(p) == /\ At(p, "saveCache")
                /\ CacheField(w[p].med, w[p].vc)
                /\ Goto(p, IF w[p].asr = "off" THEN "unlock" ELSE "remember")
                /\ UNCHANGED <<rows, db, owner, ownerLost, lock, frames, named, left>>

\* rememberContextOwner: a failure is logged.
RememberContextOwner(p) ==
  /\ At(p, "remember")
  /\ \/ Works /\ owner' = w[p].med /\ UNCHANGED ownerLost
     \/ Fault("redis") /\ UNCHANGED owner /\ ownerLost' = TRUE
  /\ Goto(p, "unlock")
  /\ UNCHANGED <<rows, db, cache, lock, frames, named, left>>

\* The deferred Unlock; then the agent, or the end of a failed attempt.
Unlock(p) == /\ At(p, "unlock")
             /\ lock' = IF lock = p THEN None ELSE lock
             /\ Goto(p, IF w[p].ok THEN "agent" ELSE "failed")
             /\ UNCHANGED <<rows, db, cache, owner, ownerLost, frames, named, left, faults>>

----------------------------------------------------------------------------
(* Build                                                                   *)

\* Build: the source can be read, and each branch is taken by its pool or rejected.
Build(p) ==
  \/ Works /\ w' = [w EXCEPT ![p].pc = "await", ![p].asr = "runs", ![p].ocr = "runs"]
  \/ Fault("minio") /\ Fail(p)
  \/ /\ Fault("pool")
     /\ \E asr, ocr \in {"runs", "failed"} :
          w' = [w EXCEPT ![p].pc = "await", ![p].asr = asr, ![p].ocr = ocr]

\* buildContext, up to the branches of Build; OverBudget is what becomes of it when the lease is lost.
buildContext(p) == At(p, "build") /\ Build(p) /\ UNCHANGED <<shared, left>>

\* AudioToText: up to three attempts, the first that is not worth repeating decides; silence is an error.
AudioToText(attempts) ==
  LET decided == {i \in 1 .. 3 : attempts[i] # "transient"}
  IN IF decided # {} /\ attempts[CHOOSE i \in decided : \A j \in decided : i <= j] = "text" THEN "text" ELSE "failed"

Outcomes == {AudioToText(attempts) : attempts \in [1 .. 3 -> {"text", "silence", "transient", "rejected"}]}

\* Transcribe: pieces that fail are left out, unless nothing is left.
Transcribe(outs) == IF \A s \in Segment : outs[s] = "failed" THEN "failed" ELSE "ok"

AsrEnds(p) == /\ w[p].asr = "runs"
              /\ \E outs \in [Segment -> Outcomes] : w' = [w EXCEPT ![p].asr = Transcribe(outs)]
              /\ UNCHANGED <<shared, left, faults>>

\* extractKeyFrames: a frame is recognised and uploaded, and onUpload notes its URL.
UploadFrame(p) == /\ w[p].ocr = "runs"
                  /\ \E f \in Frame \ named :
                       /\ named' = named \cup {f}
                       /\ frames' = frames \cup {f}
                       /\ w' = [w EXCEPT ![p].ocr = "uploads", ![p].put = f]
                  /\ UNCHANGED <<rows, db, cache, owner, ownerLost, lock, left, faults>>

OnUpload(p) == /\ w[p].ocr = "uploads"
               /\ w' = [w EXCEPT ![p].ocr = "runs", ![p].uploaded = @ \cup {w[p].put}, ![p].put = None]
               /\ UNCHANGED <<shared, left, faults>>

\* The branch ends: frames that fail are left out, unless nothing is left; ffmpeg may fail as a whole.
OcrEnds(p) == /\ w[p].ocr = "runs"
              /\ \E r \in {"ok", "failed"} : w' = [w EXCEPT ![p].ocr = r]
              /\ UNCHANGED <<shared, left, faults>>

\* The budget of both branches is used up, or the lease is lost.  cancelBranches waits ten seconds for them; a
\* frame that is uploaded later than that is not deleted.
OverBudget(p) ==
  LET put == {w[p].put} \ {None}
  IN /\ At(p, "await")
     /\ \E late \in SUBSET put :
          /\ w' = [w EXCEPT ![p].pc = "discard", ![p].ok = FALSE, ![p].asr = "late", ![p].ocr = "late",
                            ![p].put = None, ![p].uploaded = @ \cup (put \ late)]
          /\ left' = left \cup late
     /\ UNCHANGED <<shared, faults>>

\* deleteFrames: a frame that cannot be removed is logged.
DeleteFrames(gone) == \/ Works /\ frames' = frames \ gone /\ UNCHANGED left
                      \/ Fault("minio") /\ \E kept \in SUBSET gone \ {{}} :
                           frames' = frames \ (gone \ kept) /\ left' = left \cup kept

\* The frames a branch may have returned: those it uploaded, with or without text, and others whose upload failed;
\* the name of such a frame is a position in the video, which is no managed file (None).
Recognised(uploaded) ==
  LET Part(ts, text, name) == [timestampMs |-> ts, text |-> text, frameName |-> name]
  IN {{Part(at[f], f \notin blank, f) : f \in uploaded} \cup others :
        at \in [uploaded -> {0, segmentMs}], blank \in SUBSET uploaded, others \in SUBSET {Part(0, TRUE, None)}}

\* Both branches have ended; finish: a branch that failed counts for nothing and its frames are deleted, unless both
\* failed.  Without any segment there is no context.
FinishBuild(p) ==
  /\ At(p, "await") /\ w[p].asr \in {"ok", "failed"} /\ w[p].ocr \in {"ok", "failed"}
  /\ IF w[p].ocr = "failed" /\ w[p].asr = "ok" THEN DeleteFrames(w[p].uploaded) ELSE UNCHANGED <<frames, left, faults>>
  /\ LET kept == IF w[p].ocr = "ok" THEN w[p].uploaded ELSE {}
     IN \E speech \in IF w[p].asr = "ok" THEN SUBSET {0} ELSE {{}},
           parts \in IF w[p].ocr = "ok" THEN Recognised(kept) ELSE {{}} :
          LET segments == merge(speech, parts)
          IN w' = IF segments = {}
                  THEN [w EXCEPT ![p].pc = "discard", ![p].ok = FALSE,
                                 ![p].uploaded = IF w[p].asr = "ok" THEN kept ELSE @]
                  ELSE [w EXCEPT ![p].pc = "save", ![p].vc = EvidenceFrames(segments) \ {None}, ![p].uploaded = kept]
  /\ UNCHANGED <<rows, db, cache, owner, ownerLost, lock, named>>

\* fail, and DeleteEvidenceFrames of a context that could not be saved.
DiscardBuild(p) == /\ At(p, "discard")
                   /\ DeleteFrames(w[p].uploaded)
                   /\ Goto(p, "unlock")
                   /\ UNCHANGED <<rows, db, cache, owner, ownerLost, lock, named>>

----------------------------------------------------------------------------
(* The end of a task, and deletion                                         *)

\* Agent.Run and persistResult, and the Exists that follows: artifacts of a media deleted meanwhile are purged.
Conclude(p) ==
  LET m == w[p].med
  IN /\ At(p, "agent")
     /\ \/ /\ Works
           /\ IF m \in rows THEN w' = [w EXCEPT ![p] = Idle] ELSE Load(p, m, "purge")
        \/ Fault("agent") /\ Goto(p, "failed")
     /\ UNCHANGED <<shared, left>>

\* The attempt has failed; a retry finds no media to purge any more.
FailedTask(p) ==
  LET m == w[p].med
  IN /\ At(p, "failed")
     /\ left' = IF m \in rows \/ db[m] = None THEN left ELSE left \cup {m} \cup db[m]
     /\ w' = [w EXCEPT ![p] = Idle]
     /\ UNCHANGED <<shared, faults>>

\* DeleteOwnedMedia: the row goes first.
DeleteByID(p, m) == /\ At(p, "idle") /\ m \in rows
                    /\ rows' = rows \ {m}
                    /\ w' = [w EXCEPT ![p] = [Idle EXCEPT !.pc = "cache", !.med = m, !.tgt = m, !.why = "purge"]]
                    /\ UNCHANGED <<db, cache, owner, ownerLost, lock, frames, named, left, faults>>

\* Mutant: the purge trusts the cache and leaves the database to the agent's next run.
PurgeRuntimeArtifactsCached(p) ==
  /\ At(p, "frames")
  /\ DeleteFrames(FramesOf(w[p].got))
  /\ Goto(p, "purgeCache")
  /\ UNCHANGED <<rows, db, cache, owner, ownerLost, lock, named>>

\* PurgeRuntimeArtifacts: the frames of the context it could load, then the agent's Purge.
PurgeRuntimeArtifacts(p) ==
  /\ At(p, "frames")
  /\ DeleteFrames(FramesOf(w[p].got))
  /\ Goto(p, "purge")
  /\ UNCHANGED <<rows, db, cache, owner, ownerLost, lock, named>>

\* delete_media of the agent: the database, then the cache.
PurgeCheckpoints(p) ==
  LET m == w[p].med
  IN /\ \/ /\ At(p, "purge") /\ Works
           /\ db' = [db EXCEPT ![m] = None]
           /\ left' = left \cup (FramesOf(db[m]) \ FramesOf(w[p].got))
           /\ Goto(p, "purgeCache") /\ UNCHANGED cache
        \/ /\ At(p, "purge") /\ Fault("agent")
           /\ left' = left \cup {m} \cup FramesOf(db[m])
           /\ w' = [w EXCEPT ![p] = Idle] /\ UNCHANGED <<db, cache>>
        \/ /\ At(p, "purgeCache") /\ Works
           /\ cache' = [cache EXCEPT ![m] = None]
           /\ w' = [w EXCEPT ![p] = Idle] /\ UNCHANGED <<db, left>>
     /\ UNCHANGED <<rows, owner, ownerLost, lock, frames, named>>

----------------------------------------------------------------------------
(* Crashes                                                                 *)

\* A gateway dies; what the process was working on may stay behind, and the context it has built unregistered.
Crash(p) == /\ w[p].pc \notin {"idle", "dead"} /\ Fault("crash")
            /\ left' = left \cup {w[p].med} \cup w[p].uploaded \cup ({w[p].put} \ {None})
                            \cup FramesOf(db[w[p].med])
            /\ ownerLost' = (ownerLost \/ (w[p].pc \in {"saveCache", "remember"} /\ w[p].asr # "off"))
            /\ w' = [w EXCEPT ![p] = [Idle EXCEPT !.pc = "dead"]]
            /\ UNCHANGED <<rows, db, cache, owner, lock, frames, named>>

\* The lease of a dead process runs out, or ("lease") that of a process which could not renew it.
LeaseExpires == /\ lock # None
                /\ IF At(lock, "dead") THEN UNCHANGED faults ELSE Fault("lease")
                /\ lock' = None
                /\ UNCHANGED <<rows, db, cache, owner, ownerLost, frames, named, w, left>>

TaskStep(p) ==
  \/ ReadCache(p) \/ FindPayload(p) \/ FillCache(p) \/ ContextOwner(p)
  \/ DropOwner(p) \/ TryLock(p) \/ SaveContext(p) \/ SaveCache(p) \/ RememberContextOwner(p) \/ Unlock(p)
  \/ buildContext(p) \/ OverBudget(p) \/ FinishBuild(p) \/ DiscardBuild(p)
  \/ Conclude(p) \/ FailedTask(p) \/ PurgeRuntimeArtifacts(p) \/ PurgeCheckpoints(p)

BranchStep(p) == AsrEnds(p) \/ UploadFrame(p) \/ OnUpload(p) \/ OcrEnds(p)

Next == \/ \E p \in Process : TaskStep(p) \/ BranchStep(p) \/ Crash(p)
        \/ \E p \in Process, m \in Media : AsyncAnalyze(p, m) \/ DeleteByID(p, m)
        \/ LeaseExpires

Spec == Init /\ [][Next]_vars

----------------------------------------------------------------------------
(* Properties                                                              *)

\* The evidence frames of a media that exists can be shown, whichever media of the same content are deleted.
FramesStand == \A m \in rows : FramesOf(db[m]) \subseteq frames

\* A frame that is stored belongs to a context or to a build in progress, or a failure left it behind: of a build
\* that fails, runs late, or is overtaken by the deletion of its media no frame stays unnoticed.
FramesExplained ==
  \A f \in frames : \/ \E m \in Media : f \in FramesOf(db[m])
                    \/ \E p \in Process : f \in w[p].uploaded \cup {w[p].put} \/ (At(p, "purge") /\ f \in FramesOf(w[p].got))
                    \/ f \in left

\* A deleted media leaves no context behind once its tasks have ended, unless a failure did.
DeletedLeavesNothing ==
  \A m \in Media \ rows : db[m] = None \/ m \in left \/ \E p \in Process : w[p].med = m

\* What LoadContext returns for a media that exists does not depend on whether Redis has it: the cached context is
\* the one in MySQL, however loads that refill the cache, saves and failures of either store interleave.
CacheAgrees == \A m \in rows : cache[m] \in {None, db[m]} \/ ownerLost

\* The context of a media that exists is never built or copied again: whatever else uses the content, its evidence
\* stays the same, as long as each builder registers as the owner, is found, and has a context.
ContextStands ==
  [][\A m \in rows' : db[m] # None => db'[m] = db[m] \/ ownerLost]_vars
=============================================================================
