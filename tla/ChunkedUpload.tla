---------------------------- MODULE ChunkedUpload ----------------------------
(***************************************************************************)
(* Resumable uploads (upload/chunk.go): the parts are staged as objects of *)
(* their own, their progress is kept in Redis, and Complete merges them    *)
(* under lock:upload:merge:<id> into a new object and a media row.         *)
(*                                                                         *)
(* The module composes these requests with those of MediaObjects: the      *)
(* merged object and its row are made by the actions of that module.       *)
(***************************************************************************)
EXTENDS MediaObjects, FiniteSets

CONSTANTS Upload,       \* upload ids
          TotalChunks,  \* the parts of an upload
          Library       \* the requests that may be for the rest of the library

ASSUME UploadAssumption == TotalChunks \in Nat \ {0}

VARIABLES session,   \* upload:chunked:<id>: "new" before it exists, "open", "gone"
          parts,     \* upload:chunked:<id>:parts
          staged,    \* the part objects in the bucket
          marker,    \* upload:chunked:<id>:completed
          refreshed, \* the session was refreshed after the marker was set
          merge,     \* lock:upload:merge:<id>
          step, up, idx,  \* a request's progress, upload and part
          made,      \* the media rows made from an upload (history)
          lapses,    \* times the row of an upload had no marker while its session lived on (history)
          slips      \* faults of this module so far

Index == 0 .. TotalChunks - 1

uploads == <<session, parts, staged, marker, refreshed, merge>>
handlers == <<step, up, idx>>
history == <<made, lapses>>
uploadVars == <<session, parts, staged, marker, refreshed, merge, step, up, idx, made, lapses, slips>>

UploadInit == /\ Init
              /\ session = [u \in Upload |-> "new"]
              /\ parts = [u \in Upload |-> {}]
              /\ staged = [u \in Upload |-> {}]
              /\ marker = [u \in Upload |-> None]
              /\ refreshed = [u \in Upload |-> FALSE]
              /\ merge = [u \in Upload |-> None]
              /\ step = [r \in Request |-> "none"]
              /\ up = [r \in Request |-> None]
              /\ idx = [r \in Request |-> 0]
              /\ made = [u \in Upload |-> {}]
              /\ lapses = [u \in Upload |-> 0]
              /\ slips = 0

StepTo(r, s) == step' = [step EXCEPT ![r] = s]

\* A fault hits a step of this module.
Slip(kind) == kind \in Faults /\ slips' = slips + 1

\* A call of an upload request works, or returns an error, always once the client has gone away.
CallWorks(r) == conn[r] # "gone" /\ UNCHANGED slips
CallFails(r, kind) == IF conn[r] = "gone" THEN UNCHANGED slips ELSE Slip(kind)

Lapse(u) == lapses' = [lapses EXCEPT ![u] = @ + 1]

\* requireUpload: the session of the upload exists and is the caller's.
requireUpload(u) == session[u] = "open"

----------------------------------------------------------------------------
(* Parts                                                                   *)

\* Initialize: the session, under a new random id.
Initialize(u) == session[u] = "new" /\ session' = [session EXCEPT ![u] = "open"]

\* The initUpload handler.
initUpload(u) == /\ Initialize(u)
                 /\ UNCHANGED <<parts, staged, marker, refreshed, merge, handlers, history, slips>>

\* UploadChunk, to its first call: part i of upload u.
UploadChunk(r, u, i) == /\ requireUpload(u)
                        /\ CallWorks(r)
                        /\ up' = [up EXCEPT ![r] = u]
                        /\ idx' = [idx EXCEPT ![r] = i]
                        /\ StepTo(r, "put")

\* The uploadChunk handler.
uploadChunk(r) ==
  /\ At(r, "idle") /\ step[r] = "none"
  /\ \E u \in Upload, i \in Index : UploadChunk(r, u, i)
  /\ UNCHANGED <<uploads, history>>

\* Mutant: a part that could not be staged is marked as received.
UploadObjectUnchecked(r) ==
  /\ step[r] = "put"
  /\ \/ CallWorks(r) /\ staged' = [staged EXCEPT ![up[r]] = @ \cup {idx[r]}] /\ StepTo(r, "received")
     \/ CallFails(r, "minio") /\ UNCHANGED staged /\ StepTo(r, "received")
  /\ UNCHANGED <<session, parts, marker, refreshed, merge, up, idx, history>>

\* UploadObject: the part is staged.
UploadObject(r) ==
  /\ step[r] = "put"
  /\ \/ CallWorks(r) /\ staged' = [staged EXCEPT ![up[r]] = @ \cup {idx[r]}] /\ StepTo(r, "received")
     \/ CallFails(r, "minio") /\ UNCHANGED staged /\ StepTo(r, "done")
  /\ UNCHANGED <<session, parts, marker, refreshed, merge, up, idx, history>>

\* The SADD of UploadChunk; the EXPIREs beside it keep a session alive that still exists.
MarkReceived(r) ==
  /\ step[r] = "received"
  /\ \/ /\ CallWorks(r)
        /\ parts' = [parts EXCEPT ![up[r]] = @ \cup {idx[r]}]
        /\ refreshed' = [refreshed EXCEPT ![up[r]] = requireUpload(up[r])]
     \/ CallFails(r, "redis") /\ UNCHANGED <<parts, refreshed>>
  /\ StepTo(r, "done")
  /\ UNCHANGED <<session, staged, marker, merge, up, idx, history>>

----------------------------------------------------------------------------
(* Complete                                                                *)

\* Complete, to its TryLock: one merge of an upload at a time.
Complete(r, u) == /\ CallWorks(r)
                  /\ merge[u] = None
                  /\ merge' = [merge EXCEPT ![u] = r]
                  /\ up' = [up EXCEPT ![r] = u]
                  /\ StepTo(r, "completed?")

\* The completeUpload handler.
completeUpload(r) ==
  /\ At(r, "idle") /\ step[r] = "none"
  /\ \E u \in Upload : Complete(r, u)
  /\ UNCHANGED <<session, parts, staged, marker, refreshed, idx, history>>

\* Mutant: the merge does not look for the row of an earlier one.
completedUploadBlind(r) ==
  /\ step[r] = "completed?"
  /\ CallWorks(r) /\ StepTo(r, "check")
  /\ UNCHANGED <<uploads, up, idx, history>>

\* completedUpload: the media of an earlier merge is the answer.
completedUpload(r) ==
  /\ step[r] = "completed?"
  /\ \/ CallWorks(r) /\ StepTo(r, IF marker[up[r]] # None THEN "unlock" ELSE "check")
     \/ CallFails(r, "redis") /\ StepTo(r, "unlock")
  /\ UNCHANGED <<uploads, up, idx, history>>

\* UploadedChunks: the parts received for a session that is there.
UploadedChunks(u) == IF requireUpload(u) THEN parts[u] ELSE {}

\* As many parts are received as the upload has.
CheckParts(r) ==
  LET uploaded == UploadedChunks(up[r])
  IN /\ step[r] = "check"
     /\ \/ CallWorks(r) /\ StepTo(r, IF Cardinality(uploaded) = TotalChunks THEN "copy" ELSE "unlock")
        \/ CallFails(r, "redis") /\ StepTo(r, "unlock")
     /\ UNCHANGED <<uploads, up, idx, history>>

\* CopyObjectTo finds the object of a part.
CopyObjectTo(u, i) == i \in staged[u]

\* The parts are copied one by one: one that is missing ends the merge.
CopyParts(r) ==
  /\ step[r] = "copy"
  /\ \/ CallWorks(r) /\ StepTo(r, IF \A i \in Index : CopyObjectTo(up[r], i) THEN "save" ELSE "unlock")
     \/ CallFails(r, "minio") /\ StepTo(r, "unlock")
  /\ UNCHANGED <<uploads, up, idx, history>>

\* UploadLocalFile of the merged file, SaveUploadedMedia and its rollback: steps of MediaObjects.
SaveMerged(r) ==
  /\ step[r] = "save"
  /\ \/ At(r, "idle") /\ UploadLocalFile(r) /\ UNCHANGED conn
     \/ SaveUploadedMedia(r) \/ removeUploadedObject(r) \/ InvalidateUserList(r)
  /\ made' = [made EXCEPT ![up[r]] = @ \cup ({med'[r]} \ {None})]
  /\ UNCHANGED <<uploads, handlers, lapses, slips>>

\* SaveUploadedMedia has returned.
Saved(r) ==
  /\ step[r] = "save" /\ At(r, "done")
  /\ StepTo(r, IF med[r] = None THEN "unlock" ELSE "record")
  /\ UNCHANGED <<uploads, up, idx, history, slips>>

\* The SET of upload:chunked:<id>:completed: without it Complete returns an error though the row is there.
RecordCompleted(r) ==
  LET u == up[r]
  IN /\ step[r] = "record"
     /\ \/ /\ CallWorks(r)
           /\ marker' = [marker EXCEPT ![u] = med[r]]
           /\ refreshed' = [refreshed EXCEPT ![u] = FALSE]
           /\ StepTo(r, "cleanup")
           /\ UNCHANGED lapses
        \/ CallFails(r, "redis") /\ Lapse(u) /\ StepTo(r, "unlock") /\ UNCHANGED <<marker, refreshed>>
     /\ UNCHANGED <<session, parts, staged, merge, up, idx, made>>

\* The first loop of cleanup: part objects that cannot be removed are left to the lifecycle rule.
RemoveParts(r) ==
  /\ step[r] = "cleanup"
  /\ \/ CallWorks(r) /\ staged' = [staged EXCEPT ![up[r]] = {}]
     \/ CallFails(r, "minio") /\ \E left \in SUBSET staged[up[r]] : staged' = [staged EXCEPT ![up[r]] = left]
  /\ StepTo(r, "forget")
  /\ UNCHANGED <<session, parts, marker, refreshed, merge, up, idx, history>>

\* The DEL that ends cleanup.
ForgetUpload(r) ==
  LET u == up[r]
  IN /\ step[r] = "forget"
     /\ \/ /\ CallWorks(r)
           /\ session' = [session EXCEPT ![u] = "gone"]
           /\ parts' = [parts EXCEPT ![u] = {}]
        \/ CallFails(r, "redis") /\ UNCHANGED <<session, parts>>
     /\ StepTo(r, "unlock")
     /\ UNCHANGED <<staged, marker, refreshed, merge, up, idx, history>>

\* The deferred Unlock, under a context of its own.
UnlockMerge(r) ==
  /\ step[r] = "unlock"
  /\ merge' = [merge EXCEPT ![up[r]] = IF @ = r THEN None ELSE @]
  /\ StepTo(r, "done")
  /\ UNCHANGED <<session, parts, staged, marker, refreshed, up, idx, history, slips>>

\* The handler has answered.
ReturnUpload(r) ==
  /\ step[r] = "done"
  /\ StepTo(r, "none")
  /\ up' = [up EXCEPT ![r] = None]
  /\ idx' = [idx EXCEPT ![r] = 0]
  /\ IF At(r, "done") THEN Return(r) ELSE UNCHANGED vars
  /\ UNCHANGED <<uploads, history, slips>>

----------------------------------------------------------------------------
(* Crashes and expiry                                                      *)

\* The gateway dies during an upload request, perhaps with the row there and the marker not.
CrashUpload(r) ==
  /\ step[r] \notin {"none", "done", "dead"} /\ pc[r] \in {"idle", "done"}
  /\ Slip("crash")
  /\ StepTo(r, "dead")
  /\ IF med[r] # None /\ step[r] \in {"save", "record"} THEN Lapse(up[r]) ELSE UNCHANGED lapses
  /\ UNCHANGED <<uploads, up, idx, made>>

\* Between the merged object and its row: a step of MediaObjects.
CrashSave(r) == /\ step[r] = "save"
                /\ Crash(r)
                /\ StepTo(r, "dead")
                /\ IF med[r] # None THEN Lapse(up[r]) ELSE UNCHANGED lapses
                /\ UNCHANGED <<uploads, up, idx, made, slips>>

\* The lease of a dead merge runs out.
MergeLeaseExpires(u) ==
  /\ merge[u] # None /\ step[merge[u]] = "dead"
  /\ merge' = [merge EXCEPT ![u] = None]
  /\ UNCHANGED <<session, parts, staged, marker, refreshed, handlers, history, slips>>

\* 24 hours without a part: the session and its parts expire.
SessionExpires(u) ==
  /\ requireUpload(u) \/ parts[u] # {}
  /\ session' = [session EXCEPT ![u] = "gone"]
  /\ parts' = [parts EXCEPT ![u] = {}]
  /\ UNCHANGED <<staged, marker, refreshed, merge, handlers, history, slips>>

\* The marker lives as long as a session, and was set after its last refresh but for a part that came later.
MarkerExpires(u) ==
  /\ marker[u] # None
  /\ requireUpload(u) => refreshed[u]
  /\ marker' = [marker EXCEPT ![u] = None]
  /\ IF requireUpload(u) THEN Lapse(u) ELSE UNCHANGED lapses
  /\ UNCHANGED <<session, parts, staged, refreshed, merge, handlers, made, slips>>

\* The lifecycle rule removes parts a week old.  "slow": of an upload that is still being fed.
PartsExpire(u) ==
  /\ staged[u] # {}
  /\ IF requireUpload(u) THEN Slip("slow") ELSE UNCHANGED slips
  /\ staged' = [staged EXCEPT ![u] = {}]
  /\ UNCHANGED <<session, parts, marker, refreshed, merge, handlers, history>>

UploadStep(r) ==
  \/ uploadChunk(r) \/ UploadObject(r) \/ MarkReceived(r)
  \/ completeUpload(r) \/ completedUpload(r) \/ CheckParts(r) \/ CopyParts(r) \/ Saved(r)
  \/ RecordCompleted(r) \/ RemoveParts(r) \/ ForgetUpload(r) \/ UnlockMerge(r) \/ CrashUpload(r)

UploadExpiry(u) ==
  initUpload(u) \/ MergeLeaseExpires(u) \/ SessionExpires(u) \/ MarkerExpires(u) \/ PartsExpire(u)

\* The client of an upload request goes away.
DisconnectUpload(r) == step[r] \notin {"none", "done", "dead"} /\ Disconnect(r) /\ UNCHANGED uploadVars

\* The faults of both modules have one budget.
UploadNext ==
  /\ \/ \E r \in Request : UploadStep(r) /\ UNCHANGED vars
     \/ \E u \in Upload : UploadExpiry(u) /\ UNCHANGED vars
     \/ \E r \in Request : SaveMerged(r) \/ ReturnUpload(r) \/ CrashSave(r) \/ DisconnectUpload(r)
     \/ \E r \in Request : r \in Library /\ step[r] = "none" /\ RequestStep(r) /\ UNCHANGED uploadVars
     \/ Expiry /\ UNCHANGED uploadVars
  /\ faults' + slips' <= MaxFaults

UploadSpec == UploadInit /\ [][UploadNext]_<<vars, uploadVars>>

----------------------------------------------------------------------------
(* Properties                                                              *)

\* A client that resumes an upload skips the parts upload-status lists: until the upload has become a media, each of
\* them is staged, whatever failed or crashed while it was stored.
ReceivedIsStaged ==
  \A u \in Upload : session[u] = "open" /\ made[u] = {} => parts[u] \subseteq staged[u]

\* "retries never insert a second media row": an upload becomes a second media only where the first has no marker,
\* because the SET failed, the gateway died before it, or late parts kept the session alive longer than the marker.
OneMediaPerUpload == \A u \in Upload : Cardinality(made[u]) <= 1 + lapses[u]
=============================================================================
