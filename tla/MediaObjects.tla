---------------------------- MODULE MediaObjects ----------------------------
(***************************************************************************)
(* The videos of the media library: rows of media_files, the MinIO objects *)
(* they point at, and the requests that create, share and delete them      *)
(* (media/media.go, upload/instant.go, storage/minio.go).                  *)
(*                                                                         *)
(* Several rows may point at one object (instant upload), so deletion      *)
(* counts references.  The count, and an instant upload's check that the   *)
(* object is there, are made under a lease lock on the content hash.       *)
(*                                                                         *)
(* An object's name is random: its content, and with it the content hash   *)
(* of every row that points at it, is fixed by HashOf.  A step is one call *)
(* to MySQL, Redis or MinIO.  A call fails without effect, within a budget *)
(* of faults.  A client that goes away cancels its request's context, and  *)
(* every later call under that context fails; a gateway may also die       *)
(* between two calls.                                                      *)
(***************************************************************************)
EXTENDS Naturals

CONSTANTS Request,    \* the HTTP requests that are served at a time
          Media,      \* ids of media rows
          Object,     \* object names
          Hash,       \* content hashes
          HashOf,     \* the content of each object
          Faults,     \* the kinds of fault that may happen
          MaxFaults,  \* how many of them
          None

ASSUME ObjectAssumption == /\ HashOf \in [Object -> Hash]
                           /\ MaxFaults \in Nat
                           /\ None \notin Media \cup Object \cup Request

VARIABLES rows,       \* the file_path of each media row, None where there is no row
          issued,     \* the ids MySQL has given out
          stored,     \* the objects in the bucket
          named,      \* the object names drawn so far
          lock,       \* lock:media-object:<hash>
          challenge,  \* the upload:challenge a client holds: the object it is about
          pc, obj, med, locked,  \* a request's progress, object, media and `locked`
          conn,       \* the client: "up", "gone" (the context is cancelled) or "detached" (WithoutCancel)
          list, seen, \* media:list:v2:user:<id>, the cached list, and the rows a request has selected for it
          behind,     \* the list may stay stale: a DEL was lost or a listing overtaken (history)
          orphans,    \* objects a failure left behind (history)
          faults      \* faults so far

stores == <<rows, issued, stored, named>>
locals == <<obj, med, locked>>
cache == <<list, seen, behind>>
vars == <<rows, issued, stored, named, lock, challenge, pc, obj, med, locked, conn, list, seen, behind, orphans,
          faults>>

\* Where a request can be.
Steps == {"idle", "insert", "rollback", "proofLock", "verify", "refer",
          "deleteLock", "deleteRow", "count", "remove", "invalidate", "unlock", "fill", "done", "dead"}

Init == /\ rows = [m \in Media |-> None] /\ issued = {}
        /\ stored = {} /\ named = {}
        /\ lock = [h \in Hash |-> None]
        /\ challenge = [r \in Request |-> None]
        /\ pc = [r \in Request |-> "idle"]
        /\ obj = [r \in Request |-> None]
        /\ med = [r \in Request |-> None]
        /\ locked = [r \in Request |-> FALSE]
        /\ conn = [r \in Request |-> "up"]
        /\ list = None /\ seen = [r \in Request |-> {}] /\ behind = FALSE
        /\ orphans = {} /\ faults = 0

At(r, step) == pc[r] = step
Goto(r, step) == pc' = [pc EXCEPT ![r] = step]

\* A fault of this kind happens.
Fault(kind) == kind \in Faults /\ faults < MaxFaults /\ faults' = faults + 1

\* A call of request r returns an error, always once its context is cancelled.
Fails(r, kind) == IF conn[r] = "gone" THEN UNCHANGED faults ELSE Fault(kind)

\* A call of request r works.
Works(r) == conn[r] # "gone" /\ UNCHANGED faults

\* What request r was doing may leave its object without a row.
Orphaned(r) == orphans' = orphans \cup ({obj[r]} \ {None})

----------------------------------------------------------------------------
(* A new video                                                             *)

\* UploadStream: PutObject under a new random name.
UploadStream(r) ==
  \/ /\ Works(r)
     /\ \E o \in Object \ named :
          /\ named' = named \cup {o}
          /\ stored' = stored \cup {o}
          /\ obj' = [obj EXCEPT ![r] = o]
     /\ Goto(r, "insert")
  \/ /\ Fails(r, "minio")
     /\ UNCHANGED <<named, stored, obj>>
     /\ Goto(r, "done")

\* UploadLocalFile, the same for a file on disk.
UploadLocalFile(r) == UploadStream(r) /\ UNCHANGED <<rows, issued, lock, challenge, med, locked, cache, orphans>>

\* IngestFile: an upload in one piece.
IngestFile(r) == UploadStream(r) /\ UNCHANGED <<rows, issued, lock, challenge, med, locked, cache, orphans>>

\* The uploadFile handler.
uploadFile(r) == At(r, "idle") /\ IngestFile(r) /\ UNCHANGED conn

\* IngestURL: the downloaded file is stored.
IngestURL(r) == UploadLocalFile(r)

\* The uploadURL handler: the import goes on when the client goes away (context.WithoutCancel).
uploadURL(r) == /\ At(r, "idle")
                /\ IngestURL(r)
                /\ conn' = [conn EXCEPT ![r] = IF @ = "up" THEN "detached" ELSE @]

\* repo.Insert: MySQL gives the row a new id.
Insert(r, m) ==
  /\ m \notin issued
  /\ issued' = issued \cup {m}
  /\ rows' = [rows EXCEPT ![m] = obj[r]]
  /\ med' = [med EXCEPT ![r] = m]

\* SaveUploadedMedia: the row, or the object goes again.  Where the reply to the INSERT is lost ("reply") the row
\* is there and the request takes it for absent.
SaveUploadedMedia(r) ==
  /\ At(r, "insert")
  /\ \/ \E m \in Media : Insert(r, m) /\ Works(r) /\ Goto(r, "invalidate") /\ UNCHANGED behind
     \/ Fails(r, "db") /\ UNCHANGED <<issued, rows, med, behind>> /\ Goto(r, "rollback")
     \/ /\ \E m \in Media : Insert(r, m)
        /\ conn[r] # "gone" /\ Fault("reply")
        /\ Goto(r, "rollback")
        /\ behind' = TRUE
  /\ UNCHANGED <<stored, named, lock, challenge, obj, locked, conn, list, seen, orphans>>

\* Mutant: the list is left to its 30 minutes.
InvalidateNothing(r) ==
  /\ At(r, "invalidate")
  /\ Works(r) /\ UNCHANGED <<list, behind>>
  /\ Goto(r, IF lock[HashOf[obj[r]]] = r THEN "unlock" ELSE "done")
  /\ UNCHANGED <<stores, lock, challenge, locals, conn, seen, orphans>>

\* InvalidateUserList, the last call of a request that has changed the rows.  A failed DEL is logged.
InvalidateUserList(r) ==
  /\ At(r, "invalidate")
  /\ \/ Works(r) /\ list' = None /\ behind' = FALSE
     \/ Fails(r, "redis") /\ UNCHANGED list /\ behind' = TRUE
  /\ Goto(r, IF lock[HashOf[obj[r]]] = r THEN "unlock" ELSE "done")
  /\ UNCHANGED <<stores, lock, challenge, locals, conn, seen, orphans>>

\* RemoveFile: the object goes, or a failure that is logged leaves it behind.
RemoveFile(r) == \/ Works(r) /\ stored' = stored \ {obj[r]} /\ UNCHANGED orphans
                 \/ Fails(r, "minio") /\ Orphaned(r) /\ UNCHANGED stored

\* removeUploadedObject, under the request's own context.
removeUploadedObject(r) ==
  /\ At(r, "rollback")
  /\ RemoveFile(r)
  /\ Goto(r, "done")
  /\ UNCHANGED <<rows, issued, named, lock, challenge, locals, conn, cache>>

----------------------------------------------------------------------------
(* Instant upload                                                          *)

\* FindByContentHash: the rows of a content hash.
FindByContentHash(h) == {m \in Media : rows[m] # None /\ HashOf[rows[m]] = h}

\* ObjectSize: the object of a row can be read.
ObjectSize(m) == rows[m] \in stored

\* The stored copies of a content, any of which the challenge may be about.
Copies(h) == {m \in FindByContentHash(h) : ObjectSize(m)}

\* Challenge: the client is asked to prove that it has the file.
Challenge(r, h) == /\ Works(r)
                   /\ \E m \in Copies(h) : challenge' = [challenge EXCEPT ![r] = rows[m]]

\* The instantUploadChallenge handler.  Without a copy the answer is null.
instantUploadChallenge(r) ==
  /\ At(r, "idle")
  /\ challenge[r] = None
  /\ \E h \in Hash : Challenge(r, h)
  /\ UNCHANGED <<stores, lock, pc, locals, conn, orphans, cache>>

\* upload:challenge:<id> expires after two minutes.
ChallengeExpires(r) ==
  /\ challenge[r] # None
  /\ challenge' = [challenge EXCEPT ![r] = None]
  /\ UNCHANGED <<stores, lock, pc, locals, conn, orphans, faults, cache>>

\* takeChallenge: read and deleted in one transaction, whatever becomes of the proof.
takeChallenge(r) == /\ Works(r)
                    /\ challenge[r] # None
                    /\ challenge' = [challenge EXCEPT ![r] = None]
                    /\ obj' = [obj EXCEPT ![r] = challenge[r]]

\* Prove, to its first call.  A caller the challenge was not made for is turned away.
Prove(r) == takeChallenge(r) /\ \E next \in {"proofLock", "done"} : Goto(r, next)

\* The instantUpload handler.
instantUpload(r) ==
  /\ At(r, "idle")
  /\ Prove(r)
  /\ UNCHANGED <<stores, lock, med, locked, conn, orphans, cache>>

\* TryLock takes lock:media-object:<hash> if it is free.
Take(r) == /\ lock[HashOf[obj[r]]] = None
           /\ lock' = [lock EXCEPT ![HashOf[obj[r]]] = r]

\* Prove's TryLock: the proof is refused if the lock stays taken.
ProofLock(r) ==
  /\ At(r, "proofLock")
  /\ \/ Take(r) /\ Works(r) /\ Goto(r, "verify")
     \/ lock[HashOf[obj[r]]] # None /\ Works(r) /\ UNCHANGED lock /\ Goto(r, "done")
     \/ Fails(r, "redis") /\ UNCHANGED lock /\ Goto(r, "done")
  /\ UNCHANGED <<stores, challenge, locals, conn, orphans, cache>>

\* ReadRange: the bytes of an object that is there.
ReadRange(r) == obj[r] \in stored /\ Works(r)

\* VerifyRange of what ReadRange returns: the client's answer is right, or the proof fails.
VerifyRange(r) ==
  /\ At(r, "verify")
  /\ \/ ReadRange(r) /\ Goto(r, "refer")
     \/ UNCHANGED faults /\ Goto(r, "unlock")
  /\ UNCHANGED <<stores, lock, challenge, locals, conn, orphans, cache>>

\* SaveReference: a row that points at the object of another.
SaveReference(r) ==
  /\ At(r, "refer")
  /\ \/ \E m \in Media : Insert(r, m) /\ Works(r) /\ Goto(r, "invalidate")
     \/ Fails(r, "db") /\ UNCHANGED <<issued, rows, med>> /\ Goto(r, "unlock")
  /\ UNCHANGED <<stored, named, lock, challenge, obj, locked, conn, orphans, cache>>

----------------------------------------------------------------------------
(* Deletion                                                                *)

\* RequireOwnedMedia: the row of the media.
RequireOwnedMedia(r, m) == /\ Works(r)
                           /\ rows[m] # None
                           /\ med' = [med EXCEPT ![r] = m]
                           /\ obj' = [obj EXCEPT ![r] = rows[m]]

\* The deleteMedia handler, to the first call of DeleteOwnedMedia.
deleteMedia(r) == /\ At(r, "idle")
                  /\ \E m \in Media : RequireOwnedMedia(r, m)
                  /\ Goto(r, "deleteLock")
                  /\ UNCHANGED <<stores, lock, challenge, locked, conn, orphans, cache>>

\* DeleteOwnedMedia's TryLock: the deletion goes on without the lock if it stays taken.
DeleteLock(r) ==
  /\ At(r, "deleteLock")
  /\ \/ Take(r) /\ Works(r) /\ locked' = [locked EXCEPT ![r] = TRUE]
     \/ lock[HashOf[obj[r]]] # None /\ Works(r) /\ UNCHANGED <<lock, locked>>
     \/ Fails(r, "redis") /\ UNCHANGED <<lock, locked>>
  /\ Goto(r, "deleteRow")
  /\ UNCHANGED <<stores, challenge, obj, med, conn, orphans, cache>>

\* repo.DeleteByID: no error if another request has deleted the row.
DeleteByID(r) ==
  /\ At(r, "deleteRow")
  /\ \/ Works(r) /\ rows' = [rows EXCEPT ![med[r]] = None] /\ Goto(r, "count")
     \/ Fails(r, "db") /\ UNCHANGED rows /\ Goto(r, "unlock")
  /\ UNCHANGED <<issued, stored, named, lock, challenge, locals, conn, orphans, cache>>

\* Mutant: the deletion that could not take the lock removes the object too.
ShouldDeleteUnlocked(r, remainingRefs) == remainingRefs = {}

\* Mutant: no object counts as managed.
ShouldDeleteNever(r, remainingRefs) == FALSE

\* ShouldDeleteObject.
ShouldDeleteObject(r, remainingRefs) == locked[r] /\ remainingRefs = {}

\* repo.CountFileReferences: the rows of the same hash and path.
CountFileReferences(o) == {m \in FindByContentHash(HashOf[o]) : rows[m] = o}

\* The count and what follows from it.  Without the lock, or without a count, the object is kept.
CountReferences(r) ==
  LET remainingRefs == CountFileReferences(obj[r])
  IN /\ At(r, "count")
     /\ \/ /\ Works(r)
           /\ ShouldDeleteObject(r, remainingRefs)
           /\ Goto(r, "remove")
           /\ UNCHANGED orphans
        \/ /\ Works(r)
           /\ ~ShouldDeleteObject(r, remainingRefs)
           /\ Goto(r, "invalidate")
           /\ IF remainingRefs = {} /\ ~locked[r] THEN Orphaned(r) ELSE UNCHANGED orphans
        \/ Fails(r, "db") /\ Goto(r, "invalidate") /\ Orphaned(r)
     /\ UNCHANGED <<stores, lock, challenge, locals, conn, cache>>

\* The object of a media nobody points at any more.
DeleteObject(r) ==
  /\ At(r, "remove")
  /\ RemoveFile(r)
  /\ Goto(r, "invalidate")
  /\ UNCHANGED <<rows, issued, named, lock, challenge, locals, conn, cache>>

\* The deferred Unlock, under a context of its own: only the request's own lease is deleted.
Unlock(r) ==
  /\ At(r, "unlock")
  /\ lock' = [h \in Hash |-> IF lock[h] = r THEN None ELSE lock[h]]
  /\ Goto(r, "done")
  /\ UNCHANGED <<stores, challenge, locals, conn, orphans, faults, cache>>

\* The handler has answered; the next request takes its place.
Return(r) ==
  /\ At(r, "done")
  /\ Goto(r, "idle")
  /\ obj' = [obj EXCEPT ![r] = None]
  /\ med' = [med EXCEPT ![r] = None]
  /\ locked' = [locked EXCEPT ![r] = FALSE]
  /\ conn' = [conn EXCEPT ![r] = "up"]
  /\ UNCHANGED <<stores, lock, challenge, orphans, faults, cache>>

----------------------------------------------------------------------------
(* The list of videos                                                      *)

\* The SELECT of repo.ListByUser.
SelectRows == {m \in Media : rows[m] # None}

\* The listMedia handler and ListByUser: what the cache holds is the answer, else the rows are read.
listMedia(r) ==
  /\ At(r, "idle")
  /\ \/ list = None /\ Works(r)
     \/ list # None /\ Fails(r, "redis")
  /\ seen' = [seen EXCEPT ![r] = SelectRows]
  /\ Goto(r, "fill")
  /\ UNCHANGED <<stores, lock, challenge, locals, conn, list, behind, orphans>>

\* The SET that ends ListByUser.  The rows may have changed since they were read.
FillList(r) ==
  /\ At(r, "fill")
  /\ \/ Works(r) /\ list' = seen[r] /\ behind' = (seen[r] # SelectRows)
     \/ Fails(r, "redis") /\ UNCHANGED <<list, behind>>
  /\ seen' = [seen EXCEPT ![r] = {}]
  /\ Goto(r, "done")
  /\ UNCHANGED <<stores, lock, challenge, locals, conn, orphans>>

\* The list expires after 30 minutes.
ListExpires ==
  /\ list # None
  /\ list' = None /\ behind' = FALSE
  /\ UNCHANGED <<stores, lock, challenge, pc, locals, conn, seen, orphans, faults>>

----------------------------------------------------------------------------
(* Clients that go away, crashes and leases                                *)

\* The client goes away: net/http cancels the request's context.
Disconnect(r) ==
  /\ conn[r] = "up" /\ pc[r] # "dead"
  /\ Fault("cancel")
  /\ conn' = [conn EXCEPT ![r] = "gone"]
  /\ UNCHANGED <<stores, lock, challenge, pc, locals, orphans, cache>>

\* The gateway dies.  What it was working on may stay behind.
Crash(r) ==
  /\ pc[r] \notin {"idle", "done", "dead"}
  /\ Fault("crash")
  /\ Goto(r, "dead")
  /\ Orphaned(r)
  /\ behind' = (behind \/ pc[r] \in {"count", "remove", "invalidate"})
  /\ UNCHANGED <<stores, lock, challenge, locals, conn, list, seen>>

\* The lease of a dead request runs out, or ("lease") that of a request which could not renew it.
LeaseExpires(h) ==
  /\ lock[h] # None
  /\ IF At(lock[h], "dead") THEN UNCHANGED faults ELSE Fault("lease")
  /\ lock' = [lock EXCEPT ![h] = None]
  /\ UNCHANGED <<stores, challenge, pc, locals, conn, orphans, cache>>

RequestStep(r) ==
  \/ uploadFile(r) \/ uploadURL(r) \/ SaveUploadedMedia(r) \/ removeUploadedObject(r)
  \/ instantUploadChallenge(r) \/ instantUpload(r) \/ ProofLock(r) \/ VerifyRange(r) \/ SaveReference(r)
  \/ deleteMedia(r) \/ DeleteLock(r) \/ DeleteByID(r) \/ CountReferences(r) \/ DeleteObject(r)
  \/ InvalidateUserList(r) \/ Unlock(r) \/ Return(r) \/ Disconnect(r) \/ Crash(r)

Expiry == (\E r \in Request : ChallengeExpires(r)) \/ (\E h \in Hash : LeaseExpires(h))

Listing == (\E r \in Request : listMedia(r) \/ FillList(r)) \/ ListExpires

Next == (\E r \in Request : RequestStep(r)) \/ Expiry \/ Listing

Spec == Init /\ [][Next]_vars

----------------------------------------------------------------------------
(* Properties                                                              *)

\* Types; a row's file_path is an object's name, in MySQL and in every request (repo.Insert).
TypeOK == /\ rows \in [Media -> Object \cup {None}] /\ issued \subseteq Media
          /\ stored \subseteq Object /\ named \subseteq Object /\ orphans \subseteq Object
          /\ lock \in [Hash -> Request \cup {None}]
          /\ challenge \in [Request -> Object \cup {None}]
          /\ pc \in [Request -> Steps]
          /\ obj \in [Request -> Object \cup {None}]
          /\ med \in [Request -> Media \cup {None}]
          /\ locked \in [Request -> BOOLEAN]
          /\ conn \in [Request -> {"up", "gone", "detached"}]
          /\ list \in (SUBSET Media) \cup {None} /\ seen \in [Request -> SUBSET Media] /\ behind \in BOOLEAN
          /\ faults \in Nat

References == INSTANCE ObjectReferences WITH refs <- rows

\* DeleteOwnedMedia, Prove and SaveUploadedMedia together keep the promise of ObjectReferences: a row is only
\* written for an object that is stored, and an object is only removed when nothing points at it, whatever the
\* interleaving of two deletions, a deletion and an instant upload, and any call that fails ("a wrongly deleted one
\* breaks another user's video").
KeepsReferences == References!Spec

\* The video of every media row can be played: its object is in the bucket.
ReferencedIsStored == \A m \in Media : rows[m] # None => rows[m] \in stored

\* An object nobody points at is being worked on, or a failure left it behind: concurrent deletions of the last
\* two copies of a video do not leave its object to either of them.
OrphansExplained ==
  \A o \in stored : \/ \E m \in Media : rows[m] = o
                    \/ \E r \in Request : obj[r] = o /\ pc[r] \notin {"idle", "done", "dead"}
                    \/ o \in orphans

\* An uploaded video "shows up in the list on the next refresh", a deleted one is gone from it: a cached list that
\* differs from the rows is about to be dropped by the request that made the difference, or its DEL failed or died
\* with its gateway, or the listing was overtaken by that request between its SELECT and its SET.
FreshList == \/ list \in {None, SelectRows}
             \/ behind
             \/ \E r \in Request : pc[r] \in {"count", "remove", "invalidate"}
=============================================================================
