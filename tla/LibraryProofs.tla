----------------------------- MODULE LibraryProofs -----------------------------
(***************************************************************************)
(* The media library keeps the promise of ObjectReferences, for any number *)
(* of requests, media, objects and contents, and any number of failed      *)
(* calls, crashes and clients that go away, as long as no reply to an      *)
(* INSERT is lost and no lease runs out under a request that is alive.     *)
(* What it leaves behind and what its cached list shows is explained with  *)
(* no such proviso.  Resumable uploads are a part of it, and keep their    *)
(* own promises; downloads from a link come before an import and keep      *)
(* theirs, whatever the mirrors answer and whenever the caller leaves.     *)
(***************************************************************************)
EXTENDS ChunkedUpload, LinkDownload, FiniteSetTheorems, TLAPS

----------------------------------------------------------------------------
(* Types                                                                   *)

LEMMA TypeInit == ASSUME Init PROVE TypeOK
  BY ObjectAssumption DEF Init, TypeOK, Steps

LEMMA TypeNewVideo ==
  ASSUME TypeOK, NEW r \in Request,
         uploadFile(r) \/ uploadURL(r) \/ SaveUploadedMedia(r) \/ removeUploadedObject(r)
  PROVE  TypeOK'
<1> USE DEF TypeOK, Steps, Goto, At, Works, Fails, Fault
<1>1. CASE uploadFile(r)
  BY <1>1 DEF uploadFile, IngestFile, UploadStream, cache
<1>2. CASE uploadURL(r)
  BY <1>2 DEF uploadURL, IngestURL, UploadLocalFile, UploadStream, cache
<1>3. CASE SaveUploadedMedia(r)
  <2>1. behind' \in BOOLEAN
    BY <1>3, Zenon DEF SaveUploadedMedia
  <2> QED BY <1>3, <2>1 DEF SaveUploadedMedia, Insert
<1>4. CASE removeUploadedObject(r)
  BY <1>4 DEF removeUploadedObject, RemoveFile, Orphaned, cache, locals
<1> QED BY <1>1, <1>2, <1>3, <1>4

LEMMA TypeInstantUpload ==
  ASSUME TypeOK, NEW r \in Request,
         \/ instantUploadChallenge(r) \/ instantUpload(r) \/ ProofLock(r)
         \/ VerifyRange(r) \/ SaveReference(r) \/ ChallengeExpires(r)
  PROVE  TypeOK'
<1> USE ObjectAssumption DEF TypeOK, Steps, Goto, At, Works, Fails, Fault, stores, locals, cache
<1>1. CASE instantUploadChallenge(r)
  BY <1>1 DEF instantUploadChallenge, Challenge, Copies, FindByContentHash
<1>2. CASE instantUpload(r)
  BY <1>2 DEF instantUpload, Prove, takeChallenge
<1>3. CASE ProofLock(r)
  BY <1>3 DEF ProofLock, Take
<1>4. CASE VerifyRange(r)
  BY <1>4 DEF VerifyRange, ReadRange
<1>5. CASE SaveReference(r)
  BY <1>5 DEF SaveReference, Insert
<1>6. CASE ChallengeExpires(r)
  BY <1>6 DEF ChallengeExpires
<1> QED BY <1>1, <1>2, <1>3, <1>4, <1>5, <1>6

LEMMA TypeDeletion ==
  ASSUME TypeOK, NEW r \in Request,
         \/ deleteMedia(r) \/ DeleteLock(r) \/ DeleteByID(r) \/ CountReferences(r)
         \/ DeleteObject(r) \/ InvalidateUserList(r) \/ Unlock(r) \/ Return(r)
  PROVE  TypeOK'
<1> USE ObjectAssumption DEF TypeOK, Steps, Goto, At, Works, Fails, Fault, stores, locals, cache
<1>1. CASE deleteMedia(r)
  BY <1>1 DEF deleteMedia, RequireOwnedMedia
<1>2. CASE DeleteLock(r)
  <2>1. locked' \in [Request -> BOOLEAN]
    BY <1>2, Zenon DEF DeleteLock
  <2>2. lock' \in [Hash -> Request \cup {None}]
    BY <1>2 DEF DeleteLock, Take
  <2>3. faults' \in Nat
    BY <1>2 DEF DeleteLock
  <2>4. pc' \in [Request -> Steps] /\ UNCHANGED <<stores, challenge, obj, med, conn, orphans, cache>>
    BY <1>2 DEF DeleteLock
  <2> QED BY <2>1, <2>2, <2>3, <2>4
<1>3. CASE DeleteByID(r)
  BY <1>3 DEF DeleteByID
<1>4. CASE CountReferences(r)
  BY <1>4 DEF CountReferences, Orphaned
<1>5. CASE DeleteObject(r)
  BY <1>5 DEF DeleteObject, RemoveFile, Orphaned
<1>6. CASE InvalidateUserList(r)
  <2>1. behind' \in BOOLEAN
    BY <1>6, Zenon DEF InvalidateUserList
  <2> QED BY <1>6, <2>1 DEF InvalidateUserList
<1>7. CASE Unlock(r)
  BY <1>7 DEF Unlock
<1>8. CASE Return(r)
  BY <1>8 DEF Return
<1> QED BY <1>1, <1>2, <1>3, <1>4, <1>5, <1>6, <1>7, <1>8

LEMMA TypeListing == ASSUME TypeOK, Listing PROVE TypeOK'
<1> USE DEF TypeOK, Steps, Goto, At, Works, Fails, Fault, stores, locals, SelectRows
<1>1. ASSUME NEW r \in Request, listMedia(r) PROVE TypeOK'
  BY <1>1 DEF listMedia
<1>2. ASSUME NEW r \in Request, FillList(r) PROVE TypeOK'
  <2>1. behind' \in BOOLEAN
    BY <1>2, Zenon DEF FillList
  <2> QED BY <1>2, <2>1 DEF FillList
<1>3. CASE ListExpires
  BY <1>3 DEF ListExpires
<1> QED BY <1>1, <1>2, <1>3 DEF Listing

LEMMA TypeFault ==
  ASSUME TypeOK,
         \/ \E r \in Request : Disconnect(r) \/ Crash(r)
         \/ \E h \in Hash : LeaseExpires(h)
  PROVE  TypeOK'
<1> USE DEF TypeOK, Steps, Goto, At, Fault, stores, locals, cache
<1>1. ASSUME NEW r \in Request, Disconnect(r) PROVE TypeOK'
  BY <1>1 DEF Disconnect
<1>2. ASSUME NEW r \in Request, Crash(r) PROVE TypeOK'
  BY <1>2 DEF Crash, Orphaned
<1>3. ASSUME NEW h \in Hash, LeaseExpires(h) PROVE TypeOK'
  BY <1>3 DEF LeaseExpires
<1> QED BY <1>1, <1>2, <1>3

LEMMA TypeNext == ASSUME TypeOK, [Next]_vars PROVE TypeOK'
<1>1. CASE UNCHANGED vars
  BY <1>1 DEF TypeOK, vars
<1>2. CASE Next
  BY <1>2, TypeNewVideo, TypeInstantUpload, TypeDeletion, TypeListing, TypeFault DEF Next, RequestStep, Expiry
<1> QED BY <1>1, <1>2

\* Rows, objects, locks and the progress of every request have their types at all times.
THEOREM MediaTypeCorrect == Spec => []TypeOK
<1>1. Init => TypeOK
  BY TypeInit
<1>2. TypeOK /\ [Next]_vars => TypeOK'
  BY TypeNext
<1> QED BY <1>1, <1>2, PTL DEF Spec

----------------------------------------------------------------------------
(* References                                                              *)

\* A name that was never drawn is nowhere, an id that was never issued has no row.
Fresh == /\ stored \subseteq named
         /\ \A m \in Media : rows[m] # None => rows[m] \in named /\ m \in issued
         /\ \A r \in Request : obj[r] # None => obj[r] \in named
         /\ \A r \in Request : challenge[r] # None => challenge[r] \in named

\* A request that has to do with an object has one in hand.
InHand == \A r \in Request :
            pc[r] \in {"insert", "rollback", "proofLock", "verify", "refer", "deleteLock", "deleteRow", "count", "remove"}
              => obj[r] \in Object

\* A new object is known to the request that stores it alone, until its row is there.
Private == \A r \in Request : pc[r] \in {"insert", "rollback"} =>
             /\ \A m \in Media : rows[m] # obj[r]
             /\ \A q \in Request : challenge[q] # obj[r] /\ (q # r => obj[q] # obj[r])
             /\ pc[r] = "insert" => obj[r] \in stored

\* Whoever has taken the lock of a content, holds it.
Holds == \A r \in Request :
           /\ pc[r] \in {"verify", "refer"} => lock[HashOf[obj[r]]] = r
           /\ pc[r] \in {"deleteRow", "count", "remove"} /\ locked[r] => lock[HashOf[obj[r]]] = r
           /\ pc[r] \in {"idle", "deleteLock"} => ~locked[r]

\* What a request has seen under the lock is still so.
Seen == \A r \in Request : /\ pc[r] = "refer" => obj[r] \in stored
                           /\ pc[r] = "remove" => locked[r] /\ \A m \in Media : rows[m] # obj[r]

IInv == TypeOK /\ Fresh /\ InHand /\ Private /\ Holds /\ Seen /\ ReferencedIsStored

LEMMA IInit == ASSUME Init PROVE IInv
  BY TypeInit DEF Init, IInv, Fresh, InHand, Private, Holds, Seen, ReferencedIsStored

USE DEF At, Goto

LEMMA NewVideo ==
  ASSUME IInv, TypeOK', NEW r \in Request, "reply" \notin Faults,
         uploadFile(r) \/ uploadURL(r) \/ SaveUploadedMedia(r) \/ removeUploadedObject(r)
  PROVE  IInv'
<1> USE ObjectAssumption DEF IInv, TypeOK, Fresh, InHand, Private, Holds, Seen, ReferencedIsStored
<1>1. CASE uploadFile(r)
  BY <1>1 DEF uploadFile, IngestFile, UploadStream
<1>2. CASE uploadURL(r)
  BY <1>2 DEF uploadURL, IngestURL, UploadLocalFile, UploadStream
<1>3. CASE SaveUploadedMedia(r)
  BY <1>3 DEF SaveUploadedMedia, Insert, Fault
<1>4. CASE removeUploadedObject(r)
  BY <1>4 DEF removeUploadedObject, RemoveFile, locals
<1> QED BY <1>1, <1>2, <1>3, <1>4

LEMMA InstantUpload ==
  ASSUME IInv, TypeOK', NEW r \in Request,
         \/ instantUploadChallenge(r) \/ instantUpload(r) \/ ProofLock(r)
         \/ VerifyRange(r) \/ SaveReference(r) \/ ChallengeExpires(r)
  PROVE  IInv'
<1> USE ObjectAssumption DEF IInv, TypeOK, Fresh, InHand, Private, Holds, Seen, ReferencedIsStored, stores, locals
<1>1. CASE instantUploadChallenge(r)
  BY <1>1 DEF instantUploadChallenge, Challenge, Copies, FindByContentHash
<1>2. CASE instantUpload(r)
  BY <1>2 DEF instantUpload, Prove, takeChallenge
<1>3. CASE ProofLock(r)
  BY <1>3 DEF ProofLock, Take
<1>4. CASE VerifyRange(r)
  BY <1>4 DEF VerifyRange, ReadRange
<1>5. CASE SaveReference(r)
  BY <1>5 DEF SaveReference, Insert
<1>6. CASE ChallengeExpires(r)
  BY <1>6 DEF ChallengeExpires
<1> QED BY <1>1, <1>2, <1>3, <1>4, <1>5, <1>6

LEMMA Deletion ==
  ASSUME IInv, TypeOK', NEW r \in Request,
         \/ deleteMedia(r) \/ DeleteLock(r) \/ DeleteByID(r) \/ CountReferences(r)
         \/ DeleteObject(r) \/ InvalidateUserList(r) \/ Unlock(r) \/ Return(r)
  PROVE  IInv'
<1> USE ObjectAssumption DEF IInv, TypeOK, Fresh, InHand, Private, Holds, Seen, ReferencedIsStored, stores, locals
<1>1. CASE deleteMedia(r)
  BY <1>1 DEF deleteMedia, RequireOwnedMedia
<1>2. CASE DeleteLock(r)
  BY <1>2 DEF DeleteLock, Take
<1>3. CASE DeleteByID(r)
  BY <1>3 DEF DeleteByID
<1>4. CASE CountReferences(r)
  BY <1>4 DEF CountReferences, CountFileReferences, FindByContentHash, ShouldDeleteObject
<1>5. CASE DeleteObject(r)
  BY <1>5 DEF DeleteObject, RemoveFile
<1>6. CASE InvalidateUserList(r)
  BY <1>6 DEF InvalidateUserList
<1>7. CASE Unlock(r)
  BY <1>7 DEF Unlock
<1>8. CASE Return(r)
  BY <1>8 DEF Return
<1> QED BY <1>1, <1>2, <1>3, <1>4, <1>5, <1>6, <1>7, <1>8

LEMMA ListsAndFaults ==
  ASSUME IInv, TypeOK', "lease" \notin Faults,
         \/ Listing
         \/ \E r \in Request : Disconnect(r) \/ Crash(r)
         \/ \E h \in Hash : LeaseExpires(h)
  PROVE  IInv'
<1> USE DEF IInv, TypeOK, Fresh, InHand, Private, Holds, Seen, ReferencedIsStored, stores, locals
<1>1. ASSUME NEW r \in Request, listMedia(r) PROVE IInv'
  BY <1>1 DEF listMedia
<1>2. ASSUME NEW r \in Request, FillList(r) PROVE IInv'
  BY <1>2 DEF FillList
<1>3. CASE ListExpires
  BY <1>3 DEF ListExpires
<1>4. ASSUME NEW r \in Request, Disconnect(r) PROVE IInv'
  BY <1>4 DEF Disconnect
<1>5. ASSUME NEW r \in Request, Crash(r) PROVE IInv'
  BY <1>5 DEF Crash
<1>6. ASSUME NEW h \in Hash, LeaseExpires(h) PROVE IInv'
  BY <1>6 DEF LeaseExpires, Fault
<1> QED BY <1>1, <1>2, <1>3, <1>4, <1>5, <1>6 DEF Listing

LEMMA INext ==
  ASSUME IInv, [Next]_vars, "reply" \notin Faults, "lease" \notin Faults
  PROVE  IInv'
<1>0. TypeOK'
  BY TypeNext DEF IInv
<1>1. CASE UNCHANGED vars
  BY <1>0, <1>1 DEF IInv, TypeOK, Fresh, InHand, Private, Holds, Seen, ReferencedIsStored, vars
<1>2. CASE Next
  BY <1>0, <1>2, NewVideo, InstantUpload, Deletion, ListsAndFaults DEF Next, RequestStep, Expiry
<1> QED BY <1>1, <1>2

LEMMA IInvHolds == ASSUME "reply" \notin Faults, "lease" \notin Faults PROVE Spec => []IInv
<1>1. Init => IInv
  BY IInit
<1>2. IInv /\ [Next]_vars => IInv'
  BY INext
<1> QED BY <1>1, <1>2, PTL DEF Spec

\* Every media row's object is in the bucket, whichever deletions, uploads and instant uploads interleave
\* (DeleteOwnedMedia, SaveReference, SaveUploadedMedia).
THEOREM RowsCanBePlayed ==
  ASSUME "reply" \notin Faults, "lease" \notin Faults
  PROVE  Spec => []ReferencedIsStored
<1>1. IInv => ReferencedIsStored
  BY DEF IInv
<1> QED BY <1>1, IInvHolds, PTL

----------------------------------------------------------------------------
(* Refinement                                                              *)

LEMMA StepRefines ==
  ASSUME IInv, [Next]_vars, "reply" \notin Faults
  PROVE  [References!Next]_<<stored, rows>>
<1> USE ObjectAssumption DEF IInv, TypeOK, InHand, References!Next, References!Store, References!Collect,
        References!Forget, References!Refer
<1>1. CASE UNCHANGED <<stored, rows>>
  BY <1>1
<1>2. ASSUME NEW r \in Request, uploadFile(r) \/ uploadURL(r) PROVE References!Next \/ UNCHANGED <<stored, rows>>
  BY <1>2 DEF uploadFile, uploadURL, IngestFile, IngestURL, UploadLocalFile, UploadStream
<1>3. ASSUME NEW r \in Request, SaveUploadedMedia(r) PROVE References!Next \/ UNCHANGED <<stored, rows>>
  BY <1>3 DEF SaveUploadedMedia, Insert, Fresh, Private, Fault
<1>4. ASSUME NEW r \in Request, SaveReference(r) PROVE References!Next \/ UNCHANGED <<stored, rows>>
  BY <1>4 DEF SaveReference, Insert, Fresh, Seen
<1>5. ASSUME NEW r \in Request, removeUploadedObject(r) PROVE References!Next \/ UNCHANGED <<stored, rows>>
  BY <1>5 DEF removeUploadedObject, RemoveFile, Private
<1>6. ASSUME NEW r \in Request, DeleteObject(r) PROVE References!Next \/ UNCHANGED <<stored, rows>>
  BY <1>6 DEF DeleteObject, RemoveFile, Seen
<1>7. ASSUME NEW r \in Request, DeleteByID(r) PROVE References!Next \/ UNCHANGED <<stored, rows>>
  BY <1>7 DEF DeleteByID
<1>8. ASSUME NEW r \in Request,
             \/ instantUploadChallenge(r) \/ instantUpload(r) \/ ProofLock(r) \/ VerifyRange(r)
             \/ deleteMedia(r) \/ DeleteLock(r) \/ CountReferences(r) \/ InvalidateUserList(r)
             \/ Unlock(r) \/ Return(r) \/ Disconnect(r) \/ Crash(r)
      PROVE  UNCHANGED <<stored, rows>>
  BY <1>8 DEF instantUploadChallenge, instantUpload, ProofLock, VerifyRange, deleteMedia, DeleteLock, CountReferences,
              InvalidateUserList, Unlock, Return, Disconnect, Crash, stores
<1>9. CASE Expiry \/ Listing \/ UNCHANGED vars
  BY <1>9 DEF Expiry, Listing, ChallengeExpires, LeaseExpires, listMedia, FillList, ListExpires, stores, vars
<1> QED BY <1>1, <1>2, <1>3, <1>4, <1>5, <1>6, <1>7, <1>8, <1>9 DEF Next, RequestStep

\* The library implements ObjectReferences: only stored objects get a row, and only objects without one are removed.
THEOREM LibraryKeepsReferences ==
  ASSUME "reply" \notin Faults, "lease" \notin Faults
  PROVE  Spec => KeepsReferences
<1>1. Init => References!Init
  BY DEF Init, References!Init
<1>2. IInv /\ [Next]_vars => [References!Next]_<<stored, rows>>
  BY StepRefines
<1> QED BY <1>1, <1>2, IInvHolds, PTL DEF Spec, KeepsReferences, References!Spec

----------------------------------------------------------------------------
(* Objects nobody points at                                                *)

\* The row a deletion has looked up still points at its object, or is gone: ids are never used again.
LookedUp == \A r \in Request : pc[r] \in {"deleteLock", "deleteRow"} =>
              med[r] \in issued /\ rows[med[r]] \in {obj[r], None}

\* An object without a row has a request that has yet to remove it or to give it one.
Owned == \A o \in stored : \/ \E m \in Media : rows[m] = o
                           \/ \E r \in Request : obj[r] = o /\ pc[r] \in {"insert", "rollback", "count", "remove"}
                           \/ o \in orphans

OInv == TypeOK /\ Fresh /\ InHand /\ LookedUp /\ Owned

LEMMA OInit == ASSUME Init PROVE OInv
  BY TypeInit DEF Init, OInv, Fresh, InHand, LookedUp, Owned

LEMMA OwnedNewVideo ==
  ASSUME OInv, TypeOK', NEW r \in Request,
         uploadFile(r) \/ uploadURL(r) \/ SaveUploadedMedia(r) \/ removeUploadedObject(r)
  PROVE  OInv'
<1> USE ObjectAssumption DEF OInv, TypeOK, Fresh, InHand, LookedUp, Owned
<1>1. CASE uploadFile(r)
  BY <1>1 DEF uploadFile, IngestFile, UploadStream
<1>2. CASE uploadURL(r)
  BY <1>2 DEF uploadURL, IngestURL, UploadLocalFile, UploadStream
<1>3. CASE SaveUploadedMedia(r)
  BY <1>3 DEF SaveUploadedMedia, Insert, Fault
<1>4. CASE removeUploadedObject(r)
  BY <1>4 DEF removeUploadedObject, RemoveFile, Orphaned, locals
<1> QED BY <1>1, <1>2, <1>3, <1>4

LEMMA OwnedInstantUpload ==
  ASSUME OInv, TypeOK', NEW r \in Request,
         \/ instantUploadChallenge(r) \/ instantUpload(r) \/ ProofLock(r)
         \/ VerifyRange(r) \/ SaveReference(r) \/ ChallengeExpires(r)
  PROVE  OInv'
<1> USE ObjectAssumption DEF OInv, TypeOK, Fresh, InHand, LookedUp, Owned, stores, locals
<1>1. CASE instantUploadChallenge(r)
  BY <1>1 DEF instantUploadChallenge, Challenge, Copies, FindByContentHash
<1>2. CASE instantUpload(r)
  BY <1>2 DEF instantUpload, Prove, takeChallenge
<1>3. CASE ProofLock(r)
  BY <1>3 DEF ProofLock, Take
<1>4. CASE VerifyRange(r)
  BY <1>4 DEF VerifyRange, ReadRange
<1>5. CASE SaveReference(r)
  BY <1>5 DEF SaveReference, Insert
<1>6. CASE ChallengeExpires(r)
  BY <1>6 DEF ChallengeExpires
<1> QED BY <1>1, <1>2, <1>3, <1>4, <1>5, <1>6

LEMMA OwnedDeletion ==
  ASSUME OInv, TypeOK', NEW r \in Request,
         \/ deleteMedia(r) \/ DeleteLock(r) \/ DeleteByID(r) \/ CountReferences(r)
         \/ DeleteObject(r) \/ InvalidateUserList(r) \/ Unlock(r) \/ Return(r)
  PROVE  OInv'
<1> USE ObjectAssumption DEF OInv, TypeOK, Fresh, InHand, LookedUp, Owned, stores, locals
<1>1. CASE deleteMedia(r)
  BY <1>1 DEF deleteMedia, RequireOwnedMedia
<1>2. CASE DeleteLock(r)
  BY <1>2 DEF DeleteLock, Take
<1>3. CASE DeleteByID(r)
  BY <1>3 DEF DeleteByID
<1>4. CASE CountReferences(r)
  BY <1>4 DEF CountReferences, CountFileReferences, FindByContentHash, ShouldDeleteObject, Orphaned
<1>5. CASE DeleteObject(r)
  BY <1>5 DEF DeleteObject, RemoveFile, Orphaned
<1>6. CASE InvalidateUserList(r)
  BY <1>6 DEF InvalidateUserList
<1>7. CASE Unlock(r)
  BY <1>7 DEF Unlock
<1>8. CASE Return(r)
  BY <1>8 DEF Return
<1> QED BY <1>1, <1>2, <1>3, <1>4, <1>5, <1>6, <1>7, <1>8

LEMMA OwnedListsAndFaults ==
  ASSUME OInv, TypeOK',
         \/ Listing
         \/ \E r \in Request : Disconnect(r) \/ Crash(r)
         \/ \E h \in Hash : LeaseExpires(h)
  PROVE  OInv'
<1> USE DEF OInv, TypeOK, Fresh, InHand, LookedUp, Owned, stores, locals
<1>1. ASSUME NEW r \in Request, listMedia(r) PROVE OInv'
  BY <1>1 DEF listMedia
<1>2. ASSUME NEW r \in Request, FillList(r) PROVE OInv'
  BY <1>2 DEF FillList
<1>3. CASE ListExpires
  BY <1>3 DEF ListExpires
<1>4. ASSUME NEW r \in Request, Disconnect(r) PROVE OInv'
  BY <1>4 DEF Disconnect
<1>5. ASSUME NEW r \in Request, Crash(r) PROVE OInv'
  BY <1>5, ObjectAssumption DEF Crash, Orphaned
<1>6. ASSUME NEW h \in Hash, LeaseExpires(h) PROVE OInv'
  BY <1>6 DEF LeaseExpires
<1> QED BY <1>1, <1>2, <1>3, <1>4, <1>5, <1>6 DEF Listing

LEMMA ONext == ASSUME OInv, [Next]_vars PROVE OInv'
<1>0. TypeOK'
  BY TypeNext DEF OInv
<1>1. CASE UNCHANGED vars
  BY <1>0, <1>1 DEF OInv, Fresh, InHand, LookedUp, Owned, vars
<1>2. CASE Next
  BY <1>0, <1>2, OwnedNewVideo, OwnedInstantUpload, OwnedDeletion, OwnedListsAndFaults DEF Next, RequestStep, Expiry
<1> QED BY <1>1, <1>2

\* No interleaving of uploads, instant uploads and deletions leaves an object without a row to nobody: it is being
\* worked on, or a failure that was logged or a crash left it (removeUploadedObject, DeleteOwnedMedia), whatever fails
\* and even where leases run out early or replies are lost.
THEOREM OrphansAreExplained == Spec => []OrphansExplained
<1>1. Init => OInv
  BY OInit
<1>2. OInv /\ [Next]_vars => OInv'
  BY ONext
<1>3. OInv => OrphansExplained
  BY DEF OInv, Owned, OrphansExplained
<1> QED BY <1>1, <1>2, <1>3, PTL DEF Spec

----------------------------------------------------------------------------
(* The cached list                                                         *)

LEMMA FreshListNext == ASSUME TypeOK, FreshList, [Next]_vars PROVE FreshList'
<1> USE DEF TypeOK, FreshList
<1>1. ASSUME NEW r \in Request, SaveUploadedMedia(r) \/ SaveReference(r) \/ DeleteByID(r) PROVE FreshList'
  BY <1>1 DEF SaveUploadedMedia, SaveReference, DeleteByID, Insert, cache, SelectRows
<1>2. ASSUME NEW r \in Request, CountReferences(r) \/ DeleteObject(r) PROVE FreshList'
  BY <1>2 DEF CountReferences, DeleteObject, cache, stores, SelectRows
<1>3. ASSUME NEW r \in Request, InvalidateUserList(r) PROVE FreshList'
  BY <1>3 DEF InvalidateUserList, stores, SelectRows
<1>4. ASSUME NEW r \in Request, Crash(r) PROVE FreshList'
  BY <1>4 DEF Crash, stores, SelectRows
<1>5. ASSUME NEW r \in Request, FillList(r) PROVE FreshList'
  BY <1>5 DEF FillList, stores, SelectRows
<1>6. CASE ListExpires
  BY <1>6 DEF ListExpires
<1>7. ASSUME NEW r \in Request, UNCHANGED <<rows, list, behind>>, \E to : Goto(r, to), pc[r] \notin {"count", "remove", "invalidate"}
      PROVE  FreshList'
  BY <1>7 DEF SelectRows
<1>8. ASSUME UNCHANGED <<rows, list, behind, pc>> PROVE FreshList'
  BY <1>8 DEF SelectRows
<1>9. ASSUME NEW r \in Request, uploadFile(r) \/ uploadURL(r) \/ removeUploadedObject(r) \/ instantUpload(r) \/ ProofLock(r)
      PROVE  FreshList'
  BY <1>7, <1>9 DEF uploadFile, uploadURL, IngestFile, IngestURL, UploadLocalFile, UploadStream, removeUploadedObject,
                    instantUpload, Prove, ProofLock, stores, cache
<1>10. ASSUME NEW r \in Request, VerifyRange(r) \/ deleteMedia(r) \/ DeleteLock(r) \/ Unlock(r) \/ Return(r) \/ listMedia(r)
      PROVE  FreshList'
  BY <1>7, <1>10 DEF VerifyRange, deleteMedia, DeleteLock, Unlock, Return, listMedia, stores, cache
<1>11. ASSUME NEW r \in Request, instantUploadChallenge(r) \/ Disconnect(r) \/ ChallengeExpires(r) PROVE FreshList'
  BY <1>8, <1>11 DEF instantUploadChallenge, Disconnect, ChallengeExpires, stores, cache
<1>12. ASSUME NEW h \in Hash, LeaseExpires(h) PROVE FreshList'
  BY <1>8, <1>12 DEF LeaseExpires, stores, cache
<1>13. CASE UNCHANGED vars
  BY <1>8, <1>13 DEF vars
<1> HIDE DEF FreshList, TypeOK
<1> QED BY <1>1, <1>2, <1>3, <1>4, <1>5, <1>6, <1>9, <1>10, <1>11, <1>12, <1>13 DEF Next, RequestStep, Expiry, Listing

\* A cached list of videos that differs from the rows is about to be dropped, or the DEL of InvalidateUserList failed or
\* died with its gateway, or the SET of ListByUser came after it.
THEOREM ListIsFresh == Spec => []FreshList
<1>1. Init => FreshList
  BY DEF Init, FreshList
<1>2. TypeOK /\ FreshList /\ [Next]_vars => FreshList'
  BY FreshListNext
<1> QED BY <1>1, <1>2, MediaTypeCorrect, PTL DEF Spec

----------------------------------------------------------------------------
(* Resumable uploads are a part of the library                             *)

LEMMA UploadIsNext == ASSUME [UploadNext]_<<vars, uploadVars>> PROVE [Next]_vars
<1>1. ASSUME NEW r \in Request, SaveMerged(r) PROVE Next
  <2>1. uploadFile(r) \/ SaveUploadedMedia(r) \/ removeUploadedObject(r) \/ InvalidateUserList(r)
    BY <1>1 DEF SaveMerged, uploadFile, UploadLocalFile, IngestFile
  <2> QED BY <2>1 DEF Next, RequestStep
<1>2. ASSUME NEW r \in Request, ReturnUpload(r) PROVE [Next]_vars
  BY <1>2 DEF ReturnUpload, Next, RequestStep
<1>3. ASSUME NEW r \in Request, CrashSave(r) \/ DisconnectUpload(r) PROVE Next
  BY <1>3 DEF CrashSave, DisconnectUpload, Next, RequestStep
<1>4. ASSUME UNCHANGED vars PROVE [Next]_vars
  BY <1>4
<1>5. ASSUME \E r \in Request : RequestStep(r) PROVE Next
  BY <1>5 DEF Next
<1>6. ASSUME Expiry PROVE Next
  BY <1>6 DEF Next
<1> QED BY <1>1, <1>2, <1>3, <1>4, <1>5, <1>6 DEF UploadNext

\* The gateway with resumable uploads is still the library of MediaObjects: Complete stores its merged video and its row
\* by the library's own steps, so that all that is proved of the library holds with them too.
THEOREM UploadsAreLibrary == UploadSpec => Spec
<1>1. UploadInit => Init
  BY DEF UploadInit
<1>2. [UploadNext]_<<vars, uploadVars>> => [Next]_vars
  BY UploadIsNext
<1> QED BY <1>1, <1>2, PTL DEF UploadSpec, Spec

----------------------------------------------------------------------------
(* The state of resumable uploads                                          *)

UploadSteps == {"none", "put", "received", "completed?", "check", "copy", "save", "record", "cleanup", "forget",
                "unlock", "done", "dead"}

UploadTypes ==
  /\ session \in [Upload -> {"new", "open", "gone"}]
  /\ parts \in [Upload -> SUBSET Index] /\ staged \in [Upload -> SUBSET Index]
  /\ marker \in [Upload -> Media \cup {None}] /\ merge \in [Upload -> Request \cup {None}]
  /\ step \in [Request -> UploadSteps] /\ up \in [Request -> Upload \cup {None}] /\ idx \in [Request -> Index]
  /\ made \in [Upload -> SUBSET Media] /\ lapses \in [Upload -> Nat]
  /\ \A u \in Upload : IsFiniteSet(made[u])
  /\ \A r \in Request : step[r] # "none" => up[r] \in Upload

\* A request has a media once it has made or looked up a row.
NoMediaYet == \A r \in Request : /\ pc[r] \in {"idle", "insert"} => med[r] = None
                                 /\ step[r] \in {"put", "received", "completed?", "check", "copy"} => pc[r] = "idle"

\* One merge of an upload at a time.
OneMerge == \A r \in Request :
              step[r] \in {"completed?", "check", "copy", "save", "record", "cleanup", "forget", "unlock"} => merge[up[r]] = r

\* A merge works for a session that was there, and on the media it has made.
Merges == \A r \in Request :
            /\ step[r] = "check" => marker[up[r]] = None
            /\ step[r] \in {"save", "record"} /\ med[r] # None => med[r] \in made[up[r]]
            /\ step[r] = "record" => med[r] # None
            /\ step[r] = "cleanup" => made[up[r]] # {}

\* Before a session there is nothing of an upload.
BeforeSession ==
  \A u \in Upload : session[u] = "new" =>
    /\ parts[u] = {} /\ made[u] = {} /\ marker[u] = None
    /\ \A r \in Request : up[r] = u => step[r] \notin {"put", "received", "copy", "save", "record", "cleanup", "forget"}

\* The upload has a media that a retry finds, or no session to retry with, or its media has just been made.
Settled(u) == \/ marker[u] # None
              \/ session[u] = "gone"
              \/ \E r \in Request : step[r] \in {"save", "record"} /\ up[r] = u /\ med[r] # None

\* The media of an upload that is not settled are all accounted for by lapses; a merge goes on only where they are.
Counted ==
  /\ \A u \in Upload : /\ Cardinality(made[u]) <= lapses[u] + 1
                       /\ ~Settled(u) => Cardinality(made[u]) <= lapses[u]
  /\ \A r \in Request : step[r] = "copy" \/ (step[r] = "save" /\ med[r] = None)
                          => Cardinality(made[up[r]]) <= lapses[up[r]]

UInv == TypeOK /\ UploadTypes /\ NoMediaYet /\ OneMerge /\ Merges /\ BeforeSession /\ Counted

\* A part that was just put is there when it is marked as received.
PutIsStaged == \A r \in Request : step[r] = "received" /\ session[up[r]] = "open" /\ made[up[r]] = {} => idx[r] \in staged[up[r]]

----------------------------------------------------------------------------
(* ... is kept                                                             *)

UCore == TypeOK /\ UploadTypes /\ NoMediaYet /\ OneMerge /\ Merges /\ BeforeSession

LEMMA UCoreInit == ASSUME UploadInit PROVE UCore /\ Counted /\ PutIsStaged /\ ReceivedIsStaged
<1>0. TypeOK
  BY TypeInit DEF UploadInit
<1>1. UploadTypes
  BY FS_EmptySet, UploadAssumption DEF UploadInit, UploadTypes, UploadSteps, Index
<1>2. NoMediaYet /\ OneMerge /\ Merges /\ BeforeSession /\ PutIsStaged /\ ReceivedIsStaged
  BY DEF UploadInit, Init, NoMediaYet, OneMerge, Merges, BeforeSession, PutIsStaged, ReceivedIsStaged
<1>3. Counted
  BY FS_EmptySet DEF UploadInit, Counted
<1> QED BY <1>0, <1>1, <1>2, <1>3 DEF UCore

\* A request's steps in the library are its own.
LEMMA OwnSteps ==
  ASSUME TypeOK, NoMediaYet, NEW r \in Request, RequestStep(r)
  PROVE  /\ \A q \in Request \ {r} : pc'[q] = pc[q] /\ med'[q] = med[q]
         /\ pc'[r] \in {"idle", "insert"} => med'[r] = None
<1> USE DEF TypeOK, NoMediaYet
<1>1. CASE uploadFile(r) \/ uploadURL(r) \/ SaveUploadedMedia(r) \/ removeUploadedObject(r)
  BY <1>1 DEF uploadFile, IngestFile, uploadURL, IngestURL, UploadLocalFile, UploadStream, SaveUploadedMedia, Insert,
              removeUploadedObject, locals
<1>2. CASE instantUploadChallenge(r) \/ instantUpload(r) \/ ProofLock(r) \/ VerifyRange(r) \/ SaveReference(r)
  BY <1>2 DEF instantUploadChallenge, instantUpload, Prove, ProofLock, VerifyRange, SaveReference, Insert, locals
<1>3. CASE deleteMedia(r) \/ DeleteLock(r) \/ DeleteByID(r) \/ CountReferences(r) \/ DeleteObject(r)
  BY <1>3 DEF deleteMedia, RequireOwnedMedia, DeleteLock, DeleteByID, CountReferences, DeleteObject, locals
<1>4. CASE InvalidateUserList(r) \/ Unlock(r) \/ Return(r) \/ Disconnect(r) \/ Crash(r)
  BY <1>4 DEF InvalidateUserList, Unlock, Return, Disconnect, Crash, locals
<1> QED BY <1>1, <1>2, <1>3, <1>4 DEF RequestStep

USE DEF StepTo

\* Parts, and the lock of a merge.
LEMMA UCoreParts ==
  ASSUME UCore, NEW r \in Request, uploadChunk(r) \/ UploadObject(r) \/ MarkReceived(r), UNCHANGED vars
  PROVE  UCore'
<1>0. TypeOK'
  BY DEF UCore, TypeOK, vars
<1> USE DEF UCore, UploadTypes, UploadSteps, NoMediaYet, OneMerge, Merges, BeforeSession, vars, uploads, history, requireUpload
<1>1. CASE uploadChunk(r)
  BY <1>0, <1>1 DEF uploadChunk, UploadChunk
<1>2. CASE UploadObject(r)
  BY <1>0, <1>2 DEF UploadObject
<1>3. CASE MarkReceived(r)
  BY <1>0, <1>3 DEF MarkReceived
<1> QED BY <1>1, <1>2, <1>3

LEMMA UCoreMerge ==
  ASSUME UCore, NEW r \in Request,
         completeUpload(r) \/ completedUpload(r) \/ CheckParts(r) \/ CopyParts(r) \/ Saved(r) \/ UnlockMerge(r), UNCHANGED vars
  PROVE  UCore'
<1>0. TypeOK'
  BY DEF UCore, TypeOK, vars
<1> USE ObjectAssumption DEF UCore, UploadTypes, UploadSteps, NoMediaYet, OneMerge, Merges, BeforeSession, vars, uploads, history, requireUpload
<1>1. CASE completeUpload(r)
  BY <1>0, <1>1 DEF completeUpload, Complete
<1>2. CASE completedUpload(r)
  BY <1>0, <1>2 DEF completedUpload
<1>3. CASE CheckParts(r)
  <2>1. step'[r] = "copy" => session[up[r]] # "new"
    <3>1. step'[r] = "copy" => Cardinality(UploadedChunks(up[r])) = TotalChunks
      BY <1>3 DEF CheckParts
    <3>2. Cardinality({}) = 0 /\ TotalChunks # 0
      BY FS_EmptySet, UploadAssumption
    <3> QED BY <3>1, <3>2 DEF UploadedChunks
  <2> QED BY <1>0, <1>3, <2>1 DEF CheckParts
<1>4. CASE CopyParts(r)
  BY <1>0, <1>4 DEF CopyParts
<1>5. CASE Saved(r)
  BY <1>0, <1>5 DEF Saved
<1>6. CASE UnlockMerge(r)
  BY <1>0, <1>6 DEF UnlockMerge
<1> QED BY <1>1, <1>2, <1>3, <1>4, <1>5, <1>6

LEMMA UCoreEnd ==
  ASSUME UCore, NEW r \in Request, RecordCompleted(r) \/ RemoveParts(r) \/ ForgetUpload(r) \/ CrashUpload(r), UNCHANGED vars
  PROVE  UCore'
<1>0. TypeOK'
  BY DEF UCore, TypeOK, vars
<1> USE ObjectAssumption DEF UCore, UploadTypes, UploadSteps, NoMediaYet, OneMerge, Merges, BeforeSession, vars, uploads, history, Lapse
<1>1. CASE RecordCompleted(r)
  <2>1. CASE marker' = [marker EXCEPT ![up[r]] = med[r]] /\ step' = [step EXCEPT ![r] = "cleanup"] /\ UNCHANGED lapses
    <3>1. up[r] \in Upload /\ med[r] \in Media /\ med[r] \in made[up[r]]
      BY <1>1 DEF RecordCompleted, TypeOK
    <3>2. UploadTypes'
      BY <1>1, <2>1, <3>1 DEF RecordCompleted
    <3>3. NoMediaYet' /\ OneMerge' /\ BeforeSession'
      BY <1>1, <2>1, <3>1 DEF RecordCompleted
    <3>4. Merges'
      BY <1>1, <2>1, <3>1 DEF RecordCompleted
    <3> QED BY <1>0, <3>2, <3>3, <3>4
  <2>2. CASE lapses' = [lapses EXCEPT ![up[r]] = @ + 1] /\ step' = [step EXCEPT ![r] = "unlock"] /\ UNCHANGED marker
    BY <1>0, <1>1, <2>2 DEF RecordCompleted
  <2> QED BY <1>1, <2>1, <2>2 DEF RecordCompleted
<1>2. CASE RemoveParts(r)
  BY <1>0, <1>2 DEF RemoveParts
<1>3. CASE ForgetUpload(r)
  BY <1>0, <1>3 DEF ForgetUpload
<1>4. CASE CrashUpload(r)
  BY <1>0, <1>4 DEF CrashUpload
<1> QED BY <1>1, <1>2, <1>3, <1>4

LEMMA UCoreExpiry ==
  ASSUME UCore, NEW u \in Upload, UploadExpiry(u), UNCHANGED vars
  PROVE  UCore'
<1>0. TypeOK'
  BY DEF UCore, TypeOK, vars
<1> USE ObjectAssumption DEF UCore, UploadTypes, UploadSteps, NoMediaYet, OneMerge, Merges, BeforeSession, vars, history, handlers,
        requireUpload, Lapse
<1>1. CASE initUpload(u)
  BY <1>0, <1>1 DEF initUpload, Initialize
<1>2. CASE MergeLeaseExpires(u)
  BY <1>0, <1>2 DEF MergeLeaseExpires
<1>3. CASE SessionExpires(u)
  BY <1>0, <1>3 DEF SessionExpires
<1>4. CASE MarkerExpires(u)
  BY <1>0, <1>4 DEF MarkerExpires
<1>5. CASE PartsExpire(u)
  BY <1>0, <1>5 DEF PartsExpire
<1> QED BY <1>1, <1>2, <1>3, <1>4, <1>5 DEF UploadExpiry

\* The merged file becomes a media.
LEMMA SaveMoves ==
  ASSUME UCore, NEW r \in Request, SaveMerged(r)
  PROVE  /\ \A q \in Request \ {r} : pc'[q] = pc[q] /\ med'[q] = med[q]
         /\ pc'[r] \in {"idle", "insert"} => med'[r] = None
         /\ med'[r] \in Media \cup {None}
         /\ med'[r] # med[r] => med[r] = None /\ med'[r] # None
         /\ med[r] # None => med'[r] = med[r]
<1>1. uploadFile(r) \/ SaveUploadedMedia(r) \/ removeUploadedObject(r) \/ InvalidateUserList(r)
  BY DEF SaveMerged, uploadFile, UploadLocalFile, IngestFile
<1>2. RequestStep(r)
  BY <1>1 DEF RequestStep
<1>3. CASE med' = med
  BY <1>2, <1>3, OwnSteps DEF UCore, TypeOK
<1>4. CASE pc[r] = "insert" /\ \E m \in Media : Insert(r, m)
  BY <1>2, <1>4, OwnSteps, ObjectAssumption DEF UCore, TypeOK, NoMediaYet, Insert
<1> QED BY <1>1, <1>3, <1>4 DEF uploadFile, IngestFile, SaveUploadedMedia, removeUploadedObject, InvalidateUserList, locals

LEMMA UCoreSave ==
  ASSUME UCore, TypeOK', NEW r \in Request, SaveMerged(r)
  PROVE  UCore'
<1>1. /\ step[r] = "save" /\ made' = [made EXCEPT ![up[r]] = @ \cup ({med'[r]} \ {None})]
      /\ UNCHANGED <<uploads, handlers, lapses, slips>> /\ up[r] \in Upload
  BY DEF SaveMerged, UCore, UploadTypes
<1>2. IsFiniteSet(made[up[r]] \cup ({med'[r]} \ {None}))
  <2>1. IsFiniteSet(made[up[r]]) /\ IsFiniteSet({med'[r]} \ {None})
    <3>1. {med'[r]} \ {None} = {} \/ {med'[r]} \ {None} = {med'[r]}
      OBVIOUS
    <3>2. IsFiniteSet({med'[r]} \ {None})
      <4>1. IsFiniteSet({med'[r]}) /\ IsFiniteSet({})
        BY FS_Singleton, FS_EmptySet, Zenon
      <4> QED BY <3>1, <4>1, Zenon
    <3> QED BY <1>1, <3>2 DEF UCore, UploadTypes
  <2> QED BY <2>1, FS_Union
<1>3. UploadTypes'
  BY <1>1, <1>2, SaveMoves DEF UCore, UploadTypes, uploads, handlers
<1>4. NoMediaYet' /\ OneMerge'
  BY <1>1, SaveMoves DEF UCore, NoMediaYet, OneMerge, uploads, handlers
<1>5. Merges'
  BY <1>1, SaveMoves DEF UCore, Merges, UploadTypes, uploads, handlers
<1>6. BeforeSession'
  BY <1>1, SaveMoves DEF UCore, BeforeSession, UploadTypes, uploads, handlers
<1> QED BY <1>3, <1>4, <1>5, <1>6 DEF UCore

\* Requests that come and go.
LEMMA UCoreRest ==
  ASSUME UCore, TypeOK', NEW r \in Request,
         ReturnUpload(r) \/ CrashSave(r) \/ DisconnectUpload(r) \/ (step[r] = "none" /\ RequestStep(r) /\ UNCHANGED uploadVars)
  PROVE  UCore'
<1> USE DEF UCore, UploadTypes, UploadSteps, NoMediaYet, OneMerge, Merges, BeforeSession, uploads, history, handlers, Lapse
<1>1. CASE ReturnUpload(r)
  <2>1. /\ \A q \in Request \ {r} : pc'[q] = pc[q] /\ med'[q] = med[q]
        /\ pc'[r] \in {"idle", "insert"} => med'[r] = None
    BY <1>1, OwnSteps DEF ReturnUpload, RequestStep, vars
  <2>2. 0 \in Index
    BY UploadAssumption DEF Index
  <2> QED BY <1>1, <2>1, <2>2 DEF ReturnUpload
<1>2. CASE CrashSave(r)
  <2>1. /\ \A q \in Request \ {r} : pc'[q] = pc[q] /\ med'[q] = med[q]
        /\ pc'[r] \in {"idle", "insert"} => med'[r] = None
    BY <1>2, OwnSteps DEF CrashSave, RequestStep
  <2> QED BY <1>2, <2>1 DEF CrashSave
<1>3. CASE DisconnectUpload(r)
  BY <1>3 DEF DisconnectUpload, Disconnect, uploadVars, locals
<1>4. CASE step[r] = "none" /\ RequestStep(r) /\ UNCHANGED uploadVars
  BY <1>4, OwnSteps DEF uploadVars
<1> QED BY <1>1, <1>2, <1>3, <1>4

LEMMA UCoreNext == ASSUME UCore, [UploadNext]_<<vars, uploadVars>> PROVE UCore'
<1>0. TypeOK'
  BY UploadIsNext, TypeNext DEF UCore
<1>1. ASSUME NEW r \in Request, UploadStep(r), UNCHANGED vars PROVE UCore'
  BY <1>1, UCoreParts, UCoreMerge, UCoreEnd DEF UploadStep
<1>2. CASE Expiry /\ UNCHANGED uploadVars
  <2>1. pc' = pc /\ med' = med
    BY <1>2 DEF Expiry, ChallengeExpires, LeaseExpires, locals
  <2> QED BY <1>0, <1>2, <2>1 DEF UCore, UploadTypes, NoMediaYet, OneMerge, Merges, BeforeSession, uploadVars
<1>3. CASE UNCHANGED <<vars, uploadVars>>
  BY <1>0, <1>3 DEF UCore, UploadTypes, NoMediaYet, OneMerge, Merges, BeforeSession, vars, uploadVars
<1> QED BY <1>0, <1>1, <1>2, <1>3, UCoreExpiry, UCoreSave, UCoreRest DEF UploadNext

----------------------------------------------------------------------------
(* At most one media                                                       *)

\* Nothing that counts has changed, and an upload that was settled is, or its media has become a lapse.
LEMMA CountedKept ==
  ASSUME UCore, UCore', Counted, made' = made,
         \A u \in Upload : \/ lapses'[u] = lapses[u] /\ (Settled(u) => Settled(u)')
                           \/ lapses'[u] = lapses[u] + 1,
         \A r \in Request : step'[r] = "copy" \/ (step'[r] = "save" /\ med'[r] = None) =>
                              /\ up'[r] = up[r]
                              /\ Cardinality(made[up[r]]) <= lapses[up[r]]
  PROVE  Counted'
<1>1. \A u \in Upload : Cardinality(made[u]) \in Nat /\ lapses[u] \in Nat
  BY FS_CardinalityType DEF UCore, UploadTypes
<1>2. ASSUME NEW u \in Upload
      PROVE  Cardinality(made[u]) <= lapses'[u] + 1 /\ (~Settled(u)' => Cardinality(made[u]) <= lapses'[u])
  BY <1>1, <1>2 DEF Counted
<1>3. ASSUME NEW r \in Request, step'[r] = "copy" \/ (step'[r] = "save" /\ med'[r] = None)
      PROVE  Cardinality(made[up'[r]]) <= lapses'[up'[r]]
  <2>1. up'[r] = up[r] /\ Cardinality(made[up[r]]) <= lapses[up[r]] /\ up[r] \in Upload
    BY <1>3 DEF UCore, UploadTypes
  <2> QED BY <1>1, <2>1
<1> QED BY <1>2, <1>3 DEF Counted

\* The requests that leave the count of media alone.
LEMMA CountedQuiet ==
  ASSUME UCore, UCore', Counted, NEW r \in Request, UNCHANGED vars,
         \/ uploadChunk(r) \/ UploadObject(r) \/ MarkReceived(r) \/ completeUpload(r) \/ completedUpload(r)
         \/ CopyParts(r) \/ Saved(r) \/ UnlockMerge(r) \/ RemoveParts(r) \/ ForgetUpload(r)
  PROVE  Counted'
<1> USE DEF vars, uploads, history
<1>1. /\ made' = made /\ lapses' = lapses /\ med' = med /\ marker' = marker
      /\ \A u \in Upload : session[u] = "gone" => session'[u] = "gone"
  BY DEF uploadChunk, UploadObject, MarkReceived, completeUpload, completedUpload, CopyParts, Saved, UnlockMerge,
         RemoveParts, ForgetUpload, UCore, UploadTypes
<1>2. /\ \A q \in Request \ {r} : step'[q] = step[q] /\ up'[q] = up[q]
      /\ step[r] \in {"save", "record"} => \/ up'[r] = up[r] /\ step'[r] \in {"save", "record"}
                                           \/ step[r] = "save" /\ med[r] = None
      /\ step'[r] \in {"copy", "save"} => step[r] = "copy" /\ up'[r] = up[r]
  <2> USE DEF UCore, UploadTypes
  <2>1. CASE uploadChunk(r) \/ UploadObject(r) \/ MarkReceived(r) \/ completeUpload(r) \/ completedUpload(r)
    BY <2>1 DEF uploadChunk, UploadChunk, UploadObject, MarkReceived, completeUpload, Complete, completedUpload
  <2>2. CASE CopyParts(r) \/ Saved(r)
    BY <2>2 DEF CopyParts, Saved
  <2>3. CASE UnlockMerge(r) \/ RemoveParts(r) \/ ForgetUpload(r)
    BY <2>3 DEF UnlockMerge, RemoveParts, ForgetUpload
  <2> QED BY <2>1, <2>2, <2>3
<1>3. \A u \in Upload : Settled(u) => Settled(u)'
  <2> SUFFICES ASSUME NEW u \in Upload, NEW q \in Request, step[q] \in {"save", "record"}, up[q] = u, med[q] # None
               PROVE  step'[q] \in {"save", "record"} /\ up'[q] = u
    BY <1>1 DEF Settled
  <2> QED BY <1>2
<1>4. \A q \in Request : step'[q] = "copy" \/ (step'[q] = "save" /\ med'[q] = None) =>
                           up'[q] = up[q] /\ Cardinality(made[up[q]]) <= lapses[up[q]]
  BY <1>1, <1>2 DEF Counted
<1> QED BY <1>1, <1>3, <1>4, CountedKept

\* All parts are there, and nobody has made a media of them that a retry would have found.
LEMMA CountedCheck ==
  ASSUME UCore, UCore', Counted, NEW r \in Request, UNCHANGED vars, CheckParts(r)
  PROVE  Counted'
<1>1. /\ made' = made /\ lapses' = lapses /\ med' = med /\ marker' = marker /\ session' = session /\ up' = up
      /\ step[r] = "check" /\ step'[r] \in {"copy", "unlock"} /\ \A q \in Request \ {r} : step'[q] = step[q]
  BY DEF CheckParts, vars, uploads, history, UCore, UploadTypes
<1>2. step'[r] = "copy" => Cardinality(made[up[r]]) <= lapses[up[r]]
  <2> SUFFICES ASSUME step'[r] = "copy" PROVE ~Settled(up[r]) /\ up[r] \in Upload
    BY DEF Counted
  <2>1. Cardinality(UploadedChunks(up[r])) = TotalChunks
    BY DEF CheckParts, UCore, UploadTypes
  <2>2. session[up[r]] = "open"
    BY <2>1, FS_EmptySet, UploadAssumption DEF UploadedChunks, requireUpload
  <2>3. marker[up[r]] = None /\ up[r] \in Upload
    BY <1>1 DEF UCore, Merges, UploadTypes
  <2>4. \A q \in Request : step[q] \in {"save", "record"} => up[q] # up[r]
    BY <1>1 DEF UCore, OneMerge
  <2> QED BY <2>2, <2>3, <2>4 DEF Settled
<1>3. \A u \in Upload : Settled(u) => Settled(u)'
  BY <1>1 DEF Settled
<1>4. \A q \in Request : step'[q] = "copy" \/ (step'[q] = "save" /\ med'[q] = None) =>
                           up'[q] = up[q] /\ Cardinality(made[up[q]]) <= lapses[up[q]]
  BY <1>1, <1>2 DEF Counted
<1> QED BY <1>1, <1>3, <1>4, CountedKept

\* The media has its marker, or is a lapse.
LEMMA CountedEnd ==
  ASSUME UCore, UCore', Counted, NEW r \in Request,
         \/ (RecordCompleted(r) \/ CrashUpload(r)) /\ UNCHANGED vars
         \/ CrashSave(r)
  PROVE  Counted'
<1>0. up[r] \in Upload /\ lapses \in [Upload -> Nat] /\ marker \in [Upload -> Media \cup {None}] /\ step \in [Request -> UploadSteps]
  BY DEF RecordCompleted, CrashUpload, CrashSave, UCore, UploadTypes
<1>1. /\ made' = made /\ med' = med /\ session' = session /\ up' = up
      /\ step'[r] \notin {"copy", "save", "record"} /\ \A q \in Request \ {r} : step'[q] = step[q]
  BY <1>0 DEF RecordCompleted, CrashUpload, CrashSave, Crash, vars, uploads, history, locals
<1>2. \/ /\ lapses' = lapses /\ \A u \in Upload : marker[u] # None => marker'[u] # None
         /\ step[r] \in {"save", "record"} /\ med[r] # None => marker'[up[r]] # None
      \/ lapses' = [lapses EXCEPT ![up[r]] = @ + 1] /\ marker' = marker
  <2>1. CASE RecordCompleted(r)
    <3>1. med[r] # None
      BY <2>1 DEF RecordCompleted, UCore, Merges
    <3> QED BY <1>0, <2>1, <3>1 DEF RecordCompleted, Lapse
  <2>2. CASE CrashUpload(r) \/ CrashSave(r)
    BY <2>2 DEF CrashUpload, CrashSave, Lapse, uploads
  <2> QED BY <2>1, <2>2
<1>3. \A u \in Upload : (lapses'[u] = lapses[u] /\ (Settled(u) => Settled(u)')) \/ lapses'[u] = lapses[u] + 1
  <2> SUFFICES ASSUME NEW u \in Upload PROVE (lapses'[u] = lapses[u] /\ (Settled(u) => Settled(u)')) \/ lapses'[u] = lapses[u] + 1
    OBVIOUS
  <2>1. CASE u = up[r] /\ lapses' = [lapses EXCEPT ![up[r]] = @ + 1]
    BY <1>0, <2>1
  <2>2. CASE lapses'[u] = lapses[u] /\ (u # up[r] \/ ~(step[r] \in {"save", "record"} /\ med[r] # None) \/ marker'[u] # None)
             /\ (marker[u] # None => marker'[u] # None)
    BY <1>1, <2>2 DEF Settled
  <2> QED BY <1>0, <1>2, <2>1, <2>2
<1>4. \A q \in Request : step'[q] = "copy" \/ (step'[q] = "save" /\ med'[q] = None) =>
                           up'[q] = up[q] /\ Cardinality(made[up[q]]) <= lapses[up[q]]
  BY <1>1 DEF Counted
<1> QED BY <1>1, <1>3, <1>4, CountedKept

LEMMA CountedExpiry ==
  ASSUME UCore, UCore', Counted, NEW u \in Upload, UploadExpiry(u), UNCHANGED vars
  PROVE  Counted'
<1>1. made' = made /\ med' = med /\ step' = step /\ up' = up
  BY DEF UploadExpiry, initUpload, MergeLeaseExpires, SessionExpires, MarkerExpires, PartsExpire, vars, history, handlers
<1>2. ASSUME NEW v \in Upload
      PROVE  (lapses'[v] = lapses[v] /\ (Settled(v) => Settled(v)')) \/ lapses'[v] = lapses[v] + 1
  <2>1. CASE initUpload(u) \/ MergeLeaseExpires(u) \/ SessionExpires(u) \/ PartsExpire(u)
    BY <1>1, <2>1 DEF initUpload, Initialize, MergeLeaseExpires, SessionExpires, PartsExpire, history, Settled, UCore, UploadTypes
  <2>2. CASE MarkerExpires(u)
    <3>1. session[u] # "new"
      BY <2>2 DEF MarkerExpires, UCore, BeforeSession
    <3>2. CASE session[u] = "open"
      BY <1>1, <2>2, <3>2 DEF MarkerExpires, requireUpload, Lapse, Settled, UCore, UploadTypes
    <3>3. CASE session[u] = "gone"
      BY <1>1, <2>2, <3>3 DEF MarkerExpires, requireUpload, Settled, UCore, UploadTypes
    <3> QED BY <3>1, <3>2, <3>3 DEF UCore, UploadTypes
  <2> QED BY <2>1, <2>2 DEF UploadExpiry
<1>3. \A q \in Request : step'[q] = "copy" \/ (step'[q] = "save" /\ med'[q] = None) =>
                           up'[q] = up[q] /\ Cardinality(made[up[q]]) <= lapses[up[q]]
  BY <1>1 DEF Counted
<1> QED BY <1>1, <1>2, <1>3, CountedKept

\* The one step that makes a media.
LEMMA CountedSave ==
  ASSUME UCore, UCore', Counted, NEW r \in Request, SaveMerged(r)
  PROVE  Counted'
<1>1. /\ step[r] = "save" /\ made' = [made EXCEPT ![up[r]] = @ \cup ({med'[r]} \ {None})] /\ up[r] \in Upload
      /\ lapses' = lapses /\ step' = step /\ up' = up /\ marker' = marker /\ session' = session
  BY DEF SaveMerged, uploads, handlers, UCore, UploadTypes
<1>2. CASE med'[r] = med[r]
  <2>1. made' = made
    BY <1>1, <1>2 DEF UCore, Merges, UploadTypes
  <2>2. \A q \in Request : med'[q] = med[q]
    BY <1>2, SaveMoves
  <2>3. \A u \in Upload : Settled(u) => Settled(u)'
    BY <1>1, <2>2 DEF Settled
  <2>4. \A q \in Request : step'[q] = "copy" \/ (step'[q] = "save" /\ med'[q] = None) =>
                             up'[q] = up[q] /\ Cardinality(made[up[q]]) <= lapses[up[q]]
    BY <1>1, <2>2 DEF Counted
  <2> QED BY <1>1, <2>1, <2>3, <2>4, CountedKept
<1>3. CASE med'[r] # med[r]
  <2>0. /\ med[r] = None /\ med'[r] # None /\ \A q \in Request \ {r} : med'[q] = med[q]
    BY <1>3, SaveMoves
  <2>1. /\ \A u \in Upload \ {up[r]} : made'[u] = made[u]
        /\ made'[up[r]] = made[up[r]] \cup {med'[r]} /\ IsFiniteSet(made[up[r]])
    BY <1>1, <2>0 DEF UCore, UploadTypes
  <2>2. Cardinality(made[up[r]]) <= lapses[up[r]] /\ Cardinality(made[up[r]]) \in Nat /\ lapses[up[r]] \in Nat
    BY <1>1, <2>0, <2>1, FS_CardinalityType DEF Counted, UCore, UploadTypes
  <2>3. Cardinality(made'[up[r]]) <= lapses[up[r]] + 1
    <3>1. Cardinality(made'[up[r]]) \in {Cardinality(made[up[r]]), Cardinality(made[up[r]]) + 1}
      BY <2>1, FS_AddElement
    <3> QED BY <2>2, <3>1
  <2>4. Settled(up[r])'
    BY <1>1, <2>0 DEF Settled
  <2>5. ASSUME NEW u \in Upload
        PROVE  Cardinality(made'[u]) <= lapses'[u] + 1 /\ (~Settled(u)' => Cardinality(made'[u]) <= lapses'[u])
    <3>1. CASE u = up[r]
      BY <1>1, <2>3, <2>4, <3>1
    <3>2. CASE u # up[r]
      <4>1. Settled(u) => Settled(u)'
        BY <1>1, <2>0, <3>2 DEF Settled
      <4> QED BY <1>1, <2>1, <3>2, <4>1 DEF Counted
    <3> QED BY <3>1, <3>2
  <2>6. ASSUME NEW q \in Request, step'[q] = "copy" \/ (step'[q] = "save" /\ med'[q] = None)
        PROVE  Cardinality(made'[up'[q]]) <= lapses'[up'[q]]
    <3>1. q # r /\ med'[q] = med[q] /\ up[q] \in Upload
      BY <1>1, <2>0, <2>6 DEF UCore, UploadTypes
    <3>2. up[q] # up[r]
      BY <1>1, <2>6, <3>1 DEF UCore, OneMerge
    <3> QED BY <1>1, <2>1, <2>6, <3>1, <3>2 DEF Counted
  <2> QED BY <2>5, <2>6 DEF Counted
<1> QED BY <1>2, <1>3

LEMMA CountedRest ==
  ASSUME UCore, UCore', Counted, NEW r \in Request,
         ReturnUpload(r) \/ DisconnectUpload(r) \/ (step[r] = "none" /\ RequestStep(r) /\ UNCHANGED uploadVars)
  PROVE  Counted'
<1>1. /\ made' = made /\ lapses' = lapses /\ marker' = marker /\ session' = session
      /\ {step[r], step'[r]} \cap {"copy", "save", "record"} = {} \/ UNCHANGED <<med, step>>
      /\ \A q \in Request \ {r} : step'[q] = step[q] /\ up'[q] = up[q] /\ med'[q] = med[q]
      /\ up'[r] = up[r] \/ step'[r] = "none"
  <2>1. CASE ReturnUpload(r)
    <3>1. \A q \in Request \ {r} : med'[q] = med[q]
      BY <2>1, OwnSteps DEF ReturnUpload, RequestStep, vars, UCore
    <3>2. /\ step[r] = "done" /\ step'[r] = "none" /\ \A q \in Request \ {r} : step'[q] = step[q] /\ up'[q] = up[q]
          /\ made' = made /\ lapses' = lapses /\ marker' = marker /\ session' = session
      BY <2>1 DEF ReturnUpload, uploads, history, UCore, UploadTypes
    <3> QED BY <3>1, <3>2
  <2>2. CASE DisconnectUpload(r)
    BY <2>2 DEF DisconnectUpload, Disconnect, locals, uploadVars
  <2>3. CASE step[r] = "none" /\ RequestStep(r) /\ UNCHANGED uploadVars
    BY <2>3, OwnSteps DEF uploadVars, UCore
  <2> QED BY <2>1, <2>2, <2>3
<1>2. \A u \in Upload : Settled(u) => Settled(u)'
  BY <1>1 DEF Settled
<1>3. \A q \in Request : step'[q] = "copy" \/ (step'[q] = "save" /\ med'[q] = None) =>
                           up'[q] = up[q] /\ Cardinality(made[up[q]]) <= lapses[up[q]]
  BY <1>1 DEF Counted
<1> QED BY <1>1, <1>2, <1>3, CountedKept

LEMMA CountedNext == ASSUME UCore, Counted, [UploadNext]_<<vars, uploadVars>> PROVE Counted'
<1>0. UCore'
  BY UCoreNext
<1>1. ASSUME NEW r \in Request, UploadStep(r), UNCHANGED vars PROVE Counted'
  BY <1>0, <1>1, CountedQuiet, CountedCheck, CountedEnd DEF UploadStep
<1>2. CASE (Expiry \/ UNCHANGED vars) /\ UNCHANGED uploadVars
  <2>1. med' = med
    BY <1>2 DEF Expiry, ChallengeExpires, LeaseExpires, locals, vars
  <2> QED BY <1>2, <2>1 DEF Counted, Settled, uploadVars
<1> QED BY <1>0, <1>1, <1>2, CountedExpiry, CountedSave, CountedEnd, CountedRest DEF UploadNext

\* "retries never insert a second media row" (chunk.go): however Complete is retried, crashes and is overtaken by expiring
\* keys, an upload has at most one media more than times its marker was missing while its session lived on.
THEOREM OneMediaForEachUpload ==
  ASSUME "reply" \notin Faults
  PROVE  UploadSpec => []OneMediaPerUpload
<1>1. UploadInit => UCore /\ Counted
  BY UCoreInit
<1>2. UCore /\ Counted /\ [UploadNext]_<<vars, uploadVars>> => UCore' /\ Counted'
  BY UCoreNext, CountedNext
<1>3. UCore /\ Counted => OneMediaPerUpload
  <2> SUFFICES ASSUME UCore, Counted, NEW u \in Upload PROVE Cardinality(made[u]) <= 1 + lapses[u]
    BY DEF OneMediaPerUpload
  <2>1. Cardinality(made[u]) <= lapses[u] + 1 /\ Cardinality(made[u]) \in Nat /\ lapses[u] \in Nat
    BY FS_CardinalityType DEF Counted, UCore, UploadTypes
  <2> QED BY <2>1
<1> QED BY <1>1, <1>2, <1>3, PTL DEF UploadSpec

----------------------------------------------------------------------------
(* Parts that were received                                                *)

RInv == PutIsStaged /\ ReceivedIsStaged

LEMMA ReceivedNext ==
  ASSUME UCore, RInv, [UploadNext]_<<vars, uploadVars>>, "slow" \notin Faults
  PROVE  RInv'
<1> USE DEF UCore, UploadTypes, RInv, PutIsStaged, ReceivedIsStaged, uploads, history, handlers, requireUpload
<1>1. ASSUME NEW r \in Request, uploadChunk(r) \/ UploadObject(r) \/ MarkReceived(r) PROVE RInv'
  <2>1. CASE uploadChunk(r)
    BY <2>1 DEF uploadChunk, UploadChunk
  <2>2. CASE UploadObject(r)
    BY <2>2 DEF UploadObject
  <2>3. CASE MarkReceived(r)
    BY <2>3 DEF MarkReceived
  <2> QED BY <1>1, <2>1, <2>2, <2>3
<1>2. ASSUME NEW r \in Request,
             completeUpload(r) \/ completedUpload(r) \/ CheckParts(r) \/ CopyParts(r) \/ Saved(r) \/ UnlockMerge(r)
      PROVE  RInv'
  BY <1>2 DEF completeUpload, Complete, completedUpload, CheckParts, CopyParts, Saved, UnlockMerge
<1>3. ASSUME NEW r \in Request, RecordCompleted(r) \/ CrashUpload(r) \/ CrashSave(r) PROVE RInv'
  BY <1>3 DEF RecordCompleted, CrashUpload, CrashSave
<1>4. ASSUME NEW r \in Request, RemoveParts(r) PROVE RInv'
  BY <1>4 DEF RemoveParts, Merges
<1>5. ASSUME NEW r \in Request, ForgetUpload(r) PROVE RInv'
  BY <1>5 DEF ForgetUpload
<1>6. ASSUME NEW u \in Upload, UploadExpiry(u) PROVE RInv'
  <2>1. CASE initUpload(u)
    BY <2>1 DEF initUpload, Initialize, BeforeSession
  <2>2. CASE MergeLeaseExpires(u) \/ SessionExpires(u) \/ MarkerExpires(u)
    BY <2>2 DEF MergeLeaseExpires, SessionExpires, MarkerExpires
  <2>3. CASE PartsExpire(u)
    BY <2>3 DEF PartsExpire, Slip
  <2> QED BY <1>6, <2>1, <2>2, <2>3 DEF UploadExpiry
<1>7. ASSUME NEW r \in Request, SaveMerged(r) PROVE RInv'
  <2>1. /\ UNCHANGED <<session, parts, staged, step, up, idx>>
        /\ \A u \in Upload : made[u] \subseteq made'[u]
    BY <1>7 DEF SaveMerged
  <2> QED BY <2>1
<1>8. ASSUME NEW r \in Request, ReturnUpload(r) PROVE RInv'
  BY <1>8 DEF ReturnUpload
<1>9. ASSUME UNCHANGED uploadVars PROVE RInv'
  BY <1>9 DEF uploadVars
<1> HIDE DEF UCore, RInv
<1> QED BY <1>1, <1>2, <1>3, <1>4, <1>5, <1>6, <1>7, <1>8, <1>9 DEF UploadNext, UploadStep, DisconnectUpload

\* A part that upload-status lists, so that a client that resumes skips it, is staged, until the upload is a media:
\* UploadChunk marks it only after it is stored, and cleanup removes it only after the row is there.
THEOREM ReceivedPartsAreStaged ==
  ASSUME "slow" \notin Faults
  PROVE  UploadSpec => []ReceivedIsStaged
<1>1. UploadInit => UCore /\ RInv
  BY UCoreInit DEF RInv
<1>2. UCore /\ RInv /\ [UploadNext]_<<vars, uploadVars>> => UCore' /\ RInv'
  BY UCoreNext, ReceivedNext
<1>3. RInv => ReceivedIsStaged
  BY DEF RInv
<1> QED BY <1>1, <1>2, <1>3, PTL DEF UploadSpec

----------------------------------------------------------------------------
(* Downloads from a link                                                   *)

Phase == {"validate", "ytdlp", "short", "target", "pages", "play", "file", "judge", "pause", "feed", "wait", "ended"}
Reason == {"internal", "timed out", "caller gone", "deadline", "stopped"}
RangeState == [st : {"idle", "request", "again", "stalled", "pause", "report", "cancel", "left"}, pos : Nat, end : Int,
               mirror : Nat, stalls : Nat, err : Reason \cup {"none"}]
LinkState == [n : Nat, mirror : Nat, stalls : Nat, before : Nat, err : BOOLEAN]

DownloadTypes ==
  /\ at \in Phase /\ length \in Nat \ {0} /\ size \in {0, length}
  /\ data \in [Offset -> {"hole", "right", "wrong"}]
  /\ link \in LinkState
  /\ next \in Nat /\ range \in [Worker -> RangeState] /\ errs \in Seq(Reason)

\* Before fetchChunks starts there are no goroutines and no errors, and before the file there is no content.
Quiet ==
  /\ at \notin {"feed", "wait"} => AllLeft
  /\ at \notin {"feed", "wait", "ended"} => errs = <<>> /\ next = 0 /\ range = [w \in Worker |-> NoRange]
  /\ at \notin {"feed", "wait", "file", "judge", "pause", "ended"} => size = 0
  /\ at \notin {"file", "judge", "pause", "ended"} => link.n = 0

\* fetchFile has the units of the video up to where the file ends, and all of them when a transfer had no error.
FileInv == at \in {"validate", "ytdlp", "short", "target", "pages", "play", "file", "judge", "pause"} =>
  /\ \A o \in Offset : data[o] = IF o < link.n THEN "right" ELSE "hole"
  /\ link.n <= length
  /\ at = "judge" /\ ~link.err /\ size > 0 => link.n = length

\* A goroutine that has a range which is neither fetched nor reported as failed.
Fetching(w) == range[w].st \in {"request", "again", "stalled", "pause", "report"}

\* fetchChunks writes only inside the video; every unit that was handed out is there, or being fetched, or an error is
\* in the channel; and the feeder stops early only when somebody will say why.
ChunksInv == at \in {"feed", "wait"} =>
  /\ size = length /\ length <= MaxDownload
  /\ \A w \in Worker : Fetching(w) => range[w].pos <= range[w].end + 1 /\ range[w].end < size
  /\ \A o \in Offset : data[o] \in {"hole", "right"} /\ (data[o] = "right" => o < size)
  /\ \A o \in Offset : o < next /\ o < size =>
       data[o] = "right" \/ errs # <<>> \/ \E w \in Worker : Fetching(w) /\ o \in range[w].pos .. range[w].end
  /\ at = "wait" => next >= size \/ gone \/ late \/ errs # <<>>

\* What an error says is so.
True(reason) == (reason = "caller gone" => gone) /\ (reason = "deadline" => late)

\* The others are stopped only after an error is in the channel, so that the first error is never theirs.
CauseInv ==
  /\ stopped => errs # <<>>
  /\ \A w \in Worker : Doing(w, "cancel") \/ Doing(w, "left") => errs # <<>>
  /\ \A w \in Worker : Doing(w, "report") => range[w].err # "none" /\ True(range[w].err) /\ (range[w].err = "stopped" => stopped)
  /\ errs # <<>> => Head(errs) # "stopped" /\ True(Head(errs))

\* Each goroutine reports once.
Reported == {w \in Worker : range[w].st \in {"cancel", "left"}}
ChannelInv == Len(errs) = Cardinality(Reported)

\* The temporary file is there while it is written, and Download says how it ended when it has.
EndInv == /\ at # "ended" => outcome = "none"
          /\ at = "ended" /\ outcome # "ok" => temp # "there"

DownloadInv == /\ DownloadTypes /\ Quiet /\ FileInv /\ ChunksInv /\ CauseInv /\ ChannelInv /\ EndInv
               /\ Whole /\ CauseIsReported

LEMMA DownloadStarts == ASSUME DownloadInit PROVE DownloadInv
<1> USE DownloadAssumption DEF DownloadInit
<1>1. NoRange \in RangeState /\ NoRange.st = "idle" BY DEF NoRange, RangeState
<1>2. DownloadTypes BY <1>1 DEF DownloadTypes, LinkState, Phase, Offset
<1>3. AllLeft /\ Reported = {} BY <1>1 DEF AllLeft, Reported
<1>4. Quiet /\ FileInv /\ ChunksInv BY <1>2, <1>3 DEF Quiet, FileInv, ChunksInv, DownloadTypes, LinkState, Offset
<1>5. CauseInv BY <1>1 DEF CauseInv, Doing
<1>6. ChannelInv BY <1>3, FS_EmptySet DEF ChannelInv
<1>7. EndInv /\ Whole /\ CauseIsReported BY DEF EndInv, Whole, CauseIsReported
<1> QED BY <1>2, <1>4, <1>5, <1>6, <1>7 DEF DownloadInv

\* What depends on the goroutines and the channel only.
LEMMA ChannelKept ==
  ASSUME CauseInv, ChannelInv, UNCHANGED <<range, errs, gone, late, stopped>>
  PROVE  CauseInv' /\ ChannelInv' /\ (AllLeft => AllLeft')
  BY DEF CauseInv, ChannelInv, Reported, AllLeft, Doing, True

\* Download returns.
LEMMA FinishKeeps ==
  ASSUME DownloadInv, DownloadTypes', AllLeft, UNCHANGED <<range, errs, gone, late, stopped>>,
         at' = "ended", outcome' # "ok" => temp' # "there",
         outcome' = "ok" /\ size' > 0 => \A o \in Offset : data'[o] = IF o < length' THEN "right" ELSE "hole",
         outcome' # "stopped", outcome' = "caller gone" => gone,
         outcome' \in {"deadline", "timeout"} => late \/ gone
  PROVE  DownloadInv'
<1>1. CauseInv' /\ ChannelInv' /\ AllLeft' BY ChannelKept DEF DownloadInv
<1>2. Quiet' /\ FileInv' /\ ChunksInv' /\ EndInv' BY <1>1 DEF Quiet, FileInv, ChunksInv, EndInv
<1>3. Whole' BY DEF Whole, Offset
<1>4. CauseIsReported' BY DEF CauseIsReported
<1> QED BY <1>1, <1>2, <1>3, <1>4 DEF DownloadInv

\* A step of Download that does not return, before fetchChunks starts.
LEMMA FileKeeps ==
  ASSUME DownloadInv, DownloadTypes', FileInv', UNCHANGED <<next, range, errs, gone, late, stopped, outcome>>,
         at \notin {"feed", "wait", "ended"}, at' \notin {"feed", "wait", "ended"},
         at' \notin {"file", "judge", "pause"} => size' = 0 /\ link'.n = 0
  PROVE  DownloadInv'
<1>1. CauseInv' /\ ChannelInv' /\ AllLeft' BY ChannelKept DEF DownloadInv, Quiet
<1>2. Quiet' BY <1>1 DEF DownloadInv, Quiet
<1>3. ChunksInv' BY DEF ChunksInv
<1>4. outcome = "none" /\ EndInv' BY DEF DownloadInv, EndInv
<1>5. Whole' /\ CauseIsReported' BY <1>4 DEF Whole, CauseIsReported
<1> QED BY <1>1, <1>2, <1>3, <1>4, <1>5 DEF DownloadInv

LEMMA RefuseKeeps ==
  ASSUME DownloadInv, NEW reason \in {"invalid argument", "internal", "timed out", "blocked", "unsupported", "too large"},
         Before, Refuse(reason), at \notin {"feed", "wait"}
  PROVE  DownloadInv'
<1>1. /\ UNCHANGED <<length, size, data, link, next, range, errs, gone, late, stopped>>
      /\ at' = "ended" /\ outcome' = reason /\ temp' # "there"
  BY DEF Before, Refuse, Finish, env
<1>2. DownloadTypes' BY <1>1 DEF DownloadInv, DownloadTypes, Phase, Offset
<1>3. AllLeft BY DEF DownloadInv, Quiet
<1> QED BY <1>1, <1>2, <1>3, FinishKeeps

LEMMA ToKeeps ==
  ASSUME DownloadInv, NEW goal \in {"ytdlp", "short", "target", "pages", "play"}, Before, To(goal),
         at \in {"validate", "short", "target", "pages"}
  PROVE  DownloadInv'
<1>1. /\ UNCHANGED <<length, size, data, link, next, range, errs, gone, late, stopped, outcome>>
      /\ at' = goal
  BY DEF Before, To, env
<1>2. DownloadTypes' BY <1>1 DEF DownloadInv, DownloadTypes, Phase, Offset
<1>3. FileInv' BY <1>1 DEF DownloadInv, FileInv, Offset
<1>4. size = 0 /\ link.n = 0 BY DEF DownloadInv, Quiet
<1> QED BY <1>1, <1>2, <1>3, <1>4, FileKeeps

LEMMA ResolutionKeeps ==
  ASSUME DownloadInv, ValidatePublicHTTPURL \/ resolveShortLink \/ BilibiliTarget \/ pagelist
  PROVE  DownloadInv'
<1>1. at \in {"validate", "short", "target", "pages"} /\ Before
  BY DEF ValidatePublicHTTPURL, resolveShortLink, BilibiliTarget, pagelist
<1>2. \/ \E goal \in {"ytdlp", "short", "target", "pages", "play"} : To(goal)
      \/ \E reason \in {"invalid argument", "internal", "timed out", "blocked", "unsupported", "too large"} : Refuse(reason)
  BY DEF ValidatePublicHTTPURL, resolveShortLink, BilibiliTarget, pagelist, biliGet
<1> QED BY <1>1, <1>2, ToKeeps, RefuseKeeps

LEMMA ytdlpKeeps ==
  ASSUME DownloadInv, runYtDlp
  PROVE  DownloadInv'
<1>0. DownloadTypes /\ size = 0 /\ AllLeft /\ at = "ytdlp" BY DEF DownloadInv, Quiet, runYtDlp
<1>1. /\ UNCHANGED <<length, size, link, next, range, errs, gone, late, stopped>> /\ at' = "ended"
      /\ \/ outcome' = "ok" /\ data' = [o \in Offset |-> IF o < length THEN "right" ELSE "hole"]
         \/ /\ outcome' \in {"timeout", "too large", "blocked", "unsupported", "timed out", "internal"}
            /\ outcome' = "timeout" => late
            /\ temp' # "there" /\ UNCHANGED data
  BY DEF runYtDlp, env, Classify
<1>2. DownloadTypes' BY <1>0, <1>1 DEF DownloadTypes, Phase, Offset
<1>3. size' = 0 BY <1>0, <1>1
<1> QED BY <1>0, <1>1, <1>2, <1>3, FinishKeeps

LEMMA playurlKeeps ==
  ASSUME DownloadInv, playurl
  PROVE  DownloadInv'
<1>0. /\ DownloadTypes /\ FileInv /\ CauseInv /\ ChannelInv /\ AllLeft /\ at = "play" /\ Before
      /\ link.n = 0 /\ next = 0 /\ errs = <<>> /\ range = [w \in Worker |-> NoRange] /\ outcome = "none"
  BY DEF DownloadInv, Quiet, playurl, EndInv
<1>1. CASE \E reason \in {"timed out", "blocked", "internal", "unsupported", "too large"} : Refuse(reason)
  BY <1>0, <1>1, RefuseKeeps
<1>2. CASE /\ UNCHANGED outcome
           /\ \/ size' = 0 /\ at' = "file"
              \/ size' = length /\ length <= MaxDownload /\ at' = IF length > ChunkSize THEN "feed" ELSE "file"
  <2>1. UNCHANGED <<length, data, link, next, range, errs, gone, late, stopped>> BY <1>0 DEF Before, env
  <2>2. DownloadTypes' BY <1>0, <1>2, <2>1 DEF DownloadTypes, Phase, Offset
  <2>3. CASE at' = "file"
    <3>1. FileInv' BY <1>0, <2>1, <2>3 DEF FileInv, Offset
    <3> QED BY <1>0, <1>2, <2>1, <2>2, <2>3, <3>1, FileKeeps
  <2>4. CASE at' = "feed"
    <3>1. CauseInv' /\ ChannelInv' /\ AllLeft' BY <1>0, <2>1, ChannelKept
    <3>2. \A w \in Worker : ~Fetching(w)' BY <1>0, <2>1 DEF Fetching, AllLeft
    <3>3. \A o \in Offset : data[o] = "hole" BY <1>0 DEF FileInv, Offset
    <3>4. ChunksInv' BY <1>0, <1>2, <2>1, <2>4, <3>2, <3>3 DEF ChunksInv, Offset
    <3>5. Quiet' /\ FileInv' /\ EndInv' BY <1>0, <1>2, <2>1, <2>4, <3>1 DEF Quiet, FileInv, EndInv
    <3>6. Whole' /\ CauseIsReported' BY <1>0, <1>2 DEF Whole, CauseIsReported
    <3> QED BY <2>2, <3>1, <3>4, <3>5, <3>6 DEF DownloadInv
  <2> QED BY <1>2, <2>3, <2>4
<1> QED BY <1>1, <1>2 DEF playurl, biliGet

\* fetchFile's own variables keep their types, one at a time.
LEMMA LinkUpdates ==
  ASSUME NEW l \in LinkState, NEW k \in Nat, NEW e \in BOOLEAN
  PROVE  /\ l.n \in Nat /\ l.mirror \in Nat /\ l.stalls \in Nat /\ l.before \in Nat /\ l.err \in BOOLEAN
         /\ [l EXCEPT !.n = k] \in LinkState /\ [l EXCEPT !.mirror = k] \in LinkState
         /\ [l EXCEPT !.stalls = k] \in LinkState /\ [l EXCEPT !.before = k] \in LinkState
         /\ [l EXCEPT !.err = e] \in LinkState
  BY DEF LinkState

LEMMA NextMirrorLink == ASSUME link \in LinkState PROVE NextMirror \in LinkState /\ NextMirror.n = link.n
<1>1. link.mirror + 1 \in Nat BY DEF LinkState
<1> DEFINE l == [link EXCEPT !.mirror = @ + 1]
<1>2. l \in LinkState BY <1>1, LinkUpdates
<1>3. l.n = link.n BY DEF LinkState
<1> HIDE DEF l
<1>4. [l EXCEPT !.stalls = 0] \in LinkState /\ [l EXCEPT !.stalls = 0].n = l.n BY <1>2 DEF LinkState
<1> QED BY <1>3, <1>4 DEF NextMirror, l

\* One turn of fetchFile's loop: what is in the file stays right whichever mirror goes on with it.
LEMMA fetchFileKeeps ==
  ASSUME DownloadInv, fetchFile
  PROVE  DownloadInv'
<1>0. /\ DownloadTypes /\ FileInv /\ AllLeft /\ at = "file"
      /\ UNCHANGED <<length, size, next, range, errs, gone, late, stopped>>
  BY DEF DownloadInv, Quiet, fetchFile, FileOnly, env
<1>1. /\ \A o \in Offset : data[o] = IF o < link.n THEN "right" ELSE "hole"
      /\ link.n <= length /\ link.n \in Nat /\ length \in Nat \ {0} /\ size \in {0, length}
  BY <1>0 DEF FileInv, DownloadTypes, LinkState
<1>2. ASSUME UNCHANGED data, Finish("timed out") \/ Finish("blocked"), UNCHANGED link PROVE DownloadInv'
  <2>1. at' = "ended" /\ outcome' \in {"timed out", "blocked"} /\ temp' # "there" BY <1>2 DEF Finish
  <2>2. DownloadTypes' BY <1>0, <1>2, <2>1 DEF DownloadTypes, Phase, Offset
  <2> QED BY <1>0, <2>1, <2>2, FinishKeeps
<1>3. ASSUME UNCHANGED data, link' = NextMirror, UNCHANGED <<at, temp, outcome>> PROVE DownloadInv'
  <2>1. link'.n = link.n /\ DownloadTypes' BY <1>0, <1>3, NextMirrorLink DEF DownloadTypes, Offset
  <2>2. FileInv' BY <1>0, <1>1, <1>3, <2>1 DEF FileInv, Offset
  <2> QED BY <1>0, <1>3, <2>1, <2>2, FileKeeps
<1>4. CASE hiccup
  <2>1. at' = "judge" /\ UNCHANGED <<data, temp, outcome>> /\ link' = [link EXCEPT !.before = link.n, !.err = TRUE]
    BY <1>4 DEF hiccup
  <2>2. link'.n = link.n /\ link'.err /\ link' \in LinkState
    <3>1. link \in LinkState BY <1>0 DEF DownloadTypes
    <3> DEFINE l == [link EXCEPT !.before = link.n]
    <3>2. l \in LinkState /\ l.n = link.n BY <3>1 DEF LinkState
    <3> HIDE DEF l
    <3>3. link' = [l EXCEPT !.err = TRUE] BY <2>1 DEF l
    <3> QED BY <3>2, <3>3 DEF LinkState
  <2>4. DownloadTypes' BY <1>0, <2>1, <2>2 DEF DownloadTypes, Offset, Phase
  <2>3. FileInv' BY <1>0, <1>1, <2>1, <2>2 DEF FileInv, Offset
  <2> QED BY <1>0, <2>1, <2>2, <2>3, <2>4, FileKeeps
<1>5. CASE refused \/ fullBody BY <1>2, <1>3, <1>5 DEF refused, fullBody
<1>6. CASE body
  <2>1. PICK m \in 0 .. Min2(length, MaxDownload + 1) - link.n, dropped \in BOOLEAN :
               /\ Receive(m, link.n)
               /\ link' = [link EXCEPT !.n = @ + m, !.before = link.n,
                                       !.err = dropped \/ (size > 0 /\ link.n + m < size)]
    BY <1>6 DEF body
  <2>2. m \in Nat /\ link.n + m <= length BY <1>1, <2>1, DownloadAssumption DEF Min2
  <2>3. /\ link'.n = link.n + m /\ link' \in LinkState
        /\ ~link'.err /\ size > 0 => link.n + m >= size
    <3> DEFINE e == dropped \/ (size > 0 /\ link.n + m < size)
    <3>1. e \in BOOLEAN OBVIOUS
    <3>2. link' = [link EXCEPT !.n = @ + m, !.before = link.n, !.err = e] BY <2>1
    <3>3. ~e /\ size > 0 => link.n + m >= size BY <1>1, <2>2
    <3> HIDE DEF e
    <3> DEFINE l == [link EXCEPT !.n = @ + m]
               h == [l EXCEPT !.before = link.n]
    <3>4. link \in LinkState /\ link.n + m \in Nat BY <1>0, <1>1, <2>2 DEF DownloadTypes
    <3>5. l \in LinkState /\ l.n = link.n + m BY <3>4 DEF LinkState
    <3> HIDE DEF l
    <3>6. h \in LinkState /\ h.n = l.n BY <1>1, <3>5 DEF LinkState
    <3>7. link' = [h EXCEPT !.err = e] BY <3>2 DEF l
    <3> HIDE DEF h
    <3>8. link' \in LinkState /\ link'.n = h.n /\ link'.err = e BY <3>1, <3>6, <3>7 DEF LinkState
    <3> QED BY <3>3, <3>5, <3>6, <3>8
  <2>4. \A o \in Offset : data'[o] = IF o < link.n + m THEN "right" ELSE "hole"
    <3> SUFFICES ASSUME NEW o \in Offset PROVE data'[o] = IF o < link.n + m THEN "right" ELSE "hole" OBVIOUS
    <3>1. o \in Nat /\ o = link.n + (o - link.n) BY <1>1 DEF Offset
    <3>2. data'[o] = IF o \in link.n .. link.n + m - 1 THEN "right" ELSE data[o] BY <2>1, <3>1 DEF Receive
    <3> QED BY <1>1, <2>2, <3>1, <3>2
  <2>5. data' \in [Offset -> {"hole", "right", "wrong"}] BY <1>0, <2>1 DEF Receive, DownloadTypes
  <2>6. CASE Finish("too large")
    <3>1. at' = "ended" /\ outcome' = "too large" /\ temp' # "there" BY <2>6 DEF Finish
    <3>2. DownloadTypes' BY <1>0, <2>3, <2>5, <3>1 DEF DownloadTypes, Phase
    <3> QED BY <1>0, <3>1, <3>2, FinishKeeps
  <2>7. CASE at' = "judge" /\ UNCHANGED <<temp, outcome>>
    <3>1. DownloadTypes' BY <1>0, <2>3, <2>5, <2>7 DEF DownloadTypes, Phase
    <3>2. FileInv' BY <1>0, <1>1, <2>2, <2>3, <2>4, <2>7 DEF FileInv, Offset
    <3> QED BY <1>0, <2>7, <3>1, <3>2, FileKeeps
  <2> QED BY <1>6, <2>6, <2>7 DEF body
<1> QED BY <1>4, <1>5, <1>6 DEF fetchFile

LEMMA judgeFileKeeps ==
  ASSUME DownloadInv, judgeFile \/ pauseFile
  PROVE  DownloadInv'
<1>0. /\ DownloadTypes /\ FileInv /\ AllLeft /\ at \in {"judge", "pause"} /\ ~stopped
      /\ UNCHANGED <<length, size, next, range, errs, gone, late, stopped, data>>
  BY DEF DownloadInv, Quiet, judgeFile, pauseFile, FileOnly, env, CauseInv
<1>1. /\ \A o \in Offset : data[o] = IF o < link.n THEN "right" ELSE "hole"
      /\ link.n <= length /\ link.n \in Nat /\ length \in Nat \ {0} /\ size \in {0, length}
  BY <1>0 DEF FileInv, DownloadTypes, LinkState
<1>2. ASSUME NEW result, Finish(result), UNCHANGED link, result # "stopped", result = "caller gone" => gone,
             result \in {"deadline", "timeout"} => late \/ gone,
             result = "ok" => at = "judge" /\ ~link.err
      PROVE  DownloadInv'
  <2>1. at' = "ended" /\ outcome' = result /\ (outcome' # "ok" => temp' # "there") BY <1>2 DEF Finish
  <2>2. DownloadTypes' BY <1>0, <1>2, <2>1 DEF DownloadTypes, Phase, Offset
  <2>3. result = "ok" /\ size > 0 => link.n = length BY <1>0, <1>2 DEF FileInv
  <2> QED BY <1>0, <1>1, <1>2, <2>1, <2>2, <2>3, FinishKeeps DEF Offset
<1>3. ASSUME at' \in {"file", "pause"}, link'.n = link.n, UNCHANGED <<temp, outcome>>,
             link' \in LinkState
      PROVE  DownloadInv'
  <2>1. DownloadTypes' BY <1>0, <1>3 DEF DownloadTypes, Phase, Offset
  <2>2. FileInv' BY <1>0, <1>1, <1>3 DEF FileInv, Offset
  <2> QED BY <1>0, <1>3, <2>1, <2>2, FileKeeps
<1>4. CASE judgeFile
  <2> DEFINE stalls == IF link.n > link.before THEN 0 ELSE link.stalls + 1
  <2>1. link \in LinkState /\ stalls \in Nat
    BY <1>0 DEF DownloadTypes, LinkState
  <2>2. /\ NextMirror.n = link.n
        /\ NextMirror \in LinkState
    BY <2>1, NextMirrorLink
  <2>3. \/ ~link.err /\ (Finish("internal") \/ Finish("unsupported") \/ Finish("ok")) /\ UNCHANGED link
        \/ gone /\ Finish("caller gone") /\ UNCHANGED link
        \/ late /\ Finish("timeout") /\ UNCHANGED link
        \/ Finish("timed out") /\ UNCHANGED link
        \/ link' = NextMirror /\ at' = "file" /\ UNCHANGED <<temp, outcome>>
        \/ link' = [link EXCEPT !.stalls = stalls] /\ at' = "pause" /\ UNCHANGED <<temp, outcome>>
    BY <1>4 DEF judgeFile
  <2>4. at = "judge" BY <1>4 DEF judgeFile
  <2> HIDE DEF stalls
  <2>5. CASE link' = [link EXCEPT !.stalls = stalls] /\ at' = "pause" /\ UNCHANGED <<temp, outcome>>
    BY <1>3, <2>1, <2>5 DEF LinkState
  <2>6. CASE link' = NextMirror /\ at' = "file" /\ UNCHANGED <<temp, outcome>> BY <1>3, <2>2, <2>6
  <2> QED BY <1>2, <2>3, <2>4, <2>5, <2>6
<1>5. CASE pauseFile
  <2>1. UNCHANGED link /\ ((at' = "file" /\ UNCHANGED <<temp, outcome>>) \/ ((gone \/ late) /\ Finish("timeout")))
    BY <1>0, <1>5 DEF pauseFile, Dead
  <2>2. link \in LinkState BY <1>0 DEF DownloadTypes
  <2> QED BY <1>2, <1>3, <2>1, <2>2
<1> QED BY <1>4, <1>5

\* The feeder hands out the next range, or stops.
LEMMA feedKeeps ==
  ASSUME DownloadInv, feed
  PROVE  DownloadInv'
<1>0. /\ DownloadTypes /\ ChunksInv /\ CauseInv /\ ChannelInv /\ EndInv /\ at = "feed"
      /\ size = length /\ length <= MaxDownload /\ outcome = "none" /\ size \in Nat /\ next \in Nat
      /\ UNCHANGED <<length, size, data, temp, link, errs, gone, late, stopped, outcome>>
  BY DEF DownloadInv, feed, file, env, ChunksInv, EndInv, DownloadTypes
<1>1. ASSUME at' \in {"feed", "wait"} PROVE Quiet' /\ FileInv' /\ EndInv' /\ Whole' /\ CauseIsReported'
  BY <1>0, <1>1 DEF DownloadInv, Quiet, FileInv, EndInv, Whole, CauseIsReported
<1>2. CASE (next >= size \/ Dead) /\ at' = "wait" /\ UNCHANGED <<next, range>>
  <2>1. DownloadTypes' BY <1>0, <1>2 DEF DownloadTypes, Phase, Offset
  <2>2. CauseInv' /\ ChannelInv' BY <1>0, <1>2, ChannelKept
  <2>3. next >= size \/ gone \/ late \/ errs # <<>> BY <1>0, <1>2 DEF Dead, CauseInv
  <2>4. ChunksInv' BY <1>0, <1>2, <2>3 DEF ChunksInv, Fetching, Offset
  <2> QED BY <1>1, <1>2, <2>1, <2>2, <2>4 DEF DownloadInv
<1>3. CASE next < size /\ UNCHANGED at /\ next' = next + ChunkSize
  <2>1. PICK w \in Worker : /\ Doing(w, "idle")
                            /\ range' = [range EXCEPT ![w] = [NoRange EXCEPT !.st = "request", !.pos = next,
                                                                !.end = Min2(next + ChunkSize, size) - 1]]
    BY <1>0, <1>3 DEF feed
  <2> DEFINE e == Min2(next + ChunkSize, size) - 1
             r == [NoRange EXCEPT !.st = "request", !.pos = next, !.end = e]
  <2>2. /\ e \in Int /\ next <= e + 1 /\ e < size
        /\ \A o \in Nat : o < next + ChunkSize /\ o < size => o <= e
    BY <1>0, <1>3, DownloadAssumption DEF Min2
  <2>4. range' = [range EXCEPT ![w] = r] BY <2>1
  <2> HIDE DEF e
  <2>5. /\ r \in RangeState /\ r.st = "request" /\ r.pos = next /\ r.end = e
    <3> DEFINE a == [NoRange EXCEPT !.st = "request"]
               b == [a EXCEPT !.pos = next]
    <3>1. a \in RangeState /\ a.st = "request" BY DEF NoRange, RangeState
    <3> HIDE DEF a
    <3>2. b \in RangeState /\ b.st = a.st /\ b.pos = next BY <1>0, <3>1 DEF RangeState
    <3>3. r = [b EXCEPT !.end = e] BY DEF a
    <3> HIDE DEF b, r
    <3> QED BY <2>2, <3>1, <3>2, <3>3 DEF RangeState
  <2> HIDE DEF r
  <2>6. range'[w] = r /\ \A u \in Worker \ {w} : range'[u] = range[u] BY <1>0, <2>4 DEF DownloadTypes
  <2>7. DownloadTypes' BY <1>0, <1>3, <2>4, <2>5, DownloadAssumption DEF DownloadTypes, Offset, Phase
  <2>8. CauseInv' BY <1>0, <2>5, <2>6 DEF CauseInv, Doing, True
  <2>9. Reported' = Reported BY <2>1, <2>5, <2>6 DEF Reported, Doing
  <2>10. ChannelInv' BY <1>0, <2>9 DEF ChannelInv
  <2>11. \A u \in Worker : Fetching(u) => u # w /\ Fetching(u)' /\ range'[u] = range[u] BY <2>1, <2>6 DEF Fetching, Doing
  <2>12. Fetching(w)' BY <2>5, <2>6 DEF Fetching
  <2>13. \A u \in Worker : Fetching(u)' => range'[u].pos <= range'[u].end + 1 /\ range'[u].end < size
    <3>1. \A u \in Worker \ {w} : Fetching(u)' => Fetching(u) BY <2>6 DEF Fetching
    <3> QED BY <1>0, <2>2, <2>5, <2>6, <3>1 DEF ChunksInv
  <2>14. ASSUME NEW o \in Offset, o < next', o < size
         PROVE  data[o] = "right" \/ errs # <<>> \/ \E u \in Worker : Fetching(u)' /\ o \in range'[u].pos .. range'[u].end
    <3>1. CASE o < next BY <1>0, <2>11, <2>14, <3>1 DEF ChunksInv
    <3>2. CASE o >= next
      <4>1. o \in Nat /\ o <= e BY <1>3, <2>2, <2>14 DEF Offset
      <4>2. o \in range'[w].pos .. range'[w].end BY <1>0, <2>2, <2>5, <2>6, <3>2, <4>1
      <4> QED BY <2>12, <4>2
    <3> QED BY <1>0, <3>1, <3>2 DEF Offset
  <2>15. ChunksInv' BY <1>0, <1>3, <2>13, <2>14 DEF ChunksInv, Offset
  <2> QED BY <1>0, <1>1, <1>3, <2>7, <2>8, <2>10, <2>15 DEF DownloadInv
<1> QED BY <1>0, <1>2, <1>3 DEF feed

\* A goroutine goes on; it keeps what is left of its range until it has reported why it could not fetch it.
LEMMA RangeKeeps ==
  ASSUME DownloadInv, Main, UNCHANGED next, NEW w \in Worker, Fetching(w), NEW r \in RangeState,
         range' = [range EXCEPT ![w] = r], UNCHANGED <<errs, stopped>>,
         r.st \in {"idle", "request", "again", "stalled", "pause", "report"},
         r.st = "report" => r.err # "none" /\ True(r.err) /\ (r.err = "stopped" => stopped),
         r.end = range[w].end, range[w].pos <= r.pos, r.pos <= r.end + 1, r.st = "idle" => r.pos = r.end + 1,
         data' = [o \in Offset |-> IF o \in range[w].pos .. r.pos - 1 THEN "right" ELSE data[o]]
  PROVE  DownloadInv'
<1>0. /\ DownloadTypes /\ ChunksInv /\ CauseInv /\ ChannelInv /\ EndInv /\ at \in {"feed", "wait"}
      /\ size = length /\ length <= MaxDownload /\ size \in Nat
      /\ UNCHANGED <<at, length, size, temp, link, outcome, gone, late, next, errs, stopped>>
  BY DEF DownloadInv, Main, ChunksInv, DownloadTypes, Quiet, AllLeft, Fetching
<1>1. range'[w] = r /\ \A u \in Worker \ {w} : range'[u] = range[u] BY <1>0 DEF DownloadTypes
<1>2. /\ range[w].pos \in Nat /\ range[w].end \in Int /\ r.pos \in Nat /\ r.end \in Int
      /\ range[w].pos <= range[w].end + 1 /\ range[w].end < size
  BY <1>0 DEF DownloadTypes, RangeState, ChunksInv
<1>3. DownloadTypes' BY <1>0 DEF DownloadTypes, Offset, Phase
<1>4. Quiet' /\ FileInv' /\ EndInv' /\ Whole' /\ CauseIsReported'
  <2>1. outcome = "none" BY <1>0 DEF EndInv
  <2> QED BY <1>0, <2>1 DEF DownloadInv, Quiet, FileInv, EndInv, Whole, CauseIsReported
<1>5. CauseInv'
  <2>1. \A u \in Worker : (Doing(u, "cancel") \/ Doing(u, "left"))' => errs # <<>>
    BY <1>0, <1>1 DEF CauseInv, Doing
  <2>3. \A u \in Worker : Doing(u, "report")' =>
          range'[u].err # "none" /\ True(range'[u].err) /\ (range'[u].err = "stopped" => stopped)
    BY <1>0, <1>1 DEF CauseInv, Doing
  <2>4. (stopped => errs # <<>>) /\ (errs # <<>> => Head(errs) # "stopped" /\ True(Head(errs)))
    BY <1>0 DEF CauseInv
  <2>2. gone' = gone /\ late' = late /\ stopped' = stopped BY <1>0
  <2>5. (gone' <=> gone) /\ (late' <=> late) /\ (stopped' <=> stopped) BY ONLY <2>2, Zenon
  <2>6. errs' = errs BY <1>0
  <2> QED BY <2>1, <2>3, <2>4, <2>5, <2>6 DEF CauseInv, Doing, True
<1>6. Reported' = Reported BY <1>1 DEF Reported, Fetching
<1>7. ChannelInv' BY <1>0, <1>6 DEF ChannelInv
<1>8. \A u \in Worker \ {w} : Fetching(u)' <=> Fetching(u) BY <1>1 DEF Fetching
<1>9. \A u \in Worker : Fetching(u)' => range'[u].pos <= range'[u].end + 1 /\ range'[u].end < size
  BY <1>0, <1>1, <1>2, <1>8 DEF ChunksInv
<1>10. ASSUME NEW o \in Offset
       PROVE  /\ data'[o] \in {"hole", "right"} /\ (data'[o] = "right" => o < size)
              /\ data[o] = "right" => data'[o] = "right"
  BY <1>0, <1>2 DEF ChunksInv, Offset
<1>11. ASSUME NEW o \in Offset, o < next, o < size, errs = <<>>, data'[o] # "right"
       PROVE  \E u \in Worker : Fetching(u)' /\ o \in range'[u].pos .. range'[u].end
  <2>1. PICK u \in Worker : Fetching(u) /\ o \in range[u].pos .. range[u].end BY <1>0, <1>10, <1>11 DEF ChunksInv
  <2>2. CASE u = w
    <3>1. o \in Nat /\ o \notin range[w].pos .. r.pos - 1 BY <1>11 DEF Offset
    <3>2. o \in r.pos .. r.end BY <1>2, <2>1, <2>2, <3>1
    <3>3. Fetching(w)' BY <1>1, <1>2, <3>2 DEF Fetching
    <3> QED BY <1>1, <3>2, <3>3
  <2>3. CASE u # w BY <1>1, <1>8, <2>1, <2>3
  <2> QED BY <2>2, <2>3
<1>12. ChunksInv' BY <1>0, <1>9, <1>10, <1>11 DEF ChunksInv, Offset
<1> QED BY <1>3, <1>4, <1>5, <1>7, <1>12 DEF DownloadInv

LEMMA RangeUpdates ==
  ASSUME NEW r \in RangeState, NEW k \in Nat, NEW e \in Reason,
         NEW s \in {"idle", "request", "again", "stalled", "pause", "report", "cancel", "left"}
  PROVE  /\ r.pos \in Nat /\ r.end \in Int /\ r.mirror \in Nat /\ r.stalls \in Nat
         /\ [r EXCEPT !.st = s] \in RangeState /\ [r EXCEPT !.err = e] \in RangeState
         /\ [r EXCEPT !.pos = k] \in RangeState /\ [r EXCEPT !.mirror = k] \in RangeState
         /\ [r EXCEPT !.stalls = k] \in RangeState
  BY DEF RangeState, Reason

\* A goroutine that gives up.
LEMMA GivesUpKeeps ==
  ASSUME DownloadInv, Main, UNCHANGED <<next, data, errs, stopped>>, NEW w \in Worker, Fetching(w), NEW e \in Reason,
         True(e), e = "stopped" => stopped, GivesUp(w, e)
  PROVE  DownloadInv'
<1>0. range[w] \in RangeState /\ range \in [Worker -> RangeState] /\ data \in [Offset -> {"hole", "right", "wrong"}]
  BY DEF DownloadInv, DownloadTypes
<1> DEFINE q == [range[w] EXCEPT !.st = "report"]
           r == [q EXCEPT !.err = e]
<1>1. q \in RangeState /\ q.st = "report" /\ q.pos = range[w].pos /\ q.end = range[w].end BY <1>0 DEF RangeState
<1>2. range' = [range EXCEPT ![w] = r] BY <1>0 DEF GivesUp
<1> HIDE DEF q
<1>3. r \in RangeState /\ r.st = q.st /\ r.pos = q.pos /\ r.end = q.end /\ r.err = e BY <1>1 DEF RangeState
<1> HIDE DEF r
<1>4. r.pos <= r.end + 1 BY <1>1, <1>3 DEF DownloadInv, ChunksInv, Quiet, AllLeft, Fetching
<1>5. e # "none" BY DEF Reason
<1>6. r.pos \in Nat BY <1>3 DEF RangeState
<1>7. data' = [o \in Offset |-> IF o \in range[w].pos .. r.pos - 1 THEN "right" ELSE data[o]]
  <2>1. \A o \in Offset : o \notin range[w].pos .. r.pos - 1 BY <1>1, <1>3, <1>6
  <2> QED BY <1>0, <2>1
<1>8. range[w].pos <= r.pos /\ r.end = range[w].end /\ r.st = "report" BY <1>1, <1>3, <1>6
<1>9. r.st = "report" => r.err # "none" /\ True(r.err) /\ (r.err = "stopped" => stopped) BY <1>3, <1>5
<1> QED BY <1>2, <1>3, <1>4, <1>7, <1>8, <1>9, RangeKeeps

\* A goroutine that goes on to another step without having fetched or failed.
LEMMA GoesOnKeeps ==
  ASSUME DownloadInv, Main, UNCHANGED <<next, data, errs, stopped>>, NEW w \in Worker, Fetching(w), NEW r \in RangeState,
         r.st \in {"request", "pause"}, r.pos = range[w].pos, r.end = range[w].end, range' = [range EXCEPT ![w] = r]
  PROVE  DownloadInv'
<1>0. data \in [Offset -> {"hole", "right", "wrong"}] BY DEF DownloadInv, DownloadTypes
<1>1. r.pos <= r.end + 1 BY DEF DownloadInv, ChunksInv, Quiet, AllLeft, Fetching
<1>2. r.pos \in Nat BY DEF RangeState
<1>3. data' = [o \in Offset |-> IF o \in range[w].pos .. r.pos - 1 THEN "right" ELSE data[o]]
  <2>1. \A o \in Offset : o \notin range[w].pos .. r.pos - 1 BY <1>2
  <2> QED BY <1>0, <2>1
<1>4. range[w].pos <= r.pos BY <1>2
<1>5. r.st # "report" /\ r.st # "idle" OBVIOUS
<1> QED BY <1>1, <1>3, <1>4, <1>5, RangeKeeps

LEMMA ContextErrors ==
  ASSUME Dead
  PROVE  ContextError \in Reason /\ True(ContextError) /\ (ContextError = "stopped" => stopped)
  BY DEF Dead, ContextError, Reason, True

LEMMA judgeRangeKeeps ==
  ASSUME DownloadInv, NEW w \in Worker, judgeRange(w) \/ pauseRange(w)
  PROVE  DownloadInv'
<1>0. /\ Fetching(w) /\ Main /\ UNCHANGED <<next, data, errs, stopped>>
      /\ range[w] \in RangeState /\ range \in [Worker -> RangeState]
  BY DEF judgeRange, pauseRange, Doing, Fetching, DownloadInv, DownloadTypes
<1>1. CASE Dead /\ GivesUp(w, ContextError) BY <1>0, <1>1, ContextErrors, GivesUpKeeps
<1>2. CASE GivesUp(w, "timed out")
  <2>1. "timed out" \in Reason /\ True("timed out") BY DEF Reason, True
  <2> QED BY <1>0, <1>2, <2>1, GivesUpKeeps
<1>3. CASE range' = [range EXCEPT ![w].st = "request"]
  <2> DEFINE r == [range[w] EXCEPT !.st = "request"]
  <2>1. r \in RangeState /\ r.st = "request" /\ r.pos = range[w].pos /\ r.end = range[w].end BY <1>0 DEF RangeState
  <2>2. range' = [range EXCEPT ![w] = r] BY <1>0, <1>3
  <2> HIDE DEF r
  <2> QED BY <1>0, <2>1, <2>2, GoesOnKeeps
<1>4. CASE range' = [range EXCEPT ![w].st = "pause",
                              ![w].mirror = IF range[w].stalls >= RangeStalls THEN @ + 1 ELSE @,
                              ![w].stalls = IF @ >= RangeStalls THEN 0 ELSE @]
  <2> DEFINE m == IF range[w].stalls >= RangeStalls THEN range[w].mirror + 1 ELSE range[w].mirror
             s == IF range[w].stalls >= RangeStalls THEN 0 ELSE range[w].stalls
             a == [range[w] EXCEPT !.st = "pause"]
             b == [a EXCEPT !.mirror = m]
             r == [b EXCEPT !.stalls = s]
  <2>1. range' = [range EXCEPT ![w] = r] BY <1>0, <1>4 DEF RangeState
  <2>2. m \in Nat /\ s \in Nat BY <1>0 DEF RangeState
  <2>3. a \in RangeState /\ a.st = "pause" /\ a.pos = range[w].pos /\ a.end = range[w].end BY <1>0 DEF RangeState
  <2> HIDE DEF m, s, a
  <2>4. b \in RangeState /\ b.st = a.st /\ b.pos = a.pos /\ b.end = a.end BY <2>2, <2>3 DEF RangeState
  <2> HIDE DEF b
  <2>5. r \in RangeState /\ r.st = b.st /\ r.pos = b.pos /\ r.end = b.end BY <2>2, <2>4 DEF RangeState
  <2> HIDE DEF r
  <2> QED BY <1>0, <2>1, <2>3, <2>4, <2>5, GoesOnKeeps
<1> QED BY <1>1, <1>2, <1>3, <1>4 DEF judgeRange, pauseRange

LEMMA requestRangeKeeps ==
  ASSUME DownloadInv, NEW w \in Worker, requestRange(w)
  PROVE  DownloadInv'
<1>0. /\ Fetching(w) /\ Main /\ UNCHANGED <<next, errs, stopped>>
      /\ range[w] \in RangeState /\ range \in [Worker -> RangeState]
  BY DEF requestRange, Doing, Fetching, DownloadInv, DownloadTypes
<1>1. range[w].pos \in Nat /\ range[w].end \in Int /\ range[w].stalls \in Nat /\ range[w].pos <= range[w].end + 1
  BY <1>0 DEF DownloadInv, ChunksInv, Quiet, AllLeft, Fetching, RangeState
<1>2. CASE GivesUp(w, "internal") /\ UNCHANGED data
  <2>1. "internal" \in Reason /\ True("internal") BY DEF Reason, True
  <2> QED BY <1>0, <1>2, <2>1, GivesUpKeeps
<1>3. CASE \E k \in 0 .. IF Dead THEN 0 ELSE range[w].end - range[w].pos + 1 :
             /\ data' = [o \in Offset |-> IF o \in range[w].pos .. range[w].pos + k - 1 THEN "right" ELSE data[o]]
             /\ range' = [range EXCEPT ![w].pos = @ + k,
                                       ![w].stalls = IF k > 0 THEN 0 ELSE @ + 1,
                                       ![w].st = IF k = range[w].end - range[w].pos + 1 THEN "idle"
                                                 ELSE IF k > 0 THEN "again" ELSE "stalled"]
  <2>1. PICK k \in 0 .. IF Dead THEN 0 ELSE range[w].end - range[w].pos + 1 :
             /\ data' = [o \in Offset |-> IF o \in range[w].pos .. range[w].pos + k - 1 THEN "right" ELSE data[o]]
             /\ range' = [range EXCEPT ![w].pos = @ + k,
                                       ![w].stalls = IF k > 0 THEN 0 ELSE @ + 1,
                                       ![w].st = IF k = range[w].end - range[w].pos + 1 THEN "idle"
                                                 ELSE IF k > 0 THEN "again" ELSE "stalled"]
    BY <1>3
  <2>2. k \in Nat /\ k <= range[w].end - range[w].pos + 1 BY <1>1, <2>1
  <2> DEFINE p == range[w].pos + k
             s == IF k > 0 THEN 0 ELSE range[w].stalls + 1
             t == IF k = range[w].end - range[w].pos + 1 THEN "idle" ELSE IF k > 0 THEN "again" ELSE "stalled"
             a == [range[w] EXCEPT !.pos = p]
             b == [a EXCEPT !.stalls = s]
             r == [b EXCEPT !.st = t]
  <2>3. range' = [range EXCEPT ![w] = r] BY <1>0, <2>1 DEF RangeState
  <2>4. /\ p \in Nat /\ s \in Nat /\ t \in {"idle", "again", "stalled"} /\ range[w].pos <= p
        /\ p <= range[w].end + 1 /\ (t = "idle" => p = range[w].end + 1)
    BY <1>1, <2>2
  <2>5. data' = [o \in Offset |-> IF o \in range[w].pos .. p - 1 THEN "right" ELSE data[o]]
    <3>1. \A o \in Offset : o \in range[w].pos .. range[w].pos + k - 1 <=> o \in range[w].pos .. p - 1
      BY <1>1, <2>2 DEF Offset
    <3> HIDE DEF p
    <3> QED BY <2>1, <3>1
  <2> HIDE DEF p, s, t
  <2>6. a \in RangeState /\ a.pos = p /\ a.end = range[w].end BY <1>0, <2>4 DEF RangeState
  <2> HIDE DEF a
  <2>7. b \in RangeState /\ b.pos = a.pos /\ b.end = a.end BY <2>4, <2>6 DEF RangeState
  <2> HIDE DEF b
  <2>8. r \in RangeState /\ r.pos = b.pos /\ r.end = b.end /\ r.st = t BY <2>4, <2>7 DEF RangeState
  <2> HIDE DEF r
  <2> QED BY <1>0, <2>3, <2>4, <2>5, <2>6, <2>7, <2>8, RangeKeeps
<1> QED BY <1>2, <1>3 DEF requestRange

\* A goroutine reports its error, and then stops the others.
LEMMA reportErrorKeeps ==
  ASSUME DownloadInv, NEW w \in Worker, reportError(w)
  PROVE  DownloadInv'
<1>0. /\ DownloadTypes /\ ChunksInv /\ CauseInv /\ ChannelInv /\ EndInv /\ at \in {"feed", "wait"}
      /\ UNCHANGED <<at, length, size, temp, link, outcome, gone, late, next, data>>
      /\ range[w] \in RangeState /\ range \in [Worker -> RangeState] /\ errs \in Seq(Reason)
      /\ IsFiniteSet(Reported)
  <2>1. /\ UNCHANGED <<at, length, size, temp, link, outcome, gone, late, next, data>>
        /\ range[w].st \in {"report", "cancel"}
    BY DEF reportError, Main, Doing
  <2>2. DownloadTypes /\ ChunksInv /\ CauseInv /\ ChannelInv /\ EndInv /\ at \in {"feed", "wait"}
    BY <2>1 DEF DownloadInv, Quiet, AllLeft
  <2>3. Reported \subseteq Worker BY DEF Reported
  <2>4. IsFiniteSet(Reported) BY <2>3, FS_Subset, DownloadAssumption
  <2> QED BY <2>1, <2>2, <2>4 DEF DownloadTypes
<1>1. Quiet' /\ FileInv' /\ EndInv' /\ Whole' /\ CauseIsReported'
  <2>1. outcome = "none" BY <1>0 DEF EndInv
  <2> QED BY <1>0, <2>1 DEF DownloadInv, Quiet, FileInv, EndInv, Whole, CauseIsReported
<1>2. CASE /\ Doing(w, "report") /\ errs' = Append(errs, range[w].err)
           /\ range' = [range EXCEPT ![w].st = "cancel"] /\ UNCHANGED stopped
  <2>1. /\ range' \in [Worker -> RangeState] /\ range'[w].st = "cancel" /\ \A u \in Worker \ {w} : range'[u] = range[u]
    BY <1>0, <1>2 DEF RangeState
  <2>2. range[w].err \in Reason /\ True(range[w].err) /\ (range[w].err = "stopped" => stopped)
    BY <1>0, <1>2 DEF CauseInv, RangeState
  <2>3. /\ errs' \in Seq(Reason) /\ errs' # <<>> /\ Len(errs') = Len(errs) + 1
        /\ errs # <<>> => Head(errs') = Head(errs)
        /\ errs = <<>> => Head(errs') = range[w].err
    <3> DEFINE x == range[w].err
    <3>1. x \in Reason /\ errs' = Append(errs, x) BY <1>2, <2>2
    <3> HIDE DEF x
    <3>2. /\ errs' \in Seq(Reason) /\ Len(errs') = Len(errs) + 1 /\ Len(errs) \in Nat
          /\ errs'[Len(errs) + 1] = x /\ \A i \in 1 .. Len(errs) : errs'[i] = errs[i]
      BY <1>0, <3>1
    <3>3. errs' # <<>> /\ Head(errs') = errs'[1] BY <3>2
    <3>4. errs # <<>> => Len(errs) > 0 /\ Head(errs) = errs[1] BY <1>0
    <3>5. errs = <<>> => Len(errs) = 0 OBVIOUS
    <3> QED BY <3>2, <3>3, <3>4, <3>5 DEF x
  <2>4. DownloadTypes' BY <1>0, <2>1, <2>3 DEF DownloadTypes, Offset
  <2>5. CauseInv'
    <3>1. (gone' <=> gone) /\ (late' <=> late) /\ (stopped' <=> stopped) BY <1>0, <1>2, Zenon
    <3>2. Head(errs') # "stopped" /\ True(Head(errs')) BY <1>0, <2>2, <2>3 DEF CauseInv
    <3>3. \A u \in Worker : Doing(u, "report")' =>
            range'[u].err # "none" /\ True(range'[u].err) /\ (range'[u].err = "stopped" => stopped)
      BY <1>0, <2>1 DEF CauseInv, Doing
    <3> QED BY <2>3, <3>1, <3>2, <3>3 DEF CauseInv, Doing, True
  <2>6. Reported' = Reported \cup {w} /\ w \notin Reported BY <1>2, <2>1 DEF Reported, Doing
  <2>7. ChannelInv'
    <3>1. Cardinality(Reported') = Cardinality(Reported) + 1 BY <1>0, <2>6, FS_AddElement
    <3> QED BY <1>0, <2>3, <3>1 DEF ChannelInv
  <2>8. ChunksInv'
    <3>1. \A u \in Worker : Fetching(u)' => Fetching(u) /\ range'[u] = range[u] BY <2>1 DEF Fetching
    <3> QED BY <1>0, <2>3, <3>1 DEF ChunksInv, Offset
  <2> QED BY <1>1, <2>4, <2>5, <2>7, <2>8 DEF DownloadInv
<1>3. CASE Doing(w, "cancel") /\ stopped' = TRUE /\ range' = [range EXCEPT ![w].st = "left"] /\ UNCHANGED errs
  <2>1. /\ range' \in [Worker -> RangeState] /\ range'[w].st = "left" /\ \A u \in Worker \ {w} : range'[u] = range[u]
    BY <1>0, <1>3 DEF RangeState
  <2>2. errs # <<>> BY <1>0, <1>3 DEF CauseInv
  <2>3. DownloadTypes' BY <1>0, <1>3, <2>1 DEF DownloadTypes, Offset
  <2>4. CauseInv'
    <3>1. (gone' <=> gone) /\ (late' <=> late) /\ stopped' BY <1>0, <1>3, Zenon
    <3>2. Head(errs) # "stopped" /\ True(Head(errs)) BY <1>0, <2>2 DEF CauseInv
    <3>3. \A u \in Worker : Doing(u, "report")' => range'[u].err # "none" /\ True(range'[u].err)
      BY <1>0, <2>1 DEF CauseInv, Doing
    <3> QED BY <1>3, <2>2, <3>1, <3>2, <3>3 DEF CauseInv, Doing, True
  <2>5. Reported' = Reported BY <1>3, <2>1 DEF Reported, Doing
  <2>6. ChannelInv' BY <1>0, <1>3, <2>5 DEF ChannelInv
  <2>7. ChunksInv'
    <3>1. \A u \in Worker : Fetching(u)' <=> Fetching(u) /\ range'[u] = range[u] BY <1>3, <2>1 DEF Fetching, Doing
    <3> QED BY <1>0, <1>3, <2>2, <3>1 DEF ChunksInv, Offset
  <2> QED BY <1>1, <2>3, <2>4, <2>6, <2>7 DEF DownloadInv
<1> QED BY <1>2, <1>3 DEF reportError

\* Every goroutine is over: without an error the whole video is there.
LEMMA fetchChunksKeeps ==
  ASSUME DownloadInv, fetchChunks \/ closeFails
  PROVE  DownloadInv'
<1>0. /\ DownloadTypes /\ ChunksInv /\ CauseInv /\ at = "wait" /\ AllLeft
      /\ UNCHANGED <<length, size, data, link, next, range, errs, gone, late, stopped>>
  BY DEF DownloadInv, fetchChunks, closeFails, env
<1>1. \/ errs # <<>> /\ Finish(Head(errs))
      \/ gone /\ Finish("caller gone")
      \/ late /\ Finish("timeout")
      \/ errs = <<>> /\ ~gone /\ ~late /\ Finish("ok")
      \/ Finish("internal")
  BY DEF fetchChunks, closeFails
<1> DEFINE Fair(x) == /\ x # "stopped" /\ (x = "caller gone" => gone) /\ (x \in {"deadline", "timeout"} => late \/ gone)
                      /\ x = "ok" => errs = <<>> /\ ~gone /\ ~late
<1>2. PICK result : Finish(result) /\ Fair(result)
  <2>1. errs # <<>> => Head(errs) \in Reason /\ Head(errs) # "stopped" /\ True(Head(errs))
    BY <1>0 DEF CauseInv, DownloadTypes
  <2>2. errs # <<>> => Fair(Head(errs)) BY <2>1 DEF Reason, True
  <2>3. gone => Fair("caller gone") OBVIOUS
  <2>4. late => Fair("timeout") OBVIOUS
  <2>5. errs = <<>> /\ ~gone /\ ~late => Fair("ok") OBVIOUS
  <2>6. Fair("internal") OBVIOUS
  <2> HIDE DEF Fair
  <2> QED BY <1>1, <2>2, <2>3, <2>4, <2>5, <2>6
<1>3. at' = "ended" /\ outcome' = result /\ (outcome' # "ok" => temp' # "there") BY <1>2 DEF Finish
<1>4. DownloadTypes' BY <1>0, <1>3 DEF DownloadTypes, Phase, Offset
<1>5. ASSUME result = "ok", NEW o \in Offset PROVE data[o] = IF o < length THEN "right" ELSE "hole"
  <2>1. \A w \in Worker : ~Fetching(w) BY <1>0 DEF AllLeft, Fetching
  <2>2. next >= size /\ size = length /\ size \in Nat /\ next \in Nat BY <1>0, <1>2, <1>5 DEF ChunksInv, DownloadTypes
  <2>3. o < size => o < next BY <2>2 DEF Offset
  <2> QED BY <1>0, <1>2, <1>5, <2>1, <2>2, <2>3 DEF ChunksInv
<1> QED BY <1>0, <1>2, <1>3, <1>4, <1>5, FinishKeeps

\* The caller leaves, or time is up.
LEMMA EnvironmentKeeps ==
  ASSUME DownloadInv, CallerLeaves \/ DeadlinePasses
  PROVE  DownloadInv'
<1>1. /\ UNCHANGED <<at, length, size, data, temp, link, next, range, errs, outcome>>
      /\ (gone => gone') /\ (late => late') /\ (stopped' <=> stopped)
  <2>1. UNCHANGED <<at, length, size, data, temp, link, next, range, errs, outcome>>
    BY DEF CallerLeaves, DeadlinePasses, file
  <2>2. gone' = TRUE \/ gone' = gone BY DEF CallerLeaves, DeadlinePasses
  <2>3. late' = TRUE \/ late' = late BY DEF CallerLeaves, DeadlinePasses
  <2>4. stopped' = stopped BY DEF CallerLeaves, DeadlinePasses
  <2>5. gone => gone' BY ONLY <2>2, Zenon
  <2>6. late => late' BY ONLY <2>3, Zenon
  <2>7. stopped' <=> stopped BY ONLY <2>4, Zenon
  <2> QED BY <2>1, <2>5, <2>6, <2>7
<1>2. DownloadTypes' /\ Quiet' /\ FileInv' BY <1>1 DEF DownloadInv, DownloadTypes, Quiet, FileInv, AllLeft, Offset
<1>3. ChunksInv' BY <1>1 DEF DownloadInv, ChunksInv, Fetching, Offset
<1>4. CauseInv' /\ ChannelInv' BY <1>1 DEF DownloadInv, CauseInv, ChannelInv, Reported, Doing, True
<1>5. EndInv' /\ Whole' /\ CauseIsReported' BY <1>1 DEF DownloadInv, EndInv, Whole, CauseIsReported, Offset
<1> QED BY <1>2, <1>3, <1>4, <1>5 DEF DownloadInv

LEMMA DownloadInvariant == DownloadSpec => []DownloadInv
<1>1. DownloadInit => DownloadInv BY DownloadStarts
<1>2. DownloadInv /\ [DownloadNext]_downloadVars => DownloadInv'
  <2> SUFFICES ASSUME DownloadInv, [DownloadNext]_downloadVars PROVE DownloadInv' OBVIOUS
  <2>1. CASE Download
    BY <2>1, ResolutionKeeps, ytdlpKeeps, playurlKeeps, fetchFileKeeps, judgeFileKeeps, feedKeeps, fetchChunksKeeps
       DEF Download
  <2>2. CASE \E w \in Worker : Work(w)
    BY <2>2, requestRangeKeeps, judgeRangeKeeps, reportErrorKeeps DEF Work
  <2>3. CASE CallerLeaves \/ DeadlinePasses BY <2>3, EnvironmentKeeps
  <2>4. CASE UNCHANGED downloadVars
    <3>1. /\ UNCHANGED <<at, length, size, data, temp, link, next, range, errs, outcome>>
          /\ (gone' <=> gone) /\ (late' <=> late) /\ (stopped' <=> stopped)
      BY <2>4, Zenon DEF downloadVars
    <3>2. DownloadTypes' /\ Quiet' /\ FileInv' BY <3>1 DEF DownloadInv, DownloadTypes, Quiet, FileInv, AllLeft, Offset
    <3>3. ChunksInv' BY <3>1 DEF DownloadInv, ChunksInv, Fetching, Offset
    <3>4. CauseInv' /\ ChannelInv' BY <3>1 DEF DownloadInv, CauseInv, ChannelInv, Reported, Doing, True
    <3>5. EndInv' /\ Whole' /\ CauseIsReported' BY <3>1 DEF DownloadInv, EndInv, Whole, CauseIsReported, Offset
    <3> QED BY <3>2, <3>3, <3>4, <3>5 DEF DownloadInv
  <2> QED BY <2>1, <2>2, <2>3, <2>4 DEF DownloadNext, Done
<1> QED BY <1>1, <1>2, PTL DEF DownloadSpec

\* A file that Download hands on is the video, whole, whenever its length was announced: for any length, chunk size and
\* number of goroutines and mirrors, wherever connections drop and however the ranges of fetchChunks interleave.
THEOREM DownloadsAreWhole == DownloadSpec => []Whole
<1>1. DownloadInv => Whole BY DEF DownloadInv
<1> QED BY <1>1, DownloadInvariant, PTL

\* The user reads why the download failed: the goroutines fetchChunks stops never get ahead of the error that stopped
\* them, and nobody is told of a caller who left or a deadline that passed unless it did.
THEOREM CausesAreReported == DownloadSpec => []CauseIsReported
<1>1. DownloadInv => CauseIsReported BY DEF DownloadInv
<1> QED BY <1>1, DownloadInvariant, PTL

\* When Download returns no goroutine of fetchChunks is left to write or to block on the channel of errors, and a failed
\* download has removed its temporary file.
THEOREM DownloadsLeaveNothing == DownloadSpec => []NothingLeft
<1>1. DownloadInv => NothingLeft
  <2> SUFFICES ASSUME DownloadInv, at = "ended" PROVE NothingLeft BY DEF NothingLeft
  <2>1. \A w \in Worker : range[w].st \in {"idle", "left"} BY DEF DownloadInv, Quiet, AllLeft
  <2>2. Len(errs) <= Cardinality(Worker)
    <3>1. Reported \subseteq Worker BY DEF Reported
    <3>2. Cardinality(Reported) <= Cardinality(Worker) BY <3>1, FS_Subset, DownloadAssumption
    <3> QED BY <3>2 DEF DownloadInv, ChannelInv
  <2>3. outcome # "ok" => temp # "there" BY DEF DownloadInv, EndInv
  <2> QED BY <2>1, <2>2, <2>3 DEF NothingLeft
<1> QED BY <1>1, DownloadInvariant, PTL
=============================================================================
