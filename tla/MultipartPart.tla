--------------------------- MODULE MultipartPart ---------------------------
(***************************************************************************)
(* PUT ?partNumber&uploadId: S3PutMultiObjectAction with S3PartMetadata.   *)
(* The streaming of the data is one step here; UploadStream has its        *)
(* detail.                                                                 *)
(***************************************************************************)
EXTENDS MultipartStore

Overwrites(p) == old[p] # NoOid
OldPartKey(p) == OldKey(old[p], p)

FetchMultipartMetadata(p) ==
    /\ MayStart(p)
    /\ Go(p, IF UploadOf[p] \in mp THEN "fetch_part" ELSE "done")
    /\ UNCHANGED <<motr, old, seen, was, todo, stopped, bd>>

FetchPartInfo(p) ==
    /\ At(p, "fetch_part")
    /\ old' = [old EXCEPT ![p] = partIdx[UploadOf[p]][PartNumber[p]]]
    /\ Go(p, "create_object")
    /\ UNCHANGED <<motr, seen, was, todo, stopped, bd>>

CreatePartObject(p) ==
    /\ At(p, "create_object")
    /\ \/ stored' = stored \cup {p} /\ Go(p, "add_probable")
       \/ /\ MayFail("create_object", p) \/ Leaves("create_object", p)
          /\ UNCHANGED stored
          /\ Go(p, "done")
    /\ UNCHANGED <<mp, idx, partIdx, objList, verList, ext, pdi>>
    /\ UNCHANGED <<old, seen, was, todo, stopped, bd>>

PartRecs(p, forced) == [k \in {ObjKey(p)} |-> Rec(p, "put", forced, NoVer)]
OldPartRecs(p, forced) == [k \in {OldPartKey(p)} |-> Rec(p, "put", forced, NoVer)]
BothPartRecs(p) ==
    [k \in {ObjKey(p)} \cup {OldPartKey(p) : o \in {old[p]} \ {NoOid}} |->
        Rec(p, "put", FALSE, NoVer)]

AddPartOidToProbableDeadOidList(p) ==
    /\ At(p, "add_probable")
    /\ \/ PutRecs(BothPartRecs(p)) /\ Go(p, "stream")
       \/ MayFail("add_probable", p) /\ UNCHANGED pdi /\ Go(p, "done")
    /\ UNCHANGED <<stored, mp, idx, partIdx, objList, verList, ext>>
    /\ UNCHANGED <<old, seen, was, todo, stopped, bd>>

\* A failed write, a wrong signature of a chunk, a read error or a read
\* timeout leads to the rollback, and so does a client that has left.
StreamPartData(p) ==
    /\ At(p, "stream")
    /\ \/ Go(p, "save_part")
       \/ /\ MayFail("stream", p) \/ Leaves("stream", p)
          /\ Go(p, "mark_new")
    /\ UNCHANGED <<motr, old, seen, was, todo, stopped, bd>>

\* The entry cannot be saved when the part list index is gone.  A client
\* that leaves now finds the action in writeComplete, for which startcleanup
\* has no task.
SavePartMetadata(p) ==
    /\ At(p, "save_part")
    /\ \/ /\ UploadOf[p] \in idx
          /\ partIdx' = [partIdx EXCEPT ![UploadOf[p]][PartNumber[p]] = p]
          /\ Go(p, IF Overwrites(p) THEN "mark_old" ELSE "leak_check")
       \/ /\ UploadOf[p] \notin idx \/ MayFail("save_part", p)
          /\ UNCHANGED partIdx
          /\ Go(p, "mark_new")
       \/ Leaves("save_part", p) /\ UNCHANGED partIdx /\ Go(p, "done")
    /\ UNCHANGED <<stored, mp, idx, objList, verList, ext, pdi>>
    /\ UNCHANGED <<old, seen, was, todo, stopped, bd>>

(***************************************************************************)
(* Clean up.  Every task goes on whether it succeeds or fails, but an      *)
(* object that cannot be deleted keeps its record.                         *)
(***************************************************************************)
PartCleanup(p, label, next, effect) ==
    /\ At(p, label)
    /\ effect \/ (MayFail(label, p) /\ UNCHANGED pdi)
    /\ Go(p, next)
    /\ UNCHANGED <<stored, mp, idx, partIdx, objList, verList, ext>>
    /\ UNCHANGED <<old, seen, was, todo, stopped, bd>>

MarkOldPart(p) == PartCleanup(p, "mark_old", "leak_check",
                              PutRecs(OldPartRecs(p, TRUE)))
PartLeakCheck(p) ==
    PartCleanup(p, "leak_check", "remove_new",
                PutRecs([k \in {ChkKey(p)} |-> Rec(p, "check", FALSE, NoVer)]))
RemoveNewPartRecord(p) ==
    PartCleanup(p, "remove_new", IF Overwrites(p) THEN "delete_old" ELSE "done",
                DeleteRecs({ObjKey(p)}))
MarkNewPart(p) ==
    PartCleanup(p, "mark_new", "delete_new", PutRecs(PartRecs(p, TRUE)))
RollbackNewPartRecord(p) ==
    PartCleanup(p, "rollback_new", "done", DeleteRecs({ObjKey(p)}))

DeletePartObject(p, label, oid, next) ==
    /\ At(p, label)
    /\ \/ stored' = stored \ {oid} /\ Go(p, next)
       \/ MayFail(label, p) /\ UNCHANGED stored /\ Go(p, "done")
    /\ UNCHANGED <<mp, idx, partIdx, objList, verList, ext, pdi>>
    /\ UNCHANGED <<old, seen, was, todo, stopped, bd>>
\* Mutant: the clean up of an overwrite deletes the new part.
DeleteOldPart_New(p) == DeletePartObject(p, "delete_old", p, "done")

\* remove_old_oid_probable_record, the task before delete_new_object and the
\* one after delete_old_object, builds its key from the new oid with a size
\* prefix; the record was written without one, so none is removed.
DeleteOldPart(p) == DeletePartObject(p, "delete_old", old[p], "done")
DeleteNewPart(p) == DeletePartObject(p, "delete_new", p, "rollback_new")

PartStep(p) ==
    \/ FetchMultipartMetadata(p) \/ FetchPartInfo(p) \/ CreatePartObject(p)
    \/ AddPartOidToProbableDeadOidList(p) \/ StreamPartData(p)
    \/ SavePartMetadata(p) \/ MarkOldPart(p)
    \/ PartLeakCheck(p) \/ RemoveNewPartRecord(p) \/ DeleteOldPart(p)
    \/ MarkNewPart(p) \/ DeleteNewPart(p) \/ RollbackNewPartRecord(p)
=============================================================================
