---------------------------- MODULE S3PutObject ----------------------------
(***************************************************************************)
(* PUT of a simple object: S3PutObjectAction and the parts of              *)
(* S3ObjectAction and S3ObjectMetadata it runs through.  One action per    *)
(* asynchronous Motr operation: the operation takes effect and its         *)
(* callback runs up to the launch of the next one.                         *)
(*                                                                         *)
(* S3PutChunkUploadObjectAction, the PUT of a signed body, goes through    *)
(* the same steps with code of its own; what it does otherwise (a failed   *)
(* save of the metadata, its assertions) is in UploadStream.               *)
(***************************************************************************)
EXTENDS S3Store

PutLabels ==
    {"idle", "create_object", "add_probable", "stream", "save_version",
     "save_object", "respond", "mark_old", "leak_check", "remove_new",
     "delete_old", "remove_old_version", "remove_old", "mark_new",
     "rollback_old", "delete_new", "rollback_new", "done"}

PutStates ==
    {"empty", "validationFailed", "probableEntryRecordFailed",
     "newObjOidCreationFailed", "newObjOidCreated", "writeComplete",
     "writeFailed", "md5ValidationFailed", "metadataSaved", "metadataSaveFailed",
     "completed"}

RollbackStates ==
    {"newObjOidCreated", "writeFailed", "md5ValidationFailed",
     "metadataSaveFailed"}

HasOld(p) == tgt[p] # NoOid

OldKeys(p) == IF HasOld(p) THEN {OldKey(tgt[p], p)} ELSE {}

(***************************************************************************)
(* startcleanup: the first task of the clean up that the state asks for.   *)
(***************************************************************************)
CleanupTask(p, s) ==
    CASE s = "completed" /\ HasOld(p)  -> "mark_old"
      [] s = "completed" /\ ~HasOld(p) -> "leak_check"
      [] s \in RollbackStates          -> "mark_new"
      [] OTHER                         -> "done"

StartCleanup(p, s) ==
    /\ SetState(p, s)
    /\ GoTo(p, CleanupTask(p, s))
    /\ UNCHANGED <<tgt, overlap, stopped>>

(***************************************************************************)
(* The request up to its response.                                         *)
(***************************************************************************)
FetchObjectInfo(p) ==
    /\ pc[p] = "idle"
    /\ StartRequest(p, objList[ObjName[p]], "create_object")
    /\ UNCHANGED <<motr, bdel>>

\* Bucket or object metadata cannot be read, or the request is not valid;
\* two of the checks of validate_put_request leave the state empty.
RejectPut(p) ==
    /\ pc[p] = "idle"
    /\ \E s \in {"empty", "validationFailed"} : StartCleanup(p, s)
    /\ UNCHANGED <<motr, bdel>>

CreateObject(p) ==
    /\ pc[p] = "create_object"
    /\ \/ /\ stored' = stored \cup {p}
          /\ SetState(p, "newObjOidCreated")
          /\ GoTo(p, "add_probable")
          /\ UNCHANGED <<tgt, overlap, stopped>>
       \/ /\ MayFail("create_object")
          /\ StartCleanup(p, "newObjOidCreationFailed")
          /\ UNCHANGED stored
    /\ UNCHANGED <<objList, verList, pdi, bdel>>

\* Mutant: the records of a running request already have force_delete set.
AddObjectOidToProbableDeadOidList_Forced(p) ==
    /\ pc[p] = "add_probable"
    /\ PutRecs(OldKeys(p) \cup {ObjKey(p)}, TRUE)
    /\ GoTo(p, "stream")
    /\ UNCHANGED <<st, tgt, overlap, stopped>>
    /\ UNCHANGED <<stored, objList, verList, bdel>>

AddObjectOidToProbableDeadOidList(p) ==
    /\ pc[p] = "add_probable"
    /\ \/ /\ PutRecs(OldKeys(p) \cup {ObjKey(p)}, FALSE)
          /\ GoTo(p, "stream")
          /\ UNCHANGED <<st, tgt, overlap, stopped>>
       \/ /\ MayFail("add_probable")
          /\ StartCleanup(p, "probableEntryRecordFailed")
          /\ UNCHANGED pdi
    /\ UNCHANGED <<stored, objList, verList, bdel>>

\* initiate_data_streaming up to the last write; an empty object has none.
StreamData(p) ==
    /\ pc[p] = "stream"
    /\ \/ /\ SetState(p, IF p \in ZeroSize THEN st[p] ELSE "writeComplete")
          /\ GoTo(p, "save_version")
          /\ UNCHANGED <<tgt, overlap, stopped>>
       \/ /\ MayFail("stream")
          /\ p \notin ZeroSize
          /\ StartCleanup(p, "writeFailed")
    /\ UNCHANGED <<motr, bdel>>

SaveVersionMetadata(p) ==
    /\ pc[p] = "save_version"
    /\ \/ /\ verList' = [verList EXCEPT ![VersionKey[p]] = p]
          /\ GoTo(p, "save_object")
          /\ UNCHANGED <<st, tgt, overlap, stopped>>
       \/ /\ MayFail("content_md5")
          /\ StartCleanup(p, "md5ValidationFailed")
          /\ UNCHANGED verList
       \/ /\ MayFail("save_version")
          /\ StartCleanup(p, "metadataSaveFailed")
          /\ UNCHANGED verList
    /\ UNCHANGED <<stored, objList, pdi, bdel>>

SaveMetadata(p) ==
    /\ pc[p] = "save_object"
    /\ \/ /\ objList' = [objList EXCEPT ![ObjName[p]] = p]
          /\ SetState(p, "metadataSaved")
          /\ GoTo(p, "respond")
          /\ UNCHANGED <<tgt, overlap, stopped>>
       \/ /\ MayFail("save_object")
          /\ StartCleanup(p, "metadataSaveFailed")
          /\ UNCHANGED objList
    /\ UNCHANGED <<stored, verList, pdi, bdel>>

SendResponse(p) ==
    /\ pc[p] = "respond"
    /\ StartCleanup(p, "completed")
    /\ UNCHANGED <<motr, bdel>>

\* Action::next finds the client gone before it runs the next task, or a
\* read error or read timeout ends the streaming of the data.
PutClientGone(p) ==
    /\ pc[p] \in {"create_object", "stream", "save_version", "respond"}
    /\ StartCleanup(p, st[p])
    /\ UNCHANGED <<motr, bdel>>

(***************************************************************************)
(* Clean up after a success.  Every step goes on to the next one whether   *)
(* its operation succeeds or fails; only the deletion of the old object    *)
(* and of its record depend on the step before.                            *)
(***************************************************************************)
CleanupStep(p, label, next, effect) ==
    /\ pc[p] = label
    /\ effect \/ (MayFail(label) /\ UNCHANGED <<verList, pdi>>)
    /\ GoTo(p, next)
    /\ UNCHANGED <<stored, objList, st, tgt, overlap, stopped, bdel>>

\* Mutant: an overwrite leaves out the record of the parallel leak check.
MarkOldOidForDeletion_NoLeakCheck(p) ==
    CleanupStep(p, "mark_old", "remove_new",
                PutRecs(OldKeys(p), TRUE) /\ UNCHANGED verList)

MarkOldOidForDeletion(p) ==
    CleanupStep(p, "mark_old", "leak_check",
                PutRecs(OldKeys(p), TRUE) /\ UNCHANGED verList)

AddOidForParallelLeakCheck(p) ==
    CleanupStep(p, "leak_check", "remove_new",
                PutRecs({ChkKey(p)}, FALSE) /\ UNCHANGED verList)

RemoveNewOidProbableRecord(p) ==
    CleanupStep(p, "remove_new", IF HasOld(p) THEN "delete_old" ELSE "done",
                DeleteRecs({ObjKey(p)}) /\ UNCHANGED verList)

\* Mutant: the record goes although the object could not be deleted.
DeleteOldObject_IgnoresFailure(p) ==
    /\ pc[p] = "delete_old"
    /\ stored' = stored \ {tgt[p]} \/ (MayFail("delete_old") /\ UNCHANGED stored)
    /\ GoTo(p, "remove_old_version")
    /\ UNCHANGED <<objList, verList, pdi, st, tgt, overlap, stopped, bdel>>

DeleteOldObject(p) ==
    /\ pc[p] = "delete_old"
    /\ \/ /\ ~DelayedDelete
          /\ tgt[p] \in stored
          /\ stored' = stored \ {tgt[p]}
          /\ GoTo(p, "remove_old_version")
       \/ /\ DelayedDelete \/ tgt[p] \notin stored \/ MayFail("delete_old")
          /\ GoTo(p, "done")
          /\ UNCHANGED stored
    /\ UNCHANGED <<objList, verList, pdi, st, tgt, overlap, stopped, bdel>>

\* Mutant: the version entry of the new object is removed.
RemoveOldObjectVersionMetadata_OfNew(p) ==
    CleanupStep(p, "remove_old_version", "remove_old",
                /\ verList' = [verList EXCEPT ![VersionKey[p]] = NoOid]
                /\ UNCHANGED pdi)

RemoveOldObjectVersionMetadata(p) ==
    CleanupStep(p, "remove_old_version", "remove_old",
                /\ verList' = [verList EXCEPT ![VersionKey[tgt[p]]] = NoOid]
                /\ UNCHANGED pdi)

RemoveOldOidProbableRecord(p) ==
    CleanupStep(p, "remove_old", "done",
                DeleteRecs(OldKeys(p)) /\ UNCHANGED verList)

(***************************************************************************)
(* Clean up after a failure: roll the new object back.                     *)
(***************************************************************************)
MarkNewOidForDeletion(p) ==
    CleanupStep(p, "mark_new",
                IF HasOld(p) THEN "rollback_old" ELSE "delete_new",
                PutRecs({ObjKey(p)}, TRUE) /\ UNCHANGED verList)

RollbackOldOidProbableRecord(p) ==
    CleanupStep(p, "rollback_old", "delete_new",
                DeleteRecs(OldKeys(p)) /\ UNCHANGED verList)

DeleteNewObject(p) ==
    /\ pc[p] = "delete_new"
    /\ \/ /\ p \in stored
          /\ stored' = stored \ {p}
          /\ GoTo(p, "rollback_new")
       \/ /\ p \notin stored \/ MayFail("delete_new")
          /\ GoTo(p, "done")
          /\ UNCHANGED stored
    /\ UNCHANGED <<objList, verList, pdi, st, tgt, overlap, stopped, bdel>>

RollbackNewOidProbableRecord(p) ==
    CleanupStep(p, "rollback_new", "done",
                DeleteRecs({ObjKey(p)}) /\ UNCHANGED verList)

PutStep(p) ==
    \/ FetchObjectInfo(p) \/ RejectPut(p) \/ CreateObject(p)
    \/ AddObjectOidToProbableDeadOidList(p) \/ StreamData(p)
    \/ SaveVersionMetadata(p) \/ SaveMetadata(p) \/ SendResponse(p)
    \/ PutClientGone(p)
    \/ MarkOldOidForDeletion(p) \/ AddOidForParallelLeakCheck(p)
    \/ RemoveNewOidProbableRecord(p) \/ DeleteOldObject(p)
    \/ RemoveOldObjectVersionMetadata(p) \/ RemoveOldOidProbableRecord(p)
    \/ MarkNewOidForDeletion(p) \/ RollbackOldOidProbableRecord(p)
    \/ DeleteNewObject(p) \/ RollbackNewOidProbableRecord(p)
=============================================================================
