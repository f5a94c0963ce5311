--------------------------- MODULE S3DeleteObject ---------------------------
(***************************************************************************)
(* DELETE of a simple object: S3DeleteObjectAction and                     *)
(* S3ObjectMetadata::remove.  The object list entry is removed by name,    *)
(* whatever oid it holds by then.                                          *)
(***************************************************************************)
EXTENDS S3Store

DeleteLabels ==
    {"idle", "add_probable", "remove_object", "remove_version", "mark_oid",
     "delete_object", "remove_probable", "done"}

DeleteStates ==
    {"empty", "validationFailed", "probableEntryRecordFailed",
     "metadataDeleted", "metadataDeleteFailed"}

Finish(d, s) ==
    /\ SetState(d, s)
    /\ GoTo(d, "done")
    /\ UNCHANGED <<tgt, overlap, stopped>>

FetchObjectToDelete(d) ==
    /\ pc[d] = "idle"
    /\ objList[ObjName[d]] # NoOid
    /\ StartRequest(d, objList[ObjName[d]], "add_probable")
    /\ UNCHANGED <<motr, bdel>>

\* The object does not exist, or its metadata cannot be read.
RejectDelete(d) ==
    /\ pc[d] = "idle"
    /\ Finish(d, "validationFailed")
    /\ UNCHANGED <<motr, bdel>>

PopulateProbableDeadOidList(d) ==
    /\ pc[d] = "add_probable"
    /\ \/ /\ PutRecs({ObjKey(tgt[d])}, FALSE)
          /\ GoTo(d, "remove_object")
          /\ UNCHANGED <<st, tgt, overlap, stopped>>
       \/ /\ MayFail("delete_add_probable")
          /\ Finish(d, "probableEntryRecordFailed")
          /\ UNCHANGED pdi
    /\ UNCHANGED <<stored, objList, verList, bdel>>

\* Mutant: a failed removal is cleaned up like a successful one.
RemoveObjectMetadata_IgnoresFailure(d) ==
    /\ pc[d] = "remove_object"
    /\ \/ objList' = [objList EXCEPT ![ObjName[d]] = NoOid]
       \/ MayFail("remove_object") /\ UNCHANGED objList
    /\ GoTo(d, "remove_version")
    /\ UNCHANGED <<stored, verList, pdi, st, tgt, overlap, stopped, bdel>>

\* Deleting a key that is not in the index fails.
RemoveObjectMetadata(d) ==
    /\ pc[d] = "remove_object"
    /\ \/ /\ objList[ObjName[d]] # NoOid
          /\ objList' = [objList EXCEPT ![ObjName[d]] = NoOid]
          /\ GoTo(d, "remove_version")
          /\ UNCHANGED st
       \/ /\ objList[ObjName[d]] = NoOid \/ MayFail("remove_object")
          /\ SetState(d, "metadataDeleteFailed")
          /\ GoTo(d, "remove_probable")
          /\ UNCHANGED objList
    /\ UNCHANGED <<stored, verList, pdi, tgt, overlap, stopped, bdel>>

\* A failure counts as success; then the response is sent.
RemoveVersionMetadata(d) ==
    /\ pc[d] = "remove_version"
    /\ \/ verList' = [verList EXCEPT ![VersionKey[tgt[d]]] = NoOid]
       \/ MayFail("remove_version") /\ UNCHANGED verList
    /\ SetState(d, "metadataDeleted")
    /\ GoTo(d, "mark_oid")
    /\ UNCHANGED <<stored, objList, pdi, tgt, overlap, stopped, bdel>>

MarkOidForDeletion(d) ==
    /\ pc[d] = "mark_oid"
    /\ \/ PutRecs({ObjKey(tgt[d])}, TRUE)
       \/ MayFail("mark_oid") /\ UNCHANGED pdi
    /\ GoTo(d, "delete_object")
    /\ UNCHANGED <<stored, objList, verList, st, tgt, overlap, stopped, bdel>>

DeleteObject(d) ==
    /\ pc[d] = "delete_object"
    /\ \/ /\ ~DelayedDelete
          /\ tgt[d] \in stored
          /\ stored' = stored \ {tgt[d]}
          /\ GoTo(d, "remove_probable")
       \/ /\ DelayedDelete \/ tgt[d] \notin stored \/ MayFail("delete_object")
          /\ GoTo(d, "done")
          /\ UNCHANGED stored
    /\ UNCHANGED <<objList, verList, pdi, st, tgt, overlap, stopped, bdel>>

RemoveProbableRecord(d) ==
    /\ pc[d] = "remove_probable"
    /\ \/ DeleteRecs({ObjKey(tgt[d])})
       \/ MayFail("remove_probable") /\ UNCHANGED pdi
    /\ GoTo(d, "done")
    /\ UNCHANGED <<stored, objList, verList, st, tgt, overlap, stopped, bdel>>

\* Action::next finds the client gone while the state is still empty.
DeleteClientGone(d) ==
    /\ pc[d] \in {"add_probable", "remove_object"}
    /\ Finish(d, "empty")
    /\ UNCHANGED <<motr, bdel>>

DeleteStep(d) ==
    \/ FetchObjectToDelete(d) \/ RejectDelete(d)
    \/ PopulateProbableDeadOidList(d) \/ RemoveObjectMetadata(d)
    \/ RemoveVersionMetadata(d) \/ MarkOidForDeletion(d)
    \/ DeleteObject(d) \/ RemoveProbableRecord(d) \/ DeleteClientGone(d)
=============================================================================
