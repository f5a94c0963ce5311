------------------------- MODULE MultipartInitiate -------------------------
(***************************************************************************)
(* POST ?uploads: S3PostMultipartObjectAction.  A failure, or a client     *)
(* that leaves, rolls back the creation of the part list index.            *)
(***************************************************************************)
EXTENDS MultipartStore

CheckBucketObjectState(u) ==
    /\ Begins(u)
    /\ old' = [old EXCEPT ![u] = objList]
    /\ Go(u, "create_index")
    /\ UNCHANGED <<motr, seen, was, todo, stopped, bd>>

CreatePartMetaIndex(u) ==
    /\ At(u, "create_index")
    /\ \/ idx' = idx \cup {u} /\ Go(u, "save_upload")
       \/ MayFail("create_index", u) /\ UNCHANGED idx /\ Go(u, "done")
    /\ UNCHANGED <<stored, mp, partIdx, objList, verList, ext, pdi>>
    /\ UNCHANGED <<old, seen, was, todo, stopped, bd>>

SaveUploadMetadata(u) ==
    /\ At(u, "save_upload")
    /\ \/ mp' = mp \cup {u} /\ Go(u, "done")
       \/ /\ MayFail("save_upload", u) \/ Leaves("save_upload", u)
          /\ UNCHANGED mp
          /\ Go(u, "rollback_index")
    /\ UNCHANGED <<stored, idx, partIdx, objList, verList, ext, pdi>>
    /\ UNCHANGED <<old, seen, was, todo, stopped, bd>>

RollbackCreatePartMetaIndex(u) ==
    /\ At(u, "rollback_index")
    /\ \/ idx' = idx \ {u}
       \/ MayFail("rollback_index", u) /\ UNCHANGED idx
    /\ Go(u, "done")
    /\ UNCHANGED <<stored, mp, partIdx, objList, verList, ext, pdi>>
    /\ UNCHANGED <<old, seen, was, todo, stopped, bd>>

InitiateStep(u) ==
    \/ CheckBucketObjectState(u) \/ CreatePartMetaIndex(u)
    \/ SaveUploadMetadata(u) \/ RollbackCreatePartMetaIndex(u)
=============================================================================
