-------------------------- MODULE MultipartAbort --------------------------
(***************************************************************************)
(* DELETE ?uploadId: S3AbortMultipartAction.                               *)
(***************************************************************************)
EXTENDS MultipartStore

GetMultipartMetadata(a) ==
    /\ MayStart(a)
    /\ Go(a, IF UploadOf[a] \in mp THEN "fetch_parts" ELSE "done")
    /\ UNCHANGED <<motr, old, seen, was, todo, stopped, bd>>

GetNextParts(a) ==
    /\ At(a, "fetch_parts")
    /\ seen' = [seen EXCEPT ![a] = partIdx[UploadOf[a]]]
    /\ Go(a, IF seen'[a] = NoParts THEN "delete_upload" ELSE "add_probable")
    /\ UNCHANGED <<motr, old, was, todo, stopped, bd>>

AbortKeys(a) == {ObjKey(seen[a][n]) : n \in NumbersOf(seen[a])}
AbortRecs(a, forced) == [k \in AbortKeys(a) |-> Rec(a, "abort", forced, NoVer)]

\* Neither a failed record nor a client that has left is cleaned up after.
AddPartsOidsToProbableDeadOidList(a) ==
    /\ At(a, "add_probable")
    /\ \/ PutRecs(AbortRecs(a, FALSE)) /\ Go(a, "delete_upload")
       \/ /\ MayFail("add_probable", a) \/ Leaves("add_probable", a)
          /\ UNCHANGED pdi
          /\ Go(a, "done")
    /\ UNCHANGED <<stored, mp, idx, partIdx, objList, verList, ext>>
    /\ UNCHANGED <<old, seen, was, todo, stopped, bd>>

\* When the entry cannot be removed the upload is answered with an error;
\* remove_probable_records has no effect in this state.
AbortDeleteMultipartMetadata(a) ==
    /\ At(a, "delete_upload")
    /\ \/ mp' = mp \ {UploadOf[a]} /\ Go(a, "delete_index")
       \/ /\ MayFail("delete_upload", a) \/ Leaves("delete_upload", a)
          /\ UNCHANGED mp
          /\ Go(a, "done")
    /\ UNCHANGED <<stored, idx, partIdx, objList, verList, ext, pdi>>
    /\ UNCHANGED <<old, seen, was, todo, stopped, bd>>

\* A client that leaves before the response is sent has the clean up run in
\* the state partsListIndexDeleted, the only one in which
\* remove_probable_records removes the records; send_response_to_s3_client
\* sets the state to completed.
DeletePartIndexWithParts(a) ==
    LET u == UploadOf[a]
    IN  /\ At(a, "delete_index")
        /\ \/ /\ idx' = idx \ {u}
              /\ partIdx' = [partIdx EXCEPT ![u] = NoParts]
              /\ \/ Go(a, "mark_parts")
                 \/ Leaves("respond", a) /\ Go(a, "mark_left")
           \/ /\ MayFail("delete_index", a) \/ Leaves("delete_index", a)
              /\ UNCHANGED <<idx, partIdx>>
              /\ Go(a, "mark_parts")
        /\ UNCHANGED <<stored, mp, objList, verList, ext, pdi>>
        /\ UNCHANGED <<old, seen, was, todo, stopped, bd>>

AfterParts(label) == IF label = "delete_left" THEN "remove_records" ELSE "done"

MarkOidsForDeletion(a, label, next) ==
    /\ At(a, label)
    /\ PutRecs(AbortRecs(a, TRUE)) \/ (MayFail("mark_parts", a) /\ UNCHANGED pdi)
    /\ todo' = [todo EXCEPT ![a] = NumbersOf(seen[a])]
    /\ Go(a, IF seen[a] = NoParts THEN "done" ELSE next)
    /\ UNCHANGED <<stored, mp, idx, partIdx, objList, verList, ext>>
    /\ UNCHANGED <<old, seen, was, stopped, bd>>

\* The last part that is left; a failure ends the clean up.
DeletePart(a, label) ==
    /\ At(a, label)
    /\ \/ /\ stored' = stored \ {seen[a][Max(todo[a])]}
          /\ todo' = [todo EXCEPT ![a] = @ \ {Max(@)}]
          /\ Go(a, IF Cardinality(todo[a]) = 1 THEN AfterParts(label) ELSE label)
       \/ MayFail("delete_part", a) /\ Go(a, "done") /\ UNCHANGED <<stored, todo>>
    /\ UNCHANGED <<mp, idx, partIdx, objList, verList, ext, pdi>>
    /\ UNCHANGED <<old, seen, was, stopped, bd>>

RemoveProbableRecords(a) ==
    /\ At(a, "remove_records")
    /\ DeleteRecs(AbortKeys(a))
    /\ Go(a, "done")
    /\ UNCHANGED <<stored, mp, idx, partIdx, objList, verList, ext>>
    /\ UNCHANGED <<old, seen, was, todo, stopped, bd>>

AbortStep(a) ==
    \/ GetMultipartMetadata(a) \/ GetNextParts(a)
    \/ AddPartsOidsToProbableDeadOidList(a) \/ AbortDeleteMultipartMetadata(a)
    \/ DeletePartIndexWithParts(a)
    \/ MarkOidsForDeletion(a, "mark_parts", "delete_part")
    \/ MarkOidsForDeletion(a, "mark_left", "delete_left")
    \/ DeletePart(a, "delete_part") \/ DeletePart(a, "delete_left")
    \/ RemoveProbableRecords(a)
=============================================================================
