------------------------- MODULE MultipartComplete -------------------------
(***************************************************************************)
(* POST ?uploadId: S3PostCompleteAction.  The object it overwrites is the  *)
(* one that is live when it starts.  set_abort_multipart is called nowhere *)
(* in the code, so the tasks of a failed validation that would delete the  *)
(* parts are never run and are not modelled.                               *)
(***************************************************************************)
EXTENDS MultipartStore

Overwritten(c) == old[c]
OverwritesParts(c) == Overwritten(c) \in Complete

\* The tasks of the request after the response has been sent.
CompleteCleanup == {"mark_old", "delete_old", "remove_version", "remove_ext",
                    "remove_records", "leak_check", "finish"}

FetchObjectInfo(c) ==
    /\ MayStart(c)
    /\ old' = [old EXCEPT ![c] = objList]
    /\ Go(c, IF objList \in Complete THEN "fetch_ext" ELSE "fetch_upload")
    /\ UNCHANGED <<motr, seen, was, todo, stopped, bd>>

\* The listing of the extended entries fails when none is left.
FetchExtObjectInfo(c) ==
    /\ At(c, "fetch_ext")
    /\ was' = [was EXCEPT ![c] = ext[old[c]]]
    /\ Go(c, IF ext[old[c]] = NoParts THEN "done" ELSE "fetch_upload")
    /\ UNCHANGED <<motr, old, seen, todo, stopped, bd>>

FetchMultipartInfo(c) ==
    /\ At(c, "fetch_upload")
    /\ Go(c, IF UploadOf[c] \in mp THEN "fetch_parts" ELSE "done")
    /\ UNCHANGED <<motr, old, seen, was, todo, stopped, bd>>

\* validate_parts finds all parts that are asked for, and there are as many parts
\* as the last number that is asked for says.
LastAsked(c) == CHOOSE n \in Asked[c] : \A m \in Asked[c] : m <= n
PartsAreValid(c, listed) ==
    Asked[c] \subseteq NumbersOf(listed) /\ Cardinality(NumbersOf(listed)) = LastAsked(c)

GetNextPartsInfo(c) ==
    LET listed == partIdx[UploadOf[c]]
    IN  /\ At(c, "fetch_parts")
        /\ seen' = [seen EXCEPT ![c] = listed]
        /\ Go(c, IF ~PartsAreValid(c, listed) THEN "done"
                 ELSE IF Overwritten(c) = NoVer THEN "save_version"
                 ELSE "add_probable")
        /\ UNCHANGED <<motr, old, was, todo, stopped, bd>>

\* One record for every part of the old version and one for the version
\* itself, or one for a simple object.
ParentKey(c) == OldKey(OidOf(old[c]), UploadOf[c])
OldPartKeys(c) == {ObjKey(was[c][n]) : n \in NumbersOf(was[c])}
OldRecKeys(c) == {ParentKey(c)} \cup OldPartKeys(c)
OldRecs(c, forced) ==
    [k \in OldRecKeys(c) |->
        Rec(c, IF k # ParentKey(c) THEN "ext"
            ELSE IF OverwritesParts(c) THEN "parent" ELSE "simple",
            forced, old[c])]

AddObjectOidToProbableDeadOidList(c) ==
    /\ At(c, "add_probable")
    /\ \/ PutRecs(OldRecs(c, FALSE)) /\ Go(c, "save_version")
       \/ /\ MayFail("add_probable", c)
          /\ UNCHANGED pdi
          /\ Go(c, "done")
    /\ UNCHANGED <<stored, mp, idx, partIdx, objList, verList, ext>>
    /\ UNCHANGED <<old, seen, was, todo, stopped, bd>>

\* S3ObjectMetadata::save writes the version entry, the extended entries and
\* the object list entry in this order.  A failure ends the request: its
\* clean up has nothing but remove_new_oid_probable_record, which returns
\* without calling next, so the action is never done.
SaveVersion(c) ==
    /\ At(c, "save_version")
    /\ \/ verList' = verList \cup {c} /\ Go(c, "save_ext")
       \/ /\ MayFail("save", c) \/ Leaves("save", c)
          /\ UNCHANGED verList
          /\ Go(c, "failed")
    /\ UNCHANGED <<stored, mp, idx, partIdx, objList, ext, pdi>>
    /\ UNCHANGED <<old, seen, was, todo, stopped, bd>>

SaveExtended(c) ==
    /\ At(c, "save_ext")
    /\ \/ ext' = [ext EXCEPT ![c] = seen[c]] /\ Go(c, "save_object")
       \/ MayFail("save", c) /\ UNCHANGED ext /\ Go(c, "failed")
    /\ UNCHANGED <<stored, mp, idx, partIdx, objList, verList, pdi>>
    /\ UNCHANGED <<old, seen, was, todo, stopped, bd>>


SaveObject(c) ==
    /\ At(c, "save_object")
    /\ \/ objList' = c /\ Go(c, "delete_upload")
       \/ MayFail("save", c) /\ UNCHANGED objList /\ Go(c, "failed")
    /\ UNCHANGED <<stored, mp, idx, partIdx, verList, ext, pdi>>
    /\ UNCHANGED <<old, seen, was, todo, stopped, bd>>

\* A client that has left ends the request in metadataSaved.
DeleteMultipartMetadata(c) ==
    /\ At(c, "delete_upload")
    /\ \/ mp' = mp \ {UploadOf[c]} /\ Go(c, "delete_index")
       \/ MayFail("delete_upload", c) /\ UNCHANGED mp /\ Go(c, "delete_index")
       \/ Leaves("delete_upload", c) /\ UNCHANGED mp /\ Go(c, "stuck")
    /\ UNCHANGED <<stored, idx, partIdx, objList, verList, ext, pdi>>
    /\ UNCHANGED <<old, seen, was, todo, stopped, bd>>

\* What follows the response: the clean up of the old version, if there is
\* one, and the leak check.
DeletePartListIndex(c) ==
    LET u == UploadOf[c]
    IN  /\ At(c, "delete_index")
        /\ \/ /\ idx' = idx \ {u}
              /\ partIdx' = [partIdx EXCEPT ![u] = NoParts]
           \/ MayFail("delete_index", c) /\ UNCHANGED <<idx, partIdx>>
        /\ Go(c, IF Overwritten(c) = NoVer THEN "leak_check" ELSE "mark_old")
        /\ UNCHANGED <<stored, mp, objList, verList, ext, pdi>>
        /\ UNCHANGED <<old, seen, was, todo, stopped, bd>>

\* Clean up tasks that write records go on when the write fails.
CompleteRecords(c, label, next, write) ==
    /\ At(c, label)
    /\ write \/ (MayFail(label, c) /\ UNCHANGED pdi)
    /\ Go(c, next)
    /\ todo' = [todo EXCEPT ![c] = NumbersOf(was[c])]
    /\ UNCHANGED <<stored, mp, idx, partIdx, objList, verList, ext>>
    /\ UNCHANGED <<old, seen, was, stopped, bd>>

MarkOldOidForDeletion(c) ==
    CompleteRecords(c, "mark_old", "delete_old", PutRecs(OldRecs(c, TRUE)))

\* The parts of the old version from the last to the first.  No part of a
\* simple object is listed, which leaves it to background delete.
DeleteOldObject(c) ==
    /\ At(c, "delete_old")
    /\ \/ /\ todo[c] = {}
          /\ Go(c, "leak_check")
          /\ UNCHANGED <<stored, todo>>
       \/ /\ todo[c] # {}
          /\ stored' = stored \ {was[c][Max(todo[c])]}
          /\ todo' = [todo EXCEPT ![c] = @ \ {Max(@)}]
          /\ Go(c, IF Cardinality(todo[c]) = 1 THEN "remove_version"
                                               ELSE "delete_old")
       \/ /\ todo[c] # {}
          /\ MayFail("delete_old", c)
          /\ Go(c, "leak_check")
          /\ UNCHANGED <<stored, todo>>
    /\ UNCHANGED <<mp, idx, partIdx, objList, verList, ext, pdi>>
    /\ UNCHANGED <<old, seen, was, stopped, bd>>

\* The version removed is the one that was live when the upload started.
RemoveOldObjectVersionMetadata(c) ==
    /\ At(c, "remove_version")
    /\ \/ verList' = verList \ {old[UploadOf[c]]}
       \/ MayFail("remove_version", c) /\ UNCHANGED verList
    /\ Go(c, "remove_ext")
    /\ UNCHANGED <<stored, mp, idx, partIdx, objList, ext, pdi>>
    /\ UNCHANGED <<old, seen, was, todo, stopped, bd>>

RemoveOldFragments(c) ==
    /\ At(c, "remove_ext")
    /\ \/ ext' = [ext EXCEPT ![old[c]] = NoParts]
       \/ MayFail("remove_ext", c) /\ UNCHANGED ext
    /\ Go(c, "remove_records")
    /\ UNCHANGED <<stored, mp, idx, partIdx, objList, verList, pdi>>
    /\ UNCHANGED <<old, seen, was, todo, stopped, bd>>

RemoveOldOidProbableRecord(c) ==
    CompleteRecords(c, "remove_records", "leak_check", DeleteRecs(OldRecKeys(c)))

\* Mutant: no record for the leak check.
AddOidForParallelLeakCheck_None(c) ==
    CompleteRecords(c, "leak_check", "stuck", UNCHANGED pdi)

AddOidForParallelLeakCheck(c) ==
    CompleteRecords(c, "leak_check", "stuck",
        PutRecs([k \in {ChkKey(UploadOf[c])} |-> Rec(c, "parent", FALSE, c)]))

CompleteStep(c) ==
    \/ FetchObjectInfo(c) \/ FetchExtObjectInfo(c) \/ FetchMultipartInfo(c)
    \/ GetNextPartsInfo(c) \/ AddObjectOidToProbableDeadOidList(c)
    \/ SaveVersion(c) \/ SaveExtended(c) \/ SaveObject(c)
    \/ DeleteMultipartMetadata(c) \/ DeletePartListIndex(c)
    \/ MarkOldOidForDeletion(c) \/ DeleteOldObject(c)
    \/ RemoveOldObjectVersionMetadata(c) \/ RemoveOldFragments(c)
    \/ RemoveOldOidProbableRecord(c) \/ AddOidForParallelLeakCheck(c)
=============================================================================
