------------------------ MODULE MultipartRecovery ------------------------
(***************************************************************************)
(* ObjectRecoveryValidator for the records of multipart uploads: one       *)
(* consumer that processes one aged record at a time.  BackgroundDelete    *)
(* has the listing, the message bus and the redelivery of messages.        *)
(***************************************************************************)
EXTENDS MultipartStore

NoJob == [step |-> "idle"]
Job(step, k, rec, parts) == [step |-> step, key |-> k, rec |-> rec, parts |-> parts]
DoJob(step) == bd' = [bd EXCEPT !.step = step]

\* The part numbers a record leads to in the extended metadata index.
PartsOfRec(k, rec) ==
    CASE rec.kind = "parent" -> Part
      [] rec.kind = "ext"    -> {PartNumber[LeakOid(k)]}
      [] OTHER               -> {}

\* process_object_leak: a record with force_delete names something dead.
\* The record of a part that is not forced has neither an extended key nor a
\* version key, so nothing is deleted and the record stays.
ProcessResults(k) ==
    LET rec == pdi[k]
        step == CASE rec.forced /\ rec.kind = "parent" -> "version"
                  [] rec.forced /\ rec.kind # "parent" -> "object"
                  [] ~rec.forced /\ rec.kind = "ext"   -> "parts"
                  [] OTHER                             -> "compare"
    IN  /\ bd = NoJob
        /\ Aged(k)
        /\ rec.forced \/ rec.kind # "put"
        /\ bd' = Job(step, k, rec, PartsOfRec(k, rec))
        /\ UNCHANGED <<motr, reqs>>

\* Mutant: the record's oid is not compared with the live one.
IsLive_Never(k) == FALSE

\* The live oid for a version, the entry of the part list index for a part.
IsLive(k) == objList # NoVer /\ OidOf(objList) = LeakOid(k)
PartEntry(k) == partIdx[UploadOf[LeakOid(k)]][PartNumber[LeakOid(k)]]

CompareWithLive ==
    LET k == bd.key
        rec == bd.rec
        step == CASE rec.kind = "parent" -> IF IsLive(k) THEN "record" ELSE "version"
                  [] rec.kind = "simple" -> IF IsLive(k) THEN "record" ELSE "object"
                  [] rec.kind = "check"  -> IF PartEntry(k) \in {NoOid, LeakOid(k)}
                                            THEN "record" ELSE "object"
                  [] rec.kind = "abort"  -> IF PartEntry(k) = LeakOid(k)
                                            THEN "record" ELSE "give_up"
    IN  /\ bd.step = "compare"
        /\ bd' = IF step = "give_up" THEN NoJob ELSE [bd EXCEPT !.step = step]
        /\ UNCHANGED <<motr, reqs>>

DeleteObjectFromStorage ==
    /\ bd.step = "object"
    /\ stored' = stored \ {LeakOid(bd.key)}
    /\ DoJob(IF bd.rec.kind = "simple" THEN "version" ELSE "record")
    /\ UNCHANGED <<mp, idx, partIdx, objList, verList, ext, pdi, reqs>>

DeleteVersionEntry ==
    /\ bd.step = "version"
    /\ verList' = verList \ {bd.rec.ver}
    /\ DoJob(IF bd.rec.kind = "simple" THEN "record" ELSE "parts")
    /\ UNCHANGED <<stored, mp, idx, partIdx, objList, ext, pdi, reqs>>

\* del_obj_from_extended_index: the entry is read, then its object is
\* deleted, then the entry.
NextPart == Min(bd.parts)
DelObjFromExtendedIndex ==
    /\ bd.step = "parts"
    /\ bd.parts # {}
    /\ stored' = stored \ {ext[bd.rec.ver][NextPart]}
    /\ DoJob("entry")
    /\ UNCHANGED <<mp, idx, partIdx, objList, verList, ext, pdi, reqs>>
DelExtendedEntry ==
    /\ bd.step = "entry"
    /\ ext' = [ext EXCEPT ![bd.rec.ver][NextPart] = NoOid]
    /\ bd' = [bd EXCEPT !.parts = @ \ {NextPart}, !.step = "parts"]
    /\ UNCHANGED <<stored, mp, idx, partIdx, objList, verList, pdi, reqs>>

DeleteRecord ==
    /\ \/ bd.step = "record"
       \/ bd.step = "parts" /\ bd.parts = {}
    /\ DeleteRecs({bd.key})
    /\ bd' = NoJob
    /\ UNCHANGED <<stored, mp, idx, partIdx, objList, verList, ext, reqs>>

RecoveryStep ==
    \/ \E k \in DOMAIN pdi : ProcessResults(k)
    \/ CompareWithLive \/ DeleteObjectFromStorage \/ DeleteVersionEntry
    \/ DelObjFromExtendedIndex \/ DelExtendedEntry \/ DeleteRecord
=============================================================================
