-------------------------- MODULE Multipart_proofs --------------------------
(***************************************************************************)
(* Proofs about multipart uploads, for every set of requests, part number, *)
(* failure, client that leaves and server that stops.  An upload that can  *)
(* still be completed keeps its parts whatever happens.  A live object     *)
(* keeps its parts if no two requests for one upload overlap and the saves *)
(* of a request that overwrites an object succeed; MCFailedComplete shows  *)
(* that it may lose them if a save fails.                                  *)
(*                                                                         *)
(* First each kind of request is shown to take steps of a certain shape,   *)
(* then facts to be stable under every step that moves like that; each     *)
(* request then has a lemma on what it deletes and records, and one on     *)
(* what it knows after its own step.                                       *)
(***************************************************************************)
EXTENDS MultipartUpload, FiniteSetTheorems, WellFoundedInduction, TLAPS

-----------------------------------------------------------------------------
(* Labels.                                                                 *)

UploadLabels == {"idle", "create_index", "save_upload", "rollback_index", "done"}
\* A PUT of a part before its entry is saved, while it is rolled back, and
\* after that.
PreSave == {"idle", "fetch_part", "create_object", "add_probable", "stream", "save_part"}
Rolling == {"mark_new", "delete_new", "rollback_new"}
CleansPart == {"mark_old", "leak_check", "remove_new", "delete_old"}
Saved == CleansPart \cup {"done"}
Saves == {"save_version", "save_ext", "save_object"}
PreComplete == {"idle", "fetch_ext", "fetch_upload", "fetch_parts", "add_probable"} \cup Saves
CompleteLabels ==
    PreComplete \cup {"done", "failed", "delete_upload", "delete_index", "stuck"} \cup CompleteCleanup
\* A DELETE of an upload whose entry is removed.
HasAborted ==
    {"delete_index", "mark_parts", "mark_left", "delete_part", "delete_left", "remove_records"}
AbortLabels == {"idle", "fetch_parts", "add_probable", "delete_upload", "done"} \cup HasAborted

Labels == UploadLabels \cup PreSave \cup Rolling \cup Saved \cup CompleteLabels \cup AbortLabels

TypeInv ==
    /\ mp \subseteq Upload
    /\ partIdx \in [Upload -> PartMap]
    /\ ext \in [Version -> PartMap]
    /\ objList \in Version \cup {NoVer}
    /\ pc \in [Req -> Labels]
    /\ \A u \in Upload : pc[u] \in UploadLabels
    /\ \A p \in PartReq : pc[p] \in PreSave \cup Rolling \cup Saved
    /\ \A c \in Complete : pc[c] \in CompleteLabels
    /\ \A a \in Abort : pc[a] \in AbortLabels
    /\ DOMAIN old = Req
    /\ \A p \in PartReq : old[p] \in PartReq \cup {NoOid}
    /\ \A c \in Complete : old[c] \in Version \cup {NoVer}
    /\ \A c \in Complete : pc[c] = "fetch_ext" => old[c] \in Complete
    /\ seen \in [Complete \cup Abort -> PartMap]
    /\ was \in [Complete -> PartMap]
    /\ todo \in [Complete \cup Abort -> SUBSET Part]

-----------------------------------------------------------------------------
(* The invariant.                                                          *)

\* The entry for p's part number, and p as part n of upload u.
Entry(p) == partIdx[UploadOf[p]][PartNumber[p]]
PartOf(p, u, n) == p \in PartReq /\ UploadOf[p] = u /\ PartNumber[p] = n
\* A list of parts of u whose entries were saved.
IsParts(parts, u) ==
    \A n \in Part : parts[n] # NoOid => PartOf(parts[n], u, n) /\ pc[parts[n]] \in Saved
\* c has become an object, live or since overwritten.
Took(c) == TookLife(c) \/ c \in Past
\* No upload that can still be completed has p.
Spent(p) == p \in PartReq /\ pc[p] \notin PreSave /\ ~(Open(UploadOf[p]) /\ Entry(p) = p)

\* The lists name parts under their upload and number, no object is live
\* that was not completed, and nothing is known of an upload before it is
\* initiated.
ListsAreRight ==
    /\ \A u \in Upload : IsParts(partIdx[u], u)
    /\ \A c \in Complete : IsParts(ext[c], UploadOf[c])
    /\ objList \in Complete => Took(objList)
    /\ \A u \in mp : pc[u] = "done"
    /\ \A r \in Req \ Upload : pc[r] # "idle" => pc[UploadOf[r]] = "done"
    /\ \A c \in Past : pc[c] = "done" /\ UploadOf[c] \notin mp

\* A PUT of a part has its data until its entry is saved; the part that it
\* will delete was replaced.
PartInv(p) ==
    /\ pc[p] \in {"add_probable", "stream", "save_part"} => p \in stored
    /\ old[p] # NoOid =>
        /\ PartOf(old[p], UploadOf[p], PartNumber[p])
        /\ pc[old[p]] \in Saved
        /\ pc[p] \in CleansPart => Spent(old[p])
    /\ pc[p] \in {"mark_old", "delete_old"} => old[p] # NoOid

\* What a complete request has read.
CompleteInv(c) ==
    /\ IsParts(seen[c], UploadOf[c])
    /\ old[c] \in Complete => Took(old[c]) /\ IsParts(was[c], UploadOf[old[c]])
    /\ old[c] \notin Complete \/ pc[c] = "idle" => was[c] = NoParts
    /\ pc[c] = "delete_old" => todo[c] \subseteq NumbersOf(was[c])
    /\ pc[c] \in {"add_probable", "mark_old", "delete_old", "remove_version", "remove_ext",
                  "remove_records"} => old[c] # NoVer
    /\ pc[c] \in {"remove_version", "remove_ext"} => old[c] \in Complete

\* What a DELETE of an upload has read; it deletes parts once the upload is
\* gone.
AbortInv(a) ==
    /\ IsParts(seen[a], UploadOf[a])
    /\ pc[a] \in HasAborted => UploadOf[a] \notin mp
    /\ pc[a] \in {"delete_part", "delete_left"} => todo[a] # {} /\ todo[a] \subseteq NumbersOf(seen[a])

\* Records: what background delete need not check is spent.
Kinds == {"put", "check", "ext", "abort", "parent", "simple"}
RecInv(k, rec) ==
    /\ rec.kind \in Kinds
    /\ rec.kind \in {"put", "check", "ext", "abort"} => LeakOid(k) \in PartReq
    /\ rec.kind = "check" => pc[LeakOid(k)] \in Saved /\ ~rec.forced
    /\ rec.kind \in {"put", "abort", "ext"} /\ rec.forced => Spent(LeakOid(k))
    /\ rec.kind \in {"ext", "parent"} => rec.ver \in Complete /\ Took(rec.ver)
    /\ rec.kind = "simple" => LeakOid(k) \notin PartReq

\* The record in work: an object is deleted once it is known to be spent.
JobInv ==
    bd = NoJob \/
    /\ bd = Job(bd.step, bd.key, bd.rec, bd.parts)
    /\ bd.parts \subseteq Part
    /\ RecInv(bd.key, bd.rec)
    /\ bd.step \in {"object", "version", "parts", "entry", "compare", "record"}
    /\ bd.step = "object" => LeakOid(bd.key) \notin PartReq \/ Spent(LeakOid(bd.key))
    /\ bd.step = "version" => bd.rec.kind \in {"parent", "simple"}
    /\ bd.step \in {"parts", "entry"} => bd.rec.kind \in {"ext", "parent"}
    /\ bd.step = "entry" => bd.parts # {}
    /\ bd.step = "compare" => bd.rec.kind \in {"parent", "simple", "check", "abort"}

RecsInv == \A k \in DOMAIN pdi : RecInv(k, pdi[k])
PartsInv == \A p \in PartReq : PartInv(p)
CompletesInv == \A c \in Complete : CompleteInv(c)
AbortsInv == \A a \in Abort : AbortInv(a)
StoreInv ==
    /\ TypeInv /\ ListsAreRight /\ PartsInv /\ CompletesInv /\ AbortsInv /\ RecsInv /\ JobInv
    /\ UploadPartsStored

-----------------------------------------------------------------------------
(* Live objects.                                                           *)

\* What is asked of clients: between the look-up of a complete request and
\* its end no other request for the upload goes beyond its look-up, and none
\* does once the upload is an object.
Engaged(r) == InFlight(r) /\ pc[r] \notin {"fetch_ext", "fetch_upload"}
OfUpload(r, c) == r # c /\ UploadOf[r] = UploadOf[c]
Orderly ==
    \A c \in Complete, r \in PartReq \cup Complete \cup Abort :
        OfUpload(r, c) /\ (Engaged(c) \/ TookLife(c)) => ~Engaged(r)
\* What is asked of Motr: a complete request that overwrites an object is
\* not cut short in its saves.
CutShort(c) == pc[c] = "failed" \/ (c \in stopped /\ pc[c] \in Saves)
SavesEnd == \A c \in Complete : CutShort(c) => old[c] = NoVer

\* p is not a part of the live object, and safe to delete.
NotLive(p) == objList \in Complete => \A n \in Part : ext[objList][n] # p
Safe(p) == Spent(p) /\ NotLive(p)
\* A version that was overwritten.
DeadVer(v) == v \in Complete /\ Took(v) /\ objList # v

\* No request for an upload that ended before the start gets far.
PastQuiet ==
    \A c \in Past, r \in Req \ Upload :
        UploadOf[r] = UploadOf[c] => pc[r] \in {"idle", "fetch_ext", "fetch_upload", "done"}
\* A complete request has the whole part list of an upload that stays as it
\* is, and once it took its place the version it has read is not live.
CompletingInv(c) ==
    /\ Engaged(c) /\ pc[c] \in {"fetch_parts", "add_probable"} \cup Saves => Open(UploadOf[c])
    /\ Engaged(c) /\ pc[c] \in {"add_probable"} \cup Saves =>
        seen[c] = partIdx[UploadOf[c]] /\ NumbersOf(seen[c]) = Asked[c]
    /\ Engaged(c) /\ pc[c] = "save_object" => ext[c] = seen[c]
    /\ TookLife(c) => objList # old[c]
\* The part list of the live object's upload is that of the object, or gone.
LiveInv ==
    objList \in Complete =>
        \A n \in Part : partIdx[UploadOf[objList]][n] \in {NoOid, ext[objList][n]}
\* An upload becomes one object.
OneTook == \A c, d \in Complete : Took(c) /\ Took(d) /\ UploadOf[c] = UploadOf[d] => c = d
\* Requests delete what is safe.
SafePuts ==
    \A p \in PartReq : pc[p] \in CleansPart /\ old[p] # NoOid => Safe(old[p])
SafeAborts ==
    \A a \in Abort : pc[a] \in HasAborted => \A n \in NumbersOf(seen[a]) : Safe(seen[a][n])
\* A record that is forced names what is safe to delete.  A record of a part
\* that is not forced is of a version that a request is overwriting, which is
\* among those the record is young for, or has overwritten.
SafeRec(k, rec) ==
    /\ rec.kind \in {"put", "abort", "ext"} /\ rec.forced => Safe(LeakOid(k))
    /\ rec.kind = "ext" /\ ~rec.forced =>
        \E c \in rec.since \cap Complete :
            old[c] = rec.ver /\ ((InFlight(c) /\ pc[c] \in Saves) \/ TookLife(c))
    /\ rec.kind = "parent" => LeakOid(k) = UploadOf[rec.ver]
    /\ rec.kind = "parent" /\ rec.forced => DeadVer(rec.ver)
\* So does the record in work, at each step of it.
SafeJob ==
    bd # NoJob =>
        /\ SafeRec(bd.key, bd.rec)
        /\ bd.step = "object" => LeakOid(bd.key) \notin PartReq \/ Safe(LeakOid(bd.key))
        /\ bd.step \in {"version", "parts", "entry"} /\ bd.rec.kind # "simple" => DeadVer(bd.rec.ver)
LifeInv ==
    /\ PastQuiet /\ (\A c \in Complete : CompletingInv(c)) /\ LiveInv /\ OneTook
    /\ SafePuts /\ SafeAborts /\ (\A k \in DOMAIN pdi : SafeRec(k, pdi[k])) /\ SafeJob
    /\ LivePartsStored

-----------------------------------------------------------------------------
(* What a step of any kind does.                                           *)

\* Requests go forward; lists of parts lose entries, or get those of a PUT,
\* or of a complete request, that saves them.
Moves ==
    /\ \A r \in Req : pc[r] = "done" => pc'[r] = "done"
    /\ \A r \in Req : pc'[r] = "idle" => pc[r] = "idle"
    /\ \A r \in Req \ Upload : pc[r] # pc'[r] => pc[UploadOf[r]] = "done" \/ pc[r] # "idle"
    /\ \A p \in PartReq :
        /\ pc[p] \in Saved => pc'[p] \in Saved
        /\ pc[p] \notin PreSave => pc'[p] \notin PreSave
    /\ \A c \in Complete : TookLife(c) => TookLife(c)'
    /\ \A u \in Upload : u \in mp' => u \in mp \/ (pc[u] = "save_upload" /\ pc'[u] = "done")
    /\ \A u \in Upload, n \in Part :
        \/ partIdx'[u][n] \in {partIdx[u][n], NoOid}
        \/ /\ PartOf(partIdx'[u][n], u, n)
           /\ pc[partIdx'[u][n]] = "save_part"
           /\ pc'[partIdx'[u][n]] \in Saved
    /\ \A v \in Version, n \in Part :
        \/ ext'[v][n] \in {ext[v][n], NoOid}
        \/ v \in Complete /\ pc[v] = "save_ext" /\ ext'[v][n] = seen[v][n]
    /\ \/ objList' = objList
       \/ \E c \in Complete : objList' = c /\ pc[c] = "save_object" /\ TookLife(c)'

\* The requests other than r.
Others(r) == \A q \in Req \ {r} : pc'[q] = pc[q] /\ old'[q] = old[q]

\* A step of a PUT of a part.
PartShape(p) ==
    /\ UNCHANGED <<mp, objList, ext, seen, was, todo, stopped, bd>>
    /\ pc' = [pc EXCEPT ![p] = pc'[p]]
    /\ p \notin stopped
    /\ pc[p] # "done"
    /\ pc'[p] \in (PreSave \cup Rolling \cup Saved) \ {"idle"}
    /\ pc[p] \in Saved => pc'[p] \in Saved
    /\ pc[p] \notin PreSave => pc'[p] \notin PreSave
    /\ pc[p] = "idle" => pc[UploadOf[p]] = "done" /\ (UploadOf[p] \notin mp => pc'[p] = "done")
    /\ pc'[p] \in CleansPart => pc[p] \in CleansPart \/ pc[p] = "save_part"
    /\ old' = old \/ (pc[p] = "fetch_part" /\ old' = [old EXCEPT ![p] = Entry(p)])
    /\ \/ partIdx' = partIdx
       \/ /\ pc[p] = "save_part" /\ pc'[p] \in {"mark_old", "leak_check"}
          /\ partIdx' = [partIdx EXCEPT ![UploadOf[p]][PartNumber[p]] = p]

\* Every step of a PUT of a part is such a step.
LEMMA PartHasShape ==
    ASSUME TypeInv, NEW p \in PartReq, PartStep(p)
    PROVE  PartShape(p)
<1>1. p \in Req /\ pc \in [Req -> Labels]
  BY DEF TypeInv, Req
<1> USE <1>1 DEF PartShape, PreSave, Rolling, Saved, CleansPart, At, Go, Begins, MayStart
<1>2. CASE FetchMultipartMetadata(p)
  BY <1>2 DEF FetchMultipartMetadata, motr
<1>3. CASE FetchPartInfo(p)
  BY <1>3 DEF FetchPartInfo, motr, Entry
<1>4. CASE CreatePartObject(p)
  BY <1>4 DEF CreatePartObject
<1>5. CASE AddPartOidToProbableDeadOidList(p)
  BY <1>5 DEF AddPartOidToProbableDeadOidList
<1>6. CASE StreamPartData(p)
  BY <1>6 DEF StreamPartData, motr
<1>7. CASE SavePartMetadata(p)
  BY <1>7 DEF SavePartMetadata, Overwrites
<1>8. CASE MarkOldPart(p)
  BY <1>8 DEF MarkOldPart, PartCleanup
<1>9. CASE PartLeakCheck(p)
  BY <1>9 DEF PartLeakCheck, PartCleanup
<1>10. CASE RemoveNewPartRecord(p)
  BY <1>10 DEF RemoveNewPartRecord, PartCleanup
<1>11. CASE DeleteOldPart(p)
  BY <1>11 DEF DeleteOldPart, DeletePartObject
<1>12. CASE MarkNewPart(p)
  BY <1>12 DEF MarkNewPart, PartCleanup
<1>13. CASE DeleteNewPart(p)
  BY <1>13 DEF DeleteNewPart, DeletePartObject
<1>14. CASE RollbackNewPartRecord(p)
  BY <1>14 DEF RollbackNewPartRecord, PartCleanup
<1> HIDE DEF PartShape
<1> QED
  BY <1>2, <1>3, <1>4, <1>5, <1>6, <1>7, <1>8, <1>9, <1>10, <1>11, <1>12, <1>13, <1>14
  DEF PartStep

\* A step of a POST that initiates an upload.
InitiateShape(u) ==
    /\ UNCHANGED <<stored, partIdx, objList, ext, pdi, seen, was, todo, stopped, bd>>
    /\ pc' = [pc EXCEPT ![u] = pc'[u]]
    /\ pc[u] # "done"
    /\ pc'[u] \in UploadLabels \ {"idle"}
    /\ old' = old \/ old' = [old EXCEPT ![u] = objList]
    /\ mp' = mp \/ (pc[u] = "save_upload" /\ pc'[u] = "done" /\ mp' = mp \cup {u})

\* Every step of a POST that initiates an upload is such a step.
LEMMA InitiateHasShape ==
    ASSUME TypeInv, NEW u \in Upload, InitiateStep(u)
    PROVE  InitiateShape(u)
<1>1. u \in Req /\ pc \in [Req -> Labels]
  BY DEF TypeInv, Req
<1> USE <1>1 DEF InitiateShape, UploadLabels, At, Go, Begins
<1>2. CASE CheckBucketObjectState(u)
  BY <1>2 DEF CheckBucketObjectState, motr
<1>3. CASE CreatePartMetaIndex(u)
  BY <1>3 DEF CreatePartMetaIndex
<1>4. CASE SaveUploadMetadata(u)
  BY <1>4 DEF SaveUploadMetadata
<1>5. CASE RollbackCreatePartMetaIndex(u)
  BY <1>5 DEF RollbackCreatePartMetaIndex
<1> QED
  BY <1>2, <1>3, <1>4, <1>5 DEF InitiateStep

\* A step of a POST that completes an upload.
CompleteShape(c) ==
    /\ UNCHANGED <<stopped, bd>>
    /\ pc' = [pc EXCEPT ![c] = pc'[c]]
    /\ c \notin stopped
    /\ pc[c] \notin {"done", "failed", "stuck"}
    /\ pc'[c] \in CompleteLabels \ {"idle"}
    /\ pc[c] = "idle" => pc[UploadOf[c]] = "done"
    /\ TookLife(c) => TookLife(c)'
    /\ pc'[c] = "fetch_ext" => old'[c] \in Complete
    /\ old' = old \/ (pc[c] = "idle" /\ old' = [old EXCEPT ![c] = objList])
    /\ \/ seen' = seen
       \/ pc[c] = "fetch_parts" /\ seen' = [seen EXCEPT ![c] = partIdx[UploadOf[c]]]
    /\ was' = was \/ (pc[c] = "fetch_ext" /\ was' = [was EXCEPT ![c] = ext[old[c]]])
    /\ \/ todo' = todo
       \/ todo' = [todo EXCEPT ![c] = NumbersOf(was[c])]
       \/ todo' = [todo EXCEPT ![c] = @ \ {Max(@)}]
    /\ mp' = mp \/ (pc[c] = "delete_upload" /\ mp' = mp \ {UploadOf[c]})
    /\ \/ partIdx' = partIdx
       \/ pc[c] = "delete_index" /\ partIdx' = [partIdx EXCEPT ![UploadOf[c]] = NoParts]
    /\ objList' = objList \/ (pc[c] = "save_object" /\ objList' = c)
    /\ objList' = c => objList = c \/ TookLife(c)'
    /\ TookLife(c)' => TookLife(c) \/ (pc[c] = "save_object" /\ objList' = c)
    /\ pc[c] = "save_object" => UNCHANGED <<stored, mp, partIdx, ext>>
    /\ pc[c] \in {"idle", "fetch_ext", "fetch_upload"} /\ UploadOf[c] \notin mp =>
        pc'[c] \in {"fetch_ext", "fetch_upload", "done"}
    /\ pc[c] \in Saves => pc'[c] \in Saves \cup {"failed"} \/ TookLife(c)'
    /\ pc'[c] = "fetch_parts" => pc[c] = "fetch_upload" /\ UploadOf[c] \in mp
    /\ pc'[c] \in {"add_probable"} \cup Saves =>
        \/ /\ pc[c] = "fetch_parts"
           /\ seen'[c] = partIdx[UploadOf[c]] /\ NumbersOf(seen'[c]) = Asked[c]
        \/ pc[c] \in {"add_probable"} \cup Saves /\ seen' = seen
    /\ pc'[c] = "save_object" => pc[c] = "save_ext" /\ ext'[c] = seen[c]
    /\ \/ ext' = ext
       \/ pc[c] = "save_ext" /\ pc'[c] = "save_object" /\ ext' = [ext EXCEPT ![c] = seen[c]]
       \/ pc[c] = "remove_ext" /\ ext' = [ext EXCEPT ![old[c]] = NoParts]

\* get_next_parts_info_successful: the parts of a valid request are those it lists.
LEMMA ValidPartsAreAsked ==
    ASSUME NEW c \in Complete, NEW listed, PartsAreValid(c, listed)
    PROVE  NumbersOf(listed) = Asked[c]
<1>1. PICK n \in Part : Asked[c] = 1 .. n
  BY MultipartAssumption
<1>2. n \in Nat \ {0} /\ MaxPart \in Nat
  BY MultipartAssumption DEF Part
<1>3. LastAsked(c) = n
  BY <1>1, <1>2 DEF LastAsked
<1>4. IsFiniteSet(1 .. n) /\ Cardinality(1 .. n) = n
  BY <1>2, FS_Interval
<1>5. IsFiniteSet(NumbersOf(listed))
  <2>1. NumbersOf(listed) \subseteq 1 .. MaxPart
    BY DEF NumbersOf, Part
  <2>2. IsFiniteSet(1 .. MaxPart)
    BY <1>2, FS_Interval
  <2> QED
    BY <2>1, <2>2, FS_Subset
<1> QED
  BY <1>1, <1>3, <1>4, <1>5, FS_Subset DEF PartsAreValid

\* Every step of a POST that completes an upload is such a step.
LEMMA CompleteHasShape ==
    ASSUME TypeInv, NEW c \in Complete, CompleteStep(c)
    PROVE  CompleteShape(c)
<1>1. /\ c \in Req /\ pc \in [Req -> Labels] /\ DOMAIN old = Req
      /\ c \in DOMAIN seen /\ c \in DOMAIN ext
  BY DEF TypeInv, Req, Version
<1> USE <1>1
    DEF CompleteShape, CompleteLabels, PreComplete, Saves, CompleteCleanup, TookLife, At, Go, Begins,
        MayStart
<1>2. CASE FetchObjectInfo(c)
  BY <1>2 DEF FetchObjectInfo, motr
<1>3. CASE FetchExtObjectInfo(c)
  BY <1>3 DEF FetchExtObjectInfo, motr
<1>4. CASE FetchMultipartInfo(c)
  BY <1>4 DEF FetchMultipartInfo, motr
<1>5. CASE GetNextPartsInfo(c)
  BY <1>5, ValidPartsAreAsked DEF GetNextPartsInfo, motr
<1>6. CASE AddObjectOidToProbableDeadOidList(c)
  BY <1>6 DEF AddObjectOidToProbableDeadOidList
<1>7. CASE SaveVersion(c)
  BY <1>7 DEF SaveVersion
<1>8. CASE SaveExtended(c)
  BY <1>8 DEF SaveExtended
<1>9. CASE SaveObject(c)
  BY <1>9 DEF SaveObject
<1>10. CASE DeleteMultipartMetadata(c)
  BY <1>10 DEF DeleteMultipartMetadata
<1>11. CASE DeletePartListIndex(c)
  BY <1>11 DEF DeletePartListIndex
<1>12. CASE MarkOldOidForDeletion(c)
  BY <1>12 DEF MarkOldOidForDeletion, CompleteRecords
<1>13. CASE DeleteOldObject(c)
  BY <1>13 DEF DeleteOldObject
<1>14. CASE RemoveOldObjectVersionMetadata(c)
  BY <1>14 DEF RemoveOldObjectVersionMetadata
<1>15. CASE RemoveOldFragments(c)
  BY <1>15 DEF RemoveOldFragments
<1>16. CASE RemoveOldOidProbableRecord(c)
  BY <1>16 DEF RemoveOldOidProbableRecord, CompleteRecords
<1>17. CASE AddOidForParallelLeakCheck(c)
  BY <1>17 DEF AddOidForParallelLeakCheck, CompleteRecords
<1> HIDE DEF CompleteShape
<1> QED
  BY <1>2, <1>3, <1>4, <1>5, <1>6, <1>7, <1>8, <1>9, <1>10, <1>11, <1>12, <1>13, <1>14, <1>15,
     <1>16, <1>17 DEF CompleteStep

\* A step of a DELETE of an upload.
AbortShape(a) ==
    /\ UNCHANGED <<objList, ext, old, was, stopped, bd>>
    /\ pc' = [pc EXCEPT ![a] = pc'[a]]
    /\ a \notin stopped
    /\ pc[a] # "done"
    /\ pc'[a] \in AbortLabels \ {"idle"}
    /\ pc[a] = "idle" => pc[UploadOf[a]] = "done" /\ (UploadOf[a] \notin mp => pc'[a] = "done")
    /\ pc'[a] \in HasAborted => pc[a] \in HasAborted \/ pc[a] = "delete_upload"
    /\ pc'[a] \in HasAborted => pc[a] \in HasAborted \/ UploadOf[a] \notin mp'
    /\ pc[a] \in HasAborted => seen' = seen
    /\ \/ seen' = seen
       \/ pc[a] = "fetch_parts" /\ seen' = [seen EXCEPT ![a] = partIdx[UploadOf[a]]]
    /\ \/ todo' = todo
       \/ todo' = [todo EXCEPT ![a] = NumbersOf(seen[a])]
       \/ todo' = [todo EXCEPT ![a] = @ \ {Max(@)}]
    /\ mp' = mp \/ (pc[a] = "delete_upload" /\ mp' = mp \ {UploadOf[a]})
    /\ \/ partIdx' = partIdx
       \/ pc[a] = "delete_index" /\ partIdx' = [partIdx EXCEPT ![UploadOf[a]] = NoParts]

\* Every step of a DELETE of an upload is such a step.
LEMMA AbortHasShape ==
    ASSUME TypeInv, NEW a \in Abort, AbortStep(a)
    PROVE  AbortShape(a)
<1>1. a \in Req /\ pc \in [Req -> Labels]
  BY DEF TypeInv, Req
<1> USE <1>1 DEF AbortShape, AbortLabels, HasAborted, At, Go, Begins, MayStart
<1>2. CASE GetMultipartMetadata(a)
  BY <1>2 DEF GetMultipartMetadata, motr
<1>3. CASE GetNextParts(a)
  BY <1>3 DEF GetNextParts, motr
<1>4. CASE AddPartsOidsToProbableDeadOidList(a)
  BY <1>4 DEF AddPartsOidsToProbableDeadOidList
<1>5. CASE AbortDeleteMultipartMetadata(a)
  BY <1>5 DEF AbortDeleteMultipartMetadata
<1>6. CASE DeletePartIndexWithParts(a)
  BY <1>6 DEF DeletePartIndexWithParts
<1>7. CASE MarkOidsForDeletion(a, "mark_parts", "delete_part")
  BY <1>7 DEF MarkOidsForDeletion
<1>8. CASE MarkOidsForDeletion(a, "mark_left", "delete_left")
  BY <1>8 DEF MarkOidsForDeletion
<1>9. CASE DeletePart(a, "delete_part")
  BY <1>9 DEF DeletePart, AfterParts
<1>10. CASE DeletePart(a, "delete_left")
  BY <1>10 DEF DeletePart, AfterParts
<1>11. CASE RemoveProbableRecords(a)
  BY <1>11 DEF RemoveProbableRecords
<1> HIDE DEF AbortShape
<1> QED
  BY <1>2, <1>3, <1>4, <1>5, <1>6, <1>7, <1>8, <1>9, <1>10, <1>11 DEF AbortStep

\* A step of background delete.
RecoveryShape ==
    /\ UNCHANGED <<mp, partIdx, objList, reqs>>
    /\ ext' = ext \/ (bd.step = "entry" /\ ext' = [ext EXCEPT ![bd.rec.ver][NextPart] = NoOid])

\* Every step of background delete is such a step.
LEMMA RecoveryHasShape ==
    ASSUME RecoveryStep
    PROVE  RecoveryShape
BY DEF RecoveryStep, RecoveryShape, ProcessResults, CompareWithLive, DeleteObjectFromStorage,
       DeleteVersionEntry, DelObjFromExtendedIndex, DelExtendedEntry, DeleteRecord, motr, NextPart

\* A PUT of a part keeps the types and moves as any request does.
LEMMA PartMoves ==
    ASSUME TypeInv, NEW p \in PartReq, PartShape(p)
    PROVE  TypeInv' /\ Moves /\ Others(p)
<1>1. p \in Req /\ UploadOf[p] \in Upload /\ PartNumber[p] \in Part /\ Entry(p) \in PartReq \cup {NoOid}
  BY MultipartAssumption DEF TypeInv, Req, PartMap, Entry
<1>2. \A r \in Req \ {p} : pc'[r] = pc[r] /\ old'[r] = old[r]
  BY DEF TypeInv, PartShape, Req
<1>3. pc'[p] \in PreSave \cup Rolling \cup Saved /\ old'[p] \in PartReq \cup {NoOid}
  BY <1>1 DEF TypeInv, PartShape
<1>4. TypeInv'
  <2>1. pc' \in [Req -> Labels] /\ DOMAIN old' = Req
    <3>1. PICK l \in Labels : l = pc'[p]
      BY DEF Labels, PartShape
    <3>2. pc' = [pc EXCEPT ![p] = l]
      BY <3>1 DEF PartShape
    <3>3. pc' \in [Req -> Labels]
      BY <3>2 DEF TypeInv
    <3> QED
      BY <3>3 DEF TypeInv, PartShape
  <2>2. partIdx' \in [Upload -> PartMap]
    <3>1. CASE partIdx' = partIdx
      BY <3>1 DEF TypeInv
    <3>2. CASE partIdx' = [partIdx EXCEPT ![UploadOf[p]][PartNumber[p]] = p]
      <4>1. partIdx \in [Upload -> [Part -> PartReq \cup {NoOid}]]
        BY DEF TypeInv, PartMap
      <4>2. partIdx' \in [Upload -> [Part -> PartReq \cup {NoOid}]]
        BY <4>1, <3>2
      <4> QED
        BY <4>2 DEF PartMap
    <3> QED
      BY <3>1, <3>2 DEF PartShape
  <2>3. /\ \A u \in Upload : pc'[u] = pc[u]
        /\ \A c \in Complete : pc'[c] = pc[c] /\ old'[c] = old[c]
        /\ \A a \in Abort : pc'[a] = pc[a]
    BY <1>2, IdsAreUnique DEF Req
  <2>4. /\ \A q \in PartReq : pc'[q] \in PreSave \cup Rolling \cup Saved
        /\ \A q \in PartReq : old'[q] \in PartReq \cup {NoOid}
    BY <1>2, <1>3 DEF TypeInv, Req
  <2> QED
    BY <2>1, <2>2, <2>3, <2>4 DEF TypeInv, PartShape
<1>5. Others(p)
  BY <1>2 DEF Others
<1>6. Moves
  <2>1. \A c \in Complete : TookLife(c) => TookLife(c)'
    BY <1>2, IdsAreUnique DEF TookLife, Req
  <2>2. \A u \in Upload, n \in Part :
            \/ partIdx'[u][n] \in {partIdx[u][n], NoOid}
            \/ /\ PartOf(partIdx'[u][n], u, n)
               /\ pc[partIdx'[u][n]] = "save_part"
               /\ pc'[partIdx'[u][n]] \in Saved
    <3> SUFFICES ASSUME NEW u \in Upload, NEW n \in Part, partIdx'[u][n] # partIdx[u][n]
                 PROVE  /\ PartOf(partIdx'[u][n], u, n)
                        /\ pc[partIdx'[u][n]] = "save_part"
                        /\ pc'[partIdx'[u][n]] \in Saved
      OBVIOUS
    <3>1. /\ partIdx' = [partIdx EXCEPT ![UploadOf[p]][PartNumber[p]] = p]
          /\ pc[p] = "save_part" /\ pc'[p] \in Saved
      BY DEF PartShape, Saved, CleansPart
    <3>2. u = UploadOf[p] /\ n = PartNumber[p] /\ partIdx'[u][n] = p
      BY <3>1, <1>1 DEF TypeInv, PartMap
    <3> QED
      BY <3>1, <3>2 DEF PartOf
  <2>3. /\ \A r \in Req : pc[r] = "done" => pc'[r] = "done"
        /\ \A r \in Req : pc'[r] = "idle" => pc[r] = "idle"
        /\ \A r \in Req \ Upload : pc[r] # pc'[r] => pc[UploadOf[r]] = "done" \/ pc[r] # "idle"
    BY <1>1, <1>2 DEF PartShape
  <2>4. \A q \in PartReq :
            /\ pc[q] \in Saved => pc'[q] \in Saved
            /\ pc[q] \notin PreSave => pc'[q] \notin PreSave
    BY <1>1, <1>2 DEF PartShape, Req
  <2> QED
    BY <2>1, <2>2, <2>3, <2>4 DEF Moves, PartShape
<1> QED
  BY <1>4, <1>5, <1>6

\* So does a POST that initiates an upload.
LEMMA InitiateMoves ==
    ASSUME TypeInv, NEW u \in Upload, InitiateShape(u)
    PROVE  TypeInv' /\ Moves /\ Others(u)
<1>1. \A r \in Req \ {u} : pc'[r] = pc[r] /\ old'[r] = old[r]
  BY DEF TypeInv, InitiateShape, Req
<1>2. \A r \in PartReq \cup Complete \cup Abort : r \in Req \ {u}
  BY IdsAreUnique DEF Req
<1>3. TypeInv'
  <2>1. pc' \in [Req -> Labels] /\ DOMAIN old' = Req
    <3>1. PICK l \in Labels : l = pc'[u]
      BY DEF Labels, InitiateShape
    <3>2. pc' = [pc EXCEPT ![u] = l]
      BY <3>1 DEF InitiateShape
    <3>3. pc' \in [Req -> Labels]
      BY <3>2 DEF TypeInv
    <3> QED
      BY <3>3 DEF TypeInv, InitiateShape
  <2>2. \A v \in Upload : pc'[v] \in UploadLabels
    BY <1>1 DEF TypeInv, InitiateShape, Req
  <2>3. mp' \subseteq Upload
    BY DEF TypeInv, InitiateShape
  <2> QED
    BY <2>1, <2>2, <2>3, <1>1, <1>2 DEF TypeInv, InitiateShape
<1>4. Others(u)
  BY <1>1 DEF Others
<1>5. Moves
  <2>1. \A c \in Complete : TookLife(c) => TookLife(c)'
    BY <1>1, <1>2 DEF TookLife
  <2>2. \A v \in Upload : v \in mp' => v \in mp \/ (pc[v] = "save_upload" /\ pc'[v] = "done")
    BY DEF InitiateShape
  <2>3. /\ \A r \in Req : pc[r] = "done" => pc'[r] = "done"
        /\ \A r \in Req : pc'[r] = "idle" => pc[r] = "idle"
    BY <1>1 DEF InitiateShape
  <2>4. \A r \in Req \ Upload : pc'[r] = pc[r]
    BY <1>1
  <2>5. \A q \in PartReq : pc'[q] = pc[q]
    BY <1>1, <1>2
  <2> QED
    BY <2>1, <2>2, <2>3, <2>4, <2>5 DEF Moves, InitiateShape
<1> QED
  BY <1>3, <1>4, <1>5

\* So does a POST that completes an upload.
LEMMA CompleteMoves ==
    ASSUME TypeInv, NEW c \in Complete, CompleteShape(c)
    PROVE  TypeInv' /\ Moves /\ Others(c)
<1>1. /\ c \in Req /\ c \in Version
      /\ UploadOf[c] \in Upload
      /\ seen[c] \in PartMap /\ NoParts \in PartMap
      /\ partIdx[UploadOf[c]] \in PartMap
  BY MultipartAssumption DEF TypeInv, Req, Version, PartMap, NoParts
<1>2. TypeInv'
  <2>1. pc' \in [Req -> Labels] /\ \A d \in Complete : pc'[d] \in CompleteLabels
    <3>1. PICK l \in Labels : l = pc'[c]
      BY DEF Labels, CompleteShape
    <3>2. pc' = [pc EXCEPT ![c] = l]
      BY <3>1 DEF CompleteShape
    <3>3. pc' \in [Req -> Labels]
      BY <3>2 DEF TypeInv
    <3>4. \A d \in Complete : pc'[d] \in CompleteLabels
      BY DEF TypeInv, CompleteShape, Req
    <3> QED
      BY <3>3, <3>4
  <2>2. /\ mp' \subseteq Upload
        /\ partIdx' \in [Upload -> PartMap]
        /\ ext' \in [Version -> PartMap]
        /\ objList' \in Version \cup {NoVer}
    BY <1>1 DEF TypeInv, CompleteShape
  <2>3. /\ \A u \in Upload : pc'[u] \in UploadLabels
        /\ \A p \in PartReq : pc'[p] \in PreSave \cup Rolling \cup Saved
        /\ \A a \in Abort : pc'[a] \in AbortLabels
    BY IdsAreUnique DEF TypeInv, CompleteShape, Req
  <2>4. /\ DOMAIN old' = Req
        /\ \A p \in PartReq : old'[p] \in PartReq \cup {NoOid}
        /\ \A d \in Complete : old'[d] \in Version \cup {NoVer}
        /\ \A d \in Complete : pc'[d] = "fetch_ext" => old'[d] \in Complete
    BY IdsAreUnique DEF TypeInv, CompleteShape, Req
  <2>5. seen' \in [Complete \cup Abort -> PartMap]
    BY <1>1 DEF TypeInv, CompleteShape
  <2>6. was' \in [Complete -> PartMap]
    <3>1. CASE was' = was
      BY <3>1 DEF TypeInv
    <3>2. CASE pc[c] = "fetch_ext" /\ was' = [was EXCEPT ![c] = ext[old[c]]]
      BY <3>2 DEF TypeInv, Version
    <3> QED
      BY <3>1, <3>2 DEF CompleteShape
  <2>7. todo' \in [Complete \cup Abort -> SUBSET Part]
    BY DEF TypeInv, CompleteShape, NumbersOf
  <2> QED
    BY <2>1, <2>2, <2>3, <2>4, <2>5, <2>6, <2>7 DEF TypeInv
<1>3. Others(c)
  BY DEF TypeInv, CompleteShape, Others, Req
<1>4. Moves
  <2>1. \A d \in Complete : TookLife(d) => TookLife(d)'
    BY <1>3, IdsAreUnique DEF TookLife, CompleteShape, Others, Req
  <2>2. \A u \in Upload, n \in Part : partIdx'[u][n] \in {partIdx[u][n], NoOid}
    BY DEF CompleteShape, TypeInv, NoParts
  <2>3. \A v \in Version, n \in Part :
            \/ ext'[v][n] \in {ext[v][n], NoOid}
            \/ v \in Complete /\ pc[v] = "save_ext" /\ ext'[v][n] = seen[v][n]
    BY DEF CompleteShape, TypeInv, NoParts
  <2>4. \/ objList' = objList
        \/ \E d \in Complete : objList' = d /\ pc[d] = "save_object" /\ TookLife(d)'
    BY DEF CompleteShape
  <2>5. /\ \A r \in Req : pc[r] = "done" => pc'[r] = "done"
        /\ \A r \in Req : pc'[r] = "idle" => pc[r] = "idle"
        /\ \A r \in Req \ Upload : pc[r] # pc'[r] => pc[UploadOf[r]] = "done" \/ pc[r] # "idle"
    BY <1>1, <1>3 DEF CompleteShape, Others
  <2>6. \A p \in PartReq : pc'[p] = pc[p]
    BY <1>3, IdsAreUnique DEF Others, Req
  <2>7. \A u \in Upload : u \in mp' => u \in mp
    BY DEF CompleteShape
  <2> QED
    BY <2>1, <2>2, <2>3, <2>4, <2>5, <2>6, <2>7 DEF Moves
<1> QED
  BY <1>2, <1>3, <1>4

\* So does a DELETE of an upload.
LEMMA AbortMoves ==
    ASSUME TypeInv, NEW a \in Abort, AbortShape(a)
    PROVE  TypeInv' /\ Moves /\ Others(a)
<1>1. /\ a \in Req
      /\ UploadOf[a] \in Upload
      /\ NoParts \in PartMap
      /\ partIdx[UploadOf[a]] \in PartMap
  BY MultipartAssumption DEF TypeInv, Req, PartMap, NoParts
<1>2. \A r \in Req \ {a} : pc'[r] = pc[r] /\ old'[r] = old[r]
  BY DEF TypeInv, AbortShape, Req
<1>3. \A r \in PartReq \cup Complete \cup Upload : r \in Req \ {a}
  BY IdsAreUnique DEF Req
<1>4. TypeInv'
  <2>1. pc' \in [Req -> Labels] /\ DOMAIN old' = Req
    <3>1. PICK l \in Labels : l = pc'[a]
      BY DEF Labels, AbortShape
    <3>2. pc' = [pc EXCEPT ![a] = l]
      BY <3>1 DEF AbortShape
    <3>3. pc' \in [Req -> Labels]
      BY <3>2 DEF TypeInv
    <3> QED
      BY <3>3 DEF TypeInv, AbortShape
  <2>2. \A b \in Abort : pc'[b] \in AbortLabels
    BY <1>2 DEF TypeInv, AbortShape, Req
  <2>3. mp' \subseteq Upload /\ partIdx' \in [Upload -> PartMap]
    BY <1>1 DEF TypeInv, AbortShape
  <2>4. seen' \in [Complete \cup Abort -> PartMap]
    BY <1>1 DEF TypeInv, AbortShape
  <2>5. todo' \in [Complete \cup Abort -> SUBSET Part]
    BY DEF TypeInv, AbortShape, NumbersOf
  <2> QED
    BY <2>1, <2>2, <2>3, <2>4, <2>5, <1>2, <1>3 DEF TypeInv, AbortShape
<1>5. Others(a)
  BY <1>2 DEF Others
<1>6. Moves
  <2>1. \A c \in Complete : TookLife(c) => TookLife(c)'
    BY <1>2, <1>3 DEF TookLife
  <2>2. \A u \in Upload, n \in Part : partIdx'[u][n] \in {partIdx[u][n], NoOid}
    BY DEF AbortShape, TypeInv, NoParts
  <2>3. /\ \A r \in Req : pc[r] = "done" => pc'[r] = "done"
        /\ \A r \in Req : pc'[r] = "idle" => pc[r] = "idle"
        /\ \A r \in Req \ Upload : pc[r] # pc'[r] => pc[UploadOf[r]] = "done" \/ pc[r] # "idle"
    BY <1>1, <1>2 DEF AbortShape
  <2>4. \A q \in PartReq : pc'[q] = pc[q]
    BY <1>2, <1>3
  <2>5. \A u \in Upload : u \in mp' => u \in mp
    BY DEF AbortShape
  <2> QED
    BY <2>1, <2>2, <2>3, <2>4, <2>5 DEF Moves, AbortShape
<1> QED
  BY <1>4, <1>5, <1>6

\* So does background delete.
LEMMA RecoveryMoves ==
    ASSUME TypeInv, RecoveryShape
    PROVE  TypeInv' /\ Moves
<1>1. ext' \in [Version -> PartMap] /\ \A v \in Version, n \in Part : ext'[v][n] \in {ext[v][n], NoOid}
  <2>1. CASE ext' = ext
    BY <2>1 DEF TypeInv
  <2>2. CASE ext' = [ext EXCEPT ![bd.rec.ver][NextPart] = NoOid]
    <3>1. ext \in [Version -> [Part -> PartReq \cup {NoOid}]]
      BY DEF TypeInv, PartMap
    <3>2. ext' \in [Version -> [Part -> PartReq \cup {NoOid}]]
      BY <3>1, <2>2
    <3>3. \A v \in Version, n \in Part : ext'[v][n] \in {ext[v][n], NoOid}
      BY <3>1, <2>2
    <3> QED
      BY <3>2, <3>3 DEF PartMap
  <2> QED
    BY <2>1, <2>2 DEF RecoveryShape
<1>2. UNCHANGED <<pc, old, seen, was, todo>>
  BY DEF RecoveryShape, reqs
<1>3. TypeInv'
  BY <1>1, <1>2 DEF TypeInv, RecoveryShape
<1>4. \A c \in Complete : TookLife(c) => TookLife(c)'
  BY <1>2 DEF TookLife
<1> QED
  BY <1>1, <1>2, <1>3, <1>4 DEF Moves, RecoveryShape

\* So does a server that stops, and a step that changes nothing.
LEMMA StopMoves ==
    ASSUME TypeInv, UNCHANGED <<motr, pc, old, seen, was, todo, bd>>
    PROVE  TypeInv' /\ Moves
<1>1. TypeInv'
  BY DEF TypeInv, motr
<1>2. \A c \in Complete : TookLife(c) => TookLife(c)'
  BY DEF TookLife
<1> QED
  BY <1>1, <1>2 DEF Moves, motr

-----------------------------------------------------------------------------
(* What stays true through every step.                                     *)

\* What every step of the system gives.
Given == TypeInv /\ TypeInv' /\ ListsAreRight /\ Moves

\* An upload that was initiated and cannot be completed never can be again.
LEMMA OpenStays ==
    ASSUME Given, NEW u \in Upload, pc[u] = "done", Open(u)'
    PROVE  Open(u)
BY DEF Given, TypeInv, Moves, Open

\* The upload that became an object cannot be completed again.
LEMMA TookIsClosed ==
    ASSUME ListsAreRight, NEW c \in Complete, Took(c)
    PROVE  ~Open(UploadOf[c])
BY DEF ListsAreRight, Took, Open

\* What has taken its place in the object list has for ever.
LEMMA TookStays ==
    ASSUME Given, NEW c \in Complete, Took(c)
    PROVE  Took(c)'
BY DEF Given, Moves, Took

\* A list of parts of an upload stays one.
LEMMA PartsStay ==
    ASSUME Given, NEW u, NEW parts, IsParts(parts, u)
    PROVE  IsParts(parts, u)'
BY DEF Given, Moves, IsParts, PartOf

\* The upload of a PUT that is past its look-up was initiated.
LEMMA Started ==
    ASSUME TypeInv, ListsAreRight, NEW r \in Req \ Upload, pc[r] # "idle"
    PROVE  UploadOf[r] \in Upload /\ pc[UploadOf[r]] = "done"
BY MultipartAssumption DEF ListsAreRight, Req

\* No upload ever gets a spent part back.
LEMMA SpentStays ==
    ASSUME Given, NEW p, Spent(p)
    PROVE  Spent(p)'
<1>1. p \in PartReq /\ pc[p] \notin PreSave /\ pc'[p] \notin PreSave
  BY DEF Spent, Given, Moves
<1>2. pc[UploadOf[p]] = "done" /\ UploadOf[p] \in Upload /\ PartNumber[p] \in Part
  BY <1>1, Started, MultipartAssumption, IdsAreUnique DEF Given, Req, PreSave
<1>3. Open(UploadOf[p])' => Open(UploadOf[p])
  BY <1>2, OpenStays
<1>4. Entry(p)' = p => Entry(p) = p
  BY <1>1, <1>2, MultipartAssumption DEF Given, Moves, Entry, PreSave
<1> QED
  BY <1>1, <1>3, <1>4 DEF Spent

\* What a record says stays true.
LEMMA RecStays ==
    ASSUME Given, NEW k, NEW rec, RecInv(k, rec)
    PROVE  RecInv(k, rec)'
<1>1. rec.kind \in {"ext", "parent"} => rec.ver \in Complete /\ Took(rec.ver)'
  BY TookStays DEF RecInv
<1>2. rec.kind \in {"put", "abort", "ext"} /\ rec.forced => Spent(LeakOid(k))'
  BY SpentStays DEF RecInv, LeakOid
<1>3. rec.kind = "check" => pc'[LeakOid(k)] \in Saved /\ ~rec.forced
  BY DEF RecInv, Given, Moves
<1> QED
  BY <1>1, <1>2, <1>3 DEF RecInv, LeakOid

\* Part lists, extended entries and the live object stay right.
LEMMA ListsStay ==
    ASSUME Given, CompletesInv
    PROVE  ListsAreRight'
<1>1. \A u \in Upload : IsParts(partIdx[u], u)'
  <2> TAKE u \in Upload
  <2> SUFFICES ASSUME NEW n \in Part, partIdx'[u][n] # NoOid
               PROVE  PartOf(partIdx'[u][n], u, n) /\ pc'[partIdx'[u][n]] \in Saved
    BY DEF IsParts, PartOf
  <2> QED
    BY DEF Given, ListsAreRight, Moves, IsParts, PartOf
<1>2. \A c \in Complete : IsParts(ext[c], UploadOf[c])'
  <2> TAKE c \in Complete
  <2> SUFFICES ASSUME NEW n \in Part, ext'[c][n] # NoOid
               PROVE  PartOf(ext'[c][n], UploadOf[c], n) /\ pc'[ext'[c][n]] \in Saved
    BY DEF IsParts, PartOf
  <2>1. IsParts(ext[c], UploadOf[c]) /\ IsParts(seen[c], UploadOf[c])
    BY DEF Given, ListsAreRight, CompletesInv, CompleteInv
  <2>2. ext'[c][n] \in {ext[c][n], seen[c][n]}
    BY DEF Given, Moves, Version
  <2> QED
    BY <2>1, <2>2 DEF Given, Moves, IsParts, PartOf
<1>3. objList' \in Complete => Took(objList)'
  BY TookStays DEF Given, Moves, ListsAreRight, Took
<1>4. \A u \in mp' : pc'[u] = "done"
  BY DEF Given, Moves, ListsAreRight, TypeInv, Req
<1>5. \A r \in Req \ Upload : pc'[r] # "idle" => pc'[UploadOf[r]] = "done"
  BY MultipartAssumption DEF Given, Moves, ListsAreRight, Req
<1>6. \A c \in Past : pc'[c] = "done" /\ UploadOf[c] \notin mp'
  <2> TAKE c \in Past
  <2>1. c \in Complete /\ c \in Req \ Upload /\ pc[c] = "done" /\ UploadOf[c] \notin mp
    BY MultipartAssumption, IdsAreUnique DEF Given, ListsAreRight, Req
  <2>2. UploadOf[c] \in Upload /\ pc[UploadOf[c]] = "done"
    BY <2>1, Started DEF Given
  <2> QED
    BY <2>1, <2>2 DEF Given, Moves
<1> QED
  BY <1>1, <1>2, <1>3, <1>4, <1>5, <1>6 DEF ListsAreRight

-----------------------------------------------------------------------------
(* What a step does to the store.                                          *)

\* What a step deletes is spent, and what it records is right.
StoredOK == \A x \in stored : x \in stored' \/ x \notin PartReq \/ Spent(x)
RecsOK ==
    \A k \in DOMAIN pdi' : (k \in DOMAIN pdi /\ pdi'[k] = pdi[k]) \/ RecInv(k, pdi'[k])

\* The records stay right if those that are written are.
LEMMA RecsStay ==
    ASSUME Given, RecsInv, RecsOK
    PROVE  RecsInv'
<1> SUFFICES ASSUME NEW k \in DOMAIN pdi'
             PROVE  RecInv(k, pdi[k])'
  BY DEF RecsInv
<1>1. PICK rec : rec = pdi'[k]
  OBVIOUS
<1>2. RecInv(k, rec)
  BY <1>1 DEF RecsInv, RecsOK
<1>3. RecInv(k, rec)'
  BY <1>2, RecStays
<1> QED
  BY <1>1, <1>3

\* No upload that can be completed loses a part if only spent parts are
\* deleted.
LEMMA UploadStays ==
    ASSUME Given, PartsInv, UploadPartsStored, StoredOK
    PROVE  UploadPartsStored'
<1> SUFFICES ASSUME NEW u \in Upload, Open(u)', NEW n \in Part, partIdx'[u][n] # NoOid
             PROVE  partIdx'[u][n] \in stored'
  BY DEF UploadPartsStored, NumbersOf
<1> DEFINE p == partIdx'[u][n]
<1>1. CASE p = partIdx[u][n]
  <2>1. PartOf(p, u, n) /\ pc[p] \in Saved
    BY <1>1 DEF Given, ListsAreRight, IsParts
  <2>2. p \in Req \ Upload /\ pc[p] # "idle" /\ UploadOf[p] = u
    BY <2>1, IdsAreUnique DEF PartOf, Req, Saved, CleansPart
  <2>3. pc[u] = "done"
    BY <2>2, Started DEF Given
  <2>4. Open(u) /\ p \in stored
    BY <1>1, <2>3, OpenStays DEF UploadPartsStored, NumbersOf
  <2>5. ~Spent(p)
    BY <1>1, <2>1, <2>4 DEF Spent, Entry, PartOf
  <2> QED
    BY <2>1, <2>4, <2>5 DEF StoredOK, PartOf
<1>2. CASE PartOf(p, u, n) /\ pc[p] = "save_part"
  <2>1. p \in stored
    BY <1>2 DEF PartsInv, PartInv, PartOf
  <2>2. ~Spent(p)
    BY <1>2 DEF Spent, PreSave
  <2> QED
    BY <1>2, <2>1, <2>2 DEF StoredOK, PartOf
<1> QED
  BY <1>1, <1>2 DEF Given, Moves

\* A PUT of a part that does not take the step.
LEMMA PartStays ==
    ASSUME Given, StoredOK, NEW p \in PartReq, PartInv(p), pc'[p] = pc[p], old'[p] = old[p]
    PROVE  PartInv(p)'
<1>1. pc[p] \in {"add_probable", "stream", "save_part"} => p \in stored'
  BY DEF PartInv, StoredOK, Spent, PreSave
<1>2. ASSUME old[p] # NoOid
      PROVE  /\ PartOf(old[p], UploadOf[p], PartNumber[p])
             /\ pc'[old[p]] \in Saved
             /\ pc[p] \in CleansPart => Spent(old[p])'
  <2>1. PICK o : o = old[p] /\ o = old'[p]
    OBVIOUS
  <2>2. Spent(o) => Spent(o)'
    BY SpentStays
  <2>3. Spent(old[p])' <=> Spent(o)'
    BY <2>1 DEF Spent, Entry, Open
  <2> QED
    BY <1>2, <2>1, <2>2, <2>3 DEF PartInv, Given, Moves, PartOf
<1> QED
  BY <1>1, <1>2 DEF PartInv, PartOf

\* A complete request and an abort that do not take the step.
LEMMA CompleteStays ==
    ASSUME Given, NEW c \in Complete, CompleteInv(c), pc'[c] = pc[c], old'[c] = old[c],
           seen'[c] = seen[c], was'[c] = was[c], todo'[c] = todo[c]
    PROVE  CompleteInv(c)'
<1>1. PICK s, w, o : s = seen[c] /\ w = was[c] /\ o = old[c]
  OBVIOUS
<1>2. IsParts(s, UploadOf[c])'
  BY <1>1, PartsStay DEF CompleteInv
<1>3. o \in Complete => Took(o)' /\ IsParts(w, UploadOf[o])'
  BY <1>1, PartsStay, TookStays DEF CompleteInv
<1> QED
  BY <1>1, <1>2, <1>3 DEF CompleteInv, NumbersOf

\* A DELETE of an upload that does not take the step.
LEMMA AbortStays ==
    ASSUME Given, NEW a \in Abort, AbortInv(a), pc'[a] = pc[a], seen'[a] = seen[a], todo'[a] = todo[a]
    PROVE  AbortInv(a)'
<1>1. PICK s : s = seen[a]
  OBVIOUS
<1>2. IsParts(s, UploadOf[a])'
  BY <1>1, PartsStay DEF AbortInv
<1>3. pc[a] \in HasAborted => UploadOf[a] \notin mp'
  <2> HAVE pc[a] \in HasAborted
  <2>1. a \in Req \ Upload /\ pc[a] # "idle"
    BY IdsAreUnique DEF Req, HasAborted
  <2>2. UploadOf[a] \in Upload /\ pc[UploadOf[a]] = "done"
    BY <2>1, Started DEF Given
  <2> QED
    BY <2>2 DEF AbortInv, Given, Moves
<1> QED
  BY <1>1, <1>2, <1>3 DEF AbortInv, NumbersOf

\* The record background delete works on, while it takes no step.
LEMMA JobStays ==
    ASSUME Given, JobInv, bd' = bd
    PROVE  JobInv'
<1>1. CASE bd = NoJob
  BY <1>1 DEF JobInv, NoJob
<1>2. CASE bd # NoJob
  <2>1. PICK k, rec : k = bd.key /\ rec = bd.rec
    OBVIOUS
  <2>2. RecInv(k, rec)'
    BY <1>2, <2>1, RecStays DEF JobInv
  <2>3. Spent(LeakOid(k)) => Spent(LeakOid(k))'
    BY SpentStays DEF LeakOid
  <2> QED
    BY <1>2, <2>1, <2>2, <2>3 DEF JobInv, Job, LeakOid
<1> QED
  BY <1>1, <1>2

-----------------------------------------------------------------------------
(* Records that a step writes.                                             *)

\* Records that are right when they are written.
LEMMA RecsAreOK ==
    ASSUME NEW recs, PutRecs(recs), \A k \in DOMAIN recs : RecInv(k, recs[k])
    PROVE  RecsOK
BY DEF PutRecs, RecsOK

\* Deleting records does no harm.
LEMMA FewerRecs ==
    ASSUME NEW keys, DeleteRecs(keys)
    PROVE  RecsOK
BY DEF DeleteRecs, RecsOK

-----------------------------------------------------------------------------
(* PUT of a part.                                                          *)

\* A part whose PUT is rolled back is in no part list.
LEMMA RollingIsSpent ==
    ASSUME TypeInv, ListsAreRight, NEW p \in PartReq, pc[p] \in Rolling
    PROVE  Spent(p)
<1>1. pc[p] \notin PreSave /\ pc[p] \notin Saved
  BY DEF Rolling, PreSave, Saved, CleansPart
<1>2. UploadOf[p] \in Upload /\ PartNumber[p] \in Part /\ p # NoOid
  BY MultipartAssumption
<1>3. Entry(p) # p
  BY <1>1, <1>2 DEF ListsAreRight, IsParts, Entry
<1> QED
  BY <1>1, <1>3 DEF Spent

\* A PUT of a part deletes spent parts only, and forces records of spent
\* parts only.
LEMMA PartStored ==
    ASSUME StoreInv, NEW p \in PartReq, PartStep(p)
    PROVE  StoredOK /\ RecsOK
<1> USE DEF StoreInv
<1>1. PartInv(p)
  BY DEF PartsInv
<1>2. pdi' = pdi => RecsOK
  BY DEF RecsOK
<1>3. stored' = stored => StoredOK
  BY DEF StoredOK
<1>4. LeakOid(ObjKey(p)) = p /\ LeakOid(ChkKey(p)) = p /\ LeakOid(OldPartKey(p)) = old[p]
  BY DEF LeakOid, ObjKey, ChkKey, OldPartKey, OldKey
<1>5. CASE FetchMultipartMetadata(p) \/ FetchPartInfo(p) \/ StreamPartData(p)
  BY <1>5, <1>2, <1>3 DEF FetchMultipartMetadata, FetchPartInfo, StreamPartData, motr
<1>6. CASE CreatePartObject(p) \/ SavePartMetadata(p)
  BY <1>6, <1>2, <1>3 DEF CreatePartObject, SavePartMetadata, StoredOK
<1>7. CASE AddPartOidToProbableDeadOidList(p)
  <2>1. CASE PutRecs(BothPartRecs(p))
    <3>1. PICK recs : recs = BothPartRecs(p)
      OBVIOUS
    <3>2. \A k \in DOMAIN recs :
             (k = ObjKey(p) \/ (k = OldPartKey(p) /\ old[p] # NoOid))
                /\ recs[k] = Rec(p, "put", FALSE, NoVer)
      BY <3>1 DEF BothPartRecs
    <3>3. \A k \in DOMAIN recs : RecInv(k, recs[k])
      BY <3>2, <1>1, <1>4 DEF RecInv, Rec, Kinds, PartInv, PartOf
    <3> QED
      BY <2>1, <3>1, <3>3, RecsAreOK, <1>7, <1>3 DEF AddPartOidToProbableDeadOidList
  <2> QED
    BY <2>1, <1>7, <1>2, <1>3 DEF AddPartOidToProbableDeadOidList
<1>8. CASE MarkOldPart(p)
  <2>1. CASE PutRecs(OldPartRecs(p, TRUE))
    <3>1. PICK recs : recs = OldPartRecs(p, TRUE)
      OBVIOUS
    <3>2. \A k \in DOMAIN recs : k = OldPartKey(p) /\ recs[k] = Rec(p, "put", TRUE, NoVer)
      BY <3>1 DEF OldPartRecs
    <3>3. old[p] # NoOid /\ Spent(old[p]) /\ old[p] \in PartReq
      BY <1>8, <1>1 DEF MarkOldPart, PartCleanup, At, PartInv, CleansPart, PartOf
    <3>4. \A k \in DOMAIN recs : RecInv(k, recs[k])
      BY <3>2, <3>3, <1>4 DEF RecInv, Rec, Kinds
    <3> QED
      BY <2>1, <3>1, <3>4, RecsAreOK, <1>8, <1>3 DEF MarkOldPart, PartCleanup
  <2> QED
    BY <2>1, <1>8, <1>2, <1>3 DEF MarkOldPart, PartCleanup
<1>9. CASE PartLeakCheck(p)
  <2> DEFINE R == [k \in {ChkKey(p)} |-> Rec(p, "check", FALSE, NoVer)]
  <2>1. CASE PutRecs(R)
    <3>1. PICK recs : recs = R
      OBVIOUS
    <3>2. \A k \in DOMAIN recs : k = ChkKey(p) /\ recs[k] = Rec(p, "check", FALSE, NoVer)
      BY <3>1
    <3>3. pc[p] \in Saved
      BY <1>9 DEF PartLeakCheck, PartCleanup, At, Saved, CleansPart
    <3>4. \A k \in DOMAIN recs : RecInv(k, recs[k])
      BY <3>2, <3>3, <1>4 DEF RecInv, Rec, Kinds
    <3> QED
      BY <2>1, <3>1, <3>4, RecsAreOK, <1>9, <1>3 DEF PartLeakCheck, PartCleanup
  <2> QED
    BY <2>1, <1>9, <1>2, <1>3 DEF PartLeakCheck, PartCleanup
<1>10. CASE RemoveNewPartRecord(p) \/ RollbackNewPartRecord(p)
  BY <1>10, <1>2, <1>3, FewerRecs DEF RemoveNewPartRecord, RollbackNewPartRecord, PartCleanup
<1>11. CASE MarkNewPart(p)
  <2>1. CASE PutRecs(PartRecs(p, TRUE))
    <3>1. PICK recs : recs = PartRecs(p, TRUE)
      OBVIOUS
    <3>2. \A k \in DOMAIN recs : k = ObjKey(p) /\ recs[k] = Rec(p, "put", TRUE, NoVer)
      BY <3>1 DEF PartRecs
    <3>3. Spent(p)
      BY <1>11, RollingIsSpent DEF MarkNewPart, PartCleanup, At, Rolling
    <3>4. \A k \in DOMAIN recs : RecInv(k, recs[k])
      BY <3>2, <3>3, <1>4 DEF RecInv, Rec, Kinds
    <3> QED
      BY <2>1, <3>1, <3>4, RecsAreOK, <1>11, <1>3 DEF MarkNewPart, PartCleanup
  <2> QED
    BY <2>1, <1>11, <1>2, <1>3 DEF MarkNewPart, PartCleanup
<1>12. CASE DeleteOldPart(p)
  <2>1. Spent(old[p])
    BY <1>12, <1>1 DEF DeleteOldPart, DeletePartObject, At, PartInv, CleansPart
  <2> QED
    BY <1>12, <1>2, <2>1 DEF DeleteOldPart, DeletePartObject, StoredOK
<1>13. CASE DeleteNewPart(p)
  <2>1. Spent(p)
    BY <1>13, RollingIsSpent DEF DeleteNewPart, DeletePartObject, At, Rolling
  <2> QED
    BY <1>13, <1>2, <2>1 DEF DeleteNewPart, DeletePartObject, StoredOK
<1> QED
  BY <1>5, <1>6, <1>7, <1>8, <1>9, <1>10, <1>11, <1>12, <1>13 DEF PartStep

\* A step that leaves what the request read before as it is.
LEMMA PartGoesOn ==
    ASSUME Given, NEW p \in PartReq, PartInv(p), old'[p] = old[p],
           pc'[p] \in {"add_probable", "stream", "save_part"} => p \in stored',
           pc'[p] \in CleansPart => pc[p] \in CleansPart \/ old[p] = NoOid \/ Spent(old[p])',
           pc'[p] \in {"mark_old", "delete_old"} => old[p] # NoOid
    PROVE  PartInv(p)'
<1>1. ASSUME old[p] # NoOid
      PROVE  /\ PartOf(old[p], UploadOf[p], PartNumber[p])
             /\ pc'[old[p]] \in Saved
             /\ pc'[p] \in CleansPart => Spent(old[p])'
  <2>1. PICK o : o = old[p] /\ o = old'[p]
    OBVIOUS
  <2>2. Spent(o) => Spent(o)'
    BY SpentStays
  <2>3. Spent(old[p])' <=> Spent(o)'
    BY <2>1 DEF Spent, Entry, Open
  <2> QED
    BY <1>1, <2>1, <2>2, <2>3 DEF PartInv, Given, Moves, PartOf
<1> QED
  BY <1>1 DEF PartInv, PartOf

\* What a PUT of a part knows after its own step.
LEMMA PartOwn ==
    ASSUME StoreInv, Given, NEW p \in PartReq, PartStep(p)
    PROVE  PartInv(p)'
<1>1. PartInv(p) /\ p \in Req /\ pc \in [Req -> Labels]
  BY DEF StoreInv, PartsInv, TypeInv, Req
<1>2. CASE FetchMultipartMetadata(p)
  BY <1>2, <1>1, PartGoesOn DEF FetchMultipartMetadata, Go, CleansPart
<1>3. CASE FetchPartInfo(p)
  <2>1. old'[p] = Entry(p) /\ pc'[p] = "create_object"
    BY <1>3, <1>1 DEF FetchPartInfo, Go, Entry, Given, TypeInv
  <2>2. Entry(p) # NoOid => PartOf(Entry(p), UploadOf[p], PartNumber[p]) /\ pc[Entry(p)] \in Saved
    BY MultipartAssumption DEF Given, ListsAreRight, IsParts, Entry
  <2>3. Entry(p) # NoOid => pc'[Entry(p)] \in Saved
    BY <2>2 DEF Given, Moves, PartOf
  <2> QED
    BY <2>1, <2>2, <2>3 DEF PartInv, PartOf, CleansPart
<1>4. CASE CreatePartObject(p)
  BY <1>4, <1>1, PartGoesOn DEF CreatePartObject, Go, CleansPart
<1>5. CASE AddPartOidToProbableDeadOidList(p)
  BY <1>5, <1>1, PartGoesOn DEF AddPartOidToProbableDeadOidList, At, Go, CleansPart, PartInv
<1>6. CASE StreamPartData(p)
  BY <1>6, <1>1, PartGoesOn DEF StreamPartData, At, Go, CleansPart, PartInv, motr
<1>7. CASE SavePartMetadata(p)
  <2>1. old' = old /\ pc[p] = "save_part" /\ pc'[p] \in {"mark_old", "leak_check", "mark_new", "done"}
    BY <1>7, <1>1 DEF SavePartMetadata, At, Go
  <2>2. pc'[p] = "mark_old" => old[p] # NoOid
    BY <1>7, <1>1 DEF SavePartMetadata, Go, Overwrites
  <2>3. ASSUME pc'[p] \in CleansPart, old[p] # NoOid
        PROVE  Spent(old[p])'
    <3>1. PICK o : o = old[p]
      OBVIOUS
    <3>2. PartOf(o, UploadOf[p], PartNumber[p]) /\ pc[o] \in Saved /\ o # p
      BY <3>1, <2>3, <1>1, <2>1 DEF PartInv, Saved, CleansPart
    <3>3. pc'[o] \in Saved
      BY <3>2 DEF Given, Moves, PartOf
    <3>4. partIdx' = [partIdx EXCEPT ![UploadOf[p]][PartNumber[p]] = p]
      BY <1>7, <1>1, <2>3 DEF SavePartMetadata, Go, CleansPart
    <3>5. Entry(o)' = p
      BY <3>2, <3>4, MultipartAssumption DEF Given, TypeInv, PartMap, Entry, PartOf
    <3>6. Spent(o)'
      BY <3>2, <3>3, <3>5 DEF Spent, Saved, CleansPart, PreSave, PartOf
    <3> QED
      BY <3>1, <3>6, <2>1 DEF Spent, Entry, Open
  <2> QED
    BY <2>1, <2>2, <2>3, <1>1, PartGoesOn
<1>8. CASE MarkOldPart(p)
  BY <1>8, <1>1, PartGoesOn DEF MarkOldPart, PartCleanup, At, Go, CleansPart
<1>9. CASE PartLeakCheck(p)
  BY <1>9, <1>1, PartGoesOn DEF PartLeakCheck, PartCleanup, At, Go, CleansPart
<1>10. CASE RemoveNewPartRecord(p)
  BY <1>10, <1>1, PartGoesOn DEF RemoveNewPartRecord, PartCleanup, At, Go, CleansPart, Overwrites
<1>11. CASE DeleteOldPart(p)
  BY <1>11, <1>1, PartGoesOn DEF DeleteOldPart, DeletePartObject, At, Go, CleansPart
<1>12. CASE MarkNewPart(p)
  BY <1>12, <1>1, PartGoesOn DEF MarkNewPart, PartCleanup, At, Go, CleansPart
<1>13. CASE DeleteNewPart(p)
  BY <1>13, <1>1, PartGoesOn DEF DeleteNewPart, DeletePartObject, At, Go, CleansPart
<1>14. CASE RollbackNewPartRecord(p)
  BY <1>14, <1>1, PartGoesOn DEF RollbackNewPartRecord, PartCleanup, At, Go, CleansPart
<1> QED
  BY <1>2, <1>3, <1>4, <1>5, <1>6, <1>7, <1>8, <1>9, <1>10, <1>11, <1>12, <1>13, <1>14
  DEF PartStep

\* A step of a PUT of a part preserves the invariant.
LEMMA PartKeepsInv ==
    ASSUME StoreInv, NEW p \in PartReq, PartStep(p)
    PROVE  StoreInv'
<1>1. PartShape(p)
  BY PartHasShape DEF StoreInv
<1>2. TypeInv' /\ Moves /\ Others(p)
  BY <1>1, PartMoves DEF StoreInv
<1>3. Given
  BY <1>2 DEF Given, StoreInv
<1>4. StoredOK /\ RecsOK
  BY PartStored
<1>5. ListsAreRight' /\ RecsInv' /\ UploadPartsStored' /\ JobInv'
  BY <1>1, <1>3, <1>4, ListsStay, RecsStay, UploadStays, JobStays DEF StoreInv, PartShape
<1>6. PartsInv'
  BY <1>2, <1>3, <1>4, PartOwn, PartStays DEF StoreInv, PartsInv, Others, Req
<1>7. CompletesInv'
  BY <1>1, <1>2, <1>3, CompleteStays, IdsAreUnique
  DEF StoreInv, CompletesInv, Others, Req, PartShape
<1>8. AbortsInv'
  BY <1>1, <1>2, <1>3, AbortStays, IdsAreUnique DEF StoreInv, AbortsInv, Others, Req, PartShape
<1> QED
  BY <1>2, <1>5, <1>6, <1>7, <1>8 DEF StoreInv

\* So does a step of a request that initiates an upload.
LEMMA InitiateKeepsInv ==
    ASSUME StoreInv, NEW u \in Upload, InitiateStep(u)
    PROVE  StoreInv'
<1>1. InitiateShape(u)
  BY InitiateHasShape DEF StoreInv
<1>2. TypeInv' /\ Moves /\ Others(u)
  BY <1>1, InitiateMoves DEF StoreInv
<1>3. Given
  BY <1>2 DEF Given, StoreInv
<1>4. StoredOK /\ RecsOK
  BY <1>1 DEF InitiateShape, StoredOK, RecsOK
<1>5. ListsAreRight' /\ RecsInv' /\ UploadPartsStored' /\ JobInv'
  BY <1>1, <1>3, <1>4, ListsStay, RecsStay, UploadStays, JobStays DEF StoreInv, InitiateShape
<1>6. PartsInv'
  BY <1>2, <1>3, <1>4, PartStays, IdsAreUnique DEF StoreInv, PartsInv, Others, Req
<1>7. CompletesInv'
  BY <1>1, <1>2, <1>3, CompleteStays, IdsAreUnique
  DEF StoreInv, CompletesInv, Others, Req, InitiateShape
<1>8. AbortsInv'
  BY <1>1, <1>2, <1>3, AbortStays, IdsAreUnique DEF StoreInv, AbortsInv, Others, Req, InitiateShape
<1> QED
  BY <1>2, <1>5, <1>6, <1>7, <1>8 DEF StoreInv

-----------------------------------------------------------------------------
(* Part numbers.                                                           *)

\* A set of part numbers that is not empty has a first and a last one.
LEMMA EndsOfParts ==
    ASSUME NEW T \in SUBSET Part, T # {}
    PROVE  Min(T) \in T /\ Max(T) \in T
<1>1. MaxPart \in Nat /\ T \in SUBSET Nat /\ \A n \in T : n <= MaxPart
  BY MultipartAssumption DEF Part
<1>2. \A S \in SUBSET Nat : S # {} => \E x \in S : \A y \in S : x <= y
  <2> SUFFICES ASSUME NEW S \in SUBSET Nat, S # {}
               PROVE  \E x \in S : \A y \in S : x <= y
    OBVIOUS
  <2>1. PICK x \in S : \A y \in S : ~(<<y, x>> \in OpToRel(<, Nat))
    BY NatLessThanWellFounded, WFMin, Zenon
  <2>2. \A y \in S : ~(y < x)
    BY <2>1, Zenon DEF OpToRel
  <2> QED
    BY <2>2
<1>3. \E x \in T : \A y \in T : x <= y
  BY <1>1, <1>2
<1>4. \E x \in T : \A y \in T : x >= y
  <2> DEFINE S == {MaxPart - n : n \in T}
  <2>1. \A n \in T : n \in Nat /\ MaxPart - n \in Nat
    BY <1>1
  <2>2. S \in SUBSET Nat /\ S # {}
    BY <2>1, Zenon
  <2>3. PICK x \in S : \A y \in S : x <= y
    BY <2>2, <1>2
  <2>4. PICK m \in T : x = MaxPart - m
    OBVIOUS
  <2>5. \A n \in T : MaxPart - m <= MaxPart - n
    BY <2>3, <2>4
  <2> QED
    BY <2>5, <1>1
<1> QED
  BY <1>3, <1>4 DEF Min, Max

\* A list of parts without numbers is the empty one.
LEMMA NoNumbers ==
    ASSUME NEW parts \in PartMap, NumbersOf(parts) = {}
    PROVE  parts = NoParts
BY DEF NumbersOf, PartMap, NoParts

\* A set of numbers without its last one is empty only if it had one.
LEMMA NumbersAreLeft ==
    ASSUME NEW T \in SUBSET Part, T # {}, T \ {Max(T)} = {}
    PROVE  Cardinality(T) = 1
<1>1. T = {Max(T)}
  BY EndsOfParts
<1> QED
  BY <1>1, FS_Singleton

-----------------------------------------------------------------------------
(* DELETE of an upload.                                                    *)

\* The parts of an upload that is closed are spent.
LEMMA ClosedIsSpent ==
    ASSUME NEW u, ~Open(u), NEW parts, IsParts(parts, u), NEW n \in NumbersOf(parts)
    PROVE  Spent(parts[n])
BY DEF IsParts, NumbersOf, Spent, PartOf, Saved, CleansPart, PreSave

\* A DELETE of an upload deletes and records spent parts only.
LEMMA AbortStored ==
    ASSUME StoreInv, NEW a \in Abort, AbortStep(a)
    PROVE  StoredOK /\ RecsOK
<1>1. AbortInv(a) /\ seen[a] \in PartMap /\ todo[a] \in SUBSET Part
  BY DEF StoreInv, AbortsInv, TypeInv
<1>2. pdi' = pdi => RecsOK
  BY DEF RecsOK
<1>3. stored' = stored => StoredOK
  BY DEF StoredOK
<1>4. pc[a] \in HasAborted => \A n \in NumbersOf(seen[a]) : Spent(seen[a][n])
  BY <1>1, ClosedIsSpent DEF AbortInv, Open
<1>5. ASSUME NEW forced \in BOOLEAN, forced => pc[a] \in HasAborted, PutRecs(AbortRecs(a, forced))
      PROVE  RecsOK
  <2>1. PICK recs : recs = AbortRecs(a, forced)
    OBVIOUS
  <2>2. \A k \in DOMAIN recs :
            /\ \E n \in NumbersOf(seen[a]) : k = ObjKey(seen[a][n])
            /\ recs[k] = Rec(a, "abort", forced, NoVer)
    BY <2>1 DEF AbortRecs, AbortKeys
  <2>3. \A k \in DOMAIN recs : LeakOid(k) \in PartReq /\ (forced => Spent(LeakOid(k)))
    BY <2>2, <1>1, <1>4, <1>5 DEF LeakOid, ObjKey, AbortInv, IsParts, PartOf, NumbersOf
  <2>4. \A k \in DOMAIN recs : RecInv(k, recs[k])
    BY <2>2, <2>3 DEF RecInv, Rec, Kinds
  <2> QED
    BY <1>5, <2>1, <2>4, RecsAreOK
<1>6. CASE GetMultipartMetadata(a) \/ GetNextParts(a)
  BY <1>6, <1>2, <1>3 DEF GetMultipartMetadata, GetNextParts, motr
<1>7. CASE AddPartsOidsToProbableDeadOidList(a)
  BY <1>7, <1>2, <1>3, <1>5 DEF AddPartsOidsToProbableDeadOidList
<1>8. CASE AbortDeleteMultipartMetadata(a) \/ DeletePartIndexWithParts(a)
  BY <1>8, <1>2, <1>3 DEF AbortDeleteMultipartMetadata, DeletePartIndexWithParts
<1>9. CASE MarkOidsForDeletion(a, "mark_parts", "delete_part")
  BY <1>9, <1>2, <1>3, <1>5 DEF MarkOidsForDeletion, At, HasAborted
<1>10. CASE MarkOidsForDeletion(a, "mark_left", "delete_left")
  BY <1>10, <1>2, <1>3, <1>5 DEF MarkOidsForDeletion, At, HasAborted
<1>11. ASSUME NEW label \in {"delete_part", "delete_left"}, DeletePart(a, label)
      PROVE  StoredOK /\ RecsOK
  <2>1. Max(todo[a]) \in NumbersOf(seen[a])
    BY <1>11, <1>1, EndsOfParts DEF DeletePart, At, AbortInv
  <2>2. Spent(seen[a][Max(todo[a])])
    BY <1>11, <1>4, <2>1 DEF DeletePart, At, HasAborted
  <2> QED
    BY <1>11, <1>2, <2>2 DEF DeletePart, StoredOK
<1>12. CASE RemoveProbableRecords(a)
  BY <1>12, <1>3, FewerRecs DEF RemoveProbableRecords
<1> QED
  BY <1>6, <1>7, <1>8, <1>9, <1>10, <1>11, <1>12 DEF AbortStep

\* What a DELETE of an upload knows after its own step.
LEMMA AbortOwn ==
    ASSUME StoreInv, Given, NEW a \in Abort, AbortStep(a), AbortShape(a)
    PROVE  AbortInv(a)'
<1>1. /\ AbortInv(a) /\ a \in Req /\ a \in Complete \cup Abort /\ pc \in [Req -> Labels]
      /\ seen[a] \in PartMap /\ seen'[a] \in PartMap /\ todo[a] \in SUBSET Part
  BY DEF StoreInv, AbortsInv, TypeInv, Req, Given
<1>2. IsParts(seen[a], UploadOf[a])'
  <2>1. IsParts(seen'[a], UploadOf[a])
    BY MultipartAssumption, <1>1 DEF Given, ListsAreRight, AbortInv, AbortShape, TypeInv
  <2>2. PICK s : s = seen'[a]
    OBVIOUS
  <2>3. IsParts(s, UploadOf[a])'
    BY <2>1, <2>2, PartsStay
  <2> QED
    BY <2>2, <2>3
<1>3. pc'[a] \in HasAborted => UploadOf[a] \notin mp'
  BY <1>1 DEF AbortShape, AbortInv
<1>4. pc'[a] \in {"delete_part", "delete_left"} => todo'[a] # {} /\ todo'[a] \subseteq NumbersOf(seen'[a])
  <2>1. CASE GetMultipartMetadata(a) \/ GetNextParts(a) \/ AddPartsOidsToProbableDeadOidList(a)
             \/ AbortDeleteMultipartMetadata(a) \/ DeletePartIndexWithParts(a)
             \/ RemoveProbableRecords(a)
    BY <2>1, <1>1 DEF GetMultipartMetadata, GetNextParts, AddPartsOidsToProbableDeadOidList,
       AbortDeleteMultipartMetadata, DeletePartIndexWithParts, RemoveProbableRecords, Go
  <2>2. ASSUME NEW l, NEW next, MarkOidsForDeletion(a, l, next), next # "done"
        PROVE  pc'[a] # "done" => todo'[a] # {} /\ todo'[a] \subseteq NumbersOf(seen'[a])
    BY <2>2, <1>1, NoNumbers DEF MarkOidsForDeletion, Go, Given, TypeInv
  <2>3. ASSUME NEW l \in {"delete_part", "delete_left"}, DeletePart(a, l)
        PROVE  pc'[a] \in {"delete_part", "delete_left"} =>
                    todo'[a] # {} /\ todo'[a] \subseteq NumbersOf(seen'[a])
    <3>1. pc[a] = l /\ seen' = seen /\ todo[a] # {} /\ todo[a] \subseteq NumbersOf(seen[a])
      BY <2>3, <1>1 DEF DeletePart, At, AbortInv
    <3>2. pc'[a] \in {"delete_part", "delete_left"} =>
             todo'[a] = todo[a] \ {Max(todo[a])} /\ Cardinality(todo[a]) # 1
      BY <2>3, <1>1 DEF DeletePart, Go, AfterParts, Given, TypeInv
    <3> QED
      BY <3>1, <3>2, <1>1, NumbersAreLeft
  <2> QED
    BY <2>1, <2>2, <2>3 DEF AbortStep
<1> QED
  BY <1>2, <1>3, <1>4 DEF AbortInv

\* A step of an abort preserves the invariant.
LEMMA AbortKeepsInv ==
    ASSUME StoreInv, NEW a \in Abort, AbortStep(a)
    PROVE  StoreInv'
<1>1. AbortShape(a)
  BY AbortHasShape DEF StoreInv
<1>2. TypeInv' /\ Moves /\ Others(a)
  BY <1>1, AbortMoves DEF StoreInv
<1>3. Given
  BY <1>2 DEF Given, StoreInv
<1>4. StoredOK /\ RecsOK
  BY AbortStored
<1>5. ListsAreRight' /\ RecsInv' /\ UploadPartsStored' /\ JobInv'
  BY <1>1, <1>3, <1>4, ListsStay, RecsStay, UploadStays, JobStays DEF StoreInv, AbortShape
<1>6. PartsInv'
  BY <1>2, <1>3, <1>4, PartStays, IdsAreUnique DEF StoreInv, PartsInv, Others, Req
<1>7. \A r \in (Complete \cup Abort) \ {a} : seen'[r] = seen[r] /\ todo'[r] = todo[r]
  BY <1>1 DEF AbortShape, StoreInv, TypeInv
<1>8. CompletesInv'
  BY <1>1, <1>2, <1>3, <1>7, CompleteStays, IdsAreUnique
  DEF StoreInv, CompletesInv, Others, Req, AbortShape
<1>9. AbortsInv'
  BY <1>1, <1>2, <1>3, <1>7, AbortStays, AbortOwn DEF StoreInv, AbortsInv, Others, Req
<1> QED
  BY <1>2, <1>5, <1>6, <1>8, <1>9 DEF StoreInv

-----------------------------------------------------------------------------
(* POST that completes an upload.                                          *)

\* The parts of the version a complete request overwrites.
LEMMA OverwrittenIsSpent ==
    ASSUME StoreInv, NEW c \in Complete, NEW n \in NumbersOf(was[c])
    PROVE  was[c][n] \in PartReq /\ Spent(was[c][n]) /\ old[c] \in Complete
<1>1. CompleteInv(c) /\ ListsAreRight
  BY DEF StoreInv, CompletesInv
<1>2. old[c] \in Complete
  BY <1>1 DEF CompleteInv, NumbersOf, NoParts
<1>3. ~Open(UploadOf[old[c]]) /\ IsParts(was[c], UploadOf[old[c]])
  BY <1>1, <1>2, TookIsClosed DEF CompleteInv
<1>4. Spent(was[c][n])
  BY <1>3, ClosedIsSpent
<1> QED
  BY <1>2, <1>4 DEF Spent

\* A POST that completes an upload deletes and records spent parts only:
\* those of the object it overwrites.
LEMMA CompleteStored ==
    ASSUME StoreInv, NEW c \in Complete, CompleteStep(c)
    PROVE  StoredOK /\ RecsOK
<1>1. CompleteInv(c) /\ was[c] \in PartMap /\ todo[c] \in SUBSET Part /\ old[c] \in Version \cup {NoVer}
  BY DEF StoreInv, CompletesInv, TypeInv
<1>2. pdi' = pdi => RecsOK
  BY DEF RecsOK
<1>3. stored' = stored => StoredOK
  BY DEF StoredOK
<1>4. ASSUME NEW forced \in BOOLEAN, old[c] # NoVer, PutRecs(OldRecs(c, forced))
      PROVE  RecsOK
  <2>1. PICK recs : recs = OldRecs(c, forced)
    OBVIOUS
  <2>2. \A k \in DOMAIN recs :
            \/ /\ k = ParentKey(c) /\ OverwritesParts(c)
               /\ recs[k] = Rec(c, "parent", forced, old[c])
            \/ /\ k = ParentKey(c) /\ ~OverwritesParts(c)
               /\ recs[k] = Rec(c, "simple", forced, old[c])
            \/ /\ k \in OldPartKeys(c)
               /\ recs[k] = Rec(c, "ext", forced, old[c])
    BY <2>1 DEF OldRecs, OldRecKeys
  <2>3. ~OverwritesParts(c) => LeakOid(ParentKey(c)) \notin PartReq
    BY <1>1, <1>4, IdsAreUnique
    DEF ParentKey, LeakOid, OldKey, OidOf, OverwritesParts, Overwritten, Version, Req
  <2>4. OverwritesParts(c) => Took(old[c]) /\ old[c] \in Complete
    BY <1>1 DEF CompleteInv, OverwritesParts, Overwritten
  <2>5. \A k \in OldPartKeys(c) :
            Spent(LeakOid(k)) /\ LeakOid(k) \in PartReq /\ old[c] \in Complete /\ Took(old[c])
    BY OverwrittenIsSpent, <1>1 DEF OldPartKeys, LeakOid, ObjKey, CompleteInv
  <2>6. \A k \in DOMAIN recs : RecInv(k, recs[k])
    BY <2>2, <2>3, <2>4, <2>5 DEF RecInv, Rec, Kinds
  <2> QED
    BY <1>4, <2>1, <2>6, RecsAreOK
<1>5. CASE FetchObjectInfo(c) \/ FetchExtObjectInfo(c) \/ FetchMultipartInfo(c) \/ GetNextPartsInfo(c)
  BY <1>5, <1>2, <1>3
  DEF FetchObjectInfo, FetchExtObjectInfo, FetchMultipartInfo, GetNextPartsInfo, motr
<1>6. CASE AddObjectOidToProbableDeadOidList(c)
  BY <1>6, <1>1, <1>2, <1>3, <1>4 DEF AddObjectOidToProbableDeadOidList, At, CompleteInv
<1>7. CASE SaveVersion(c) \/ SaveExtended(c) \/ SaveObject(c) \/ DeleteMultipartMetadata(c)
           \/ DeletePartListIndex(c) \/ RemoveOldObjectVersionMetadata(c) \/ RemoveOldFragments(c)
  BY <1>7, <1>2, <1>3 DEF SaveVersion, SaveExtended, SaveObject, DeleteMultipartMetadata,
     DeletePartListIndex, RemoveOldObjectVersionMetadata, RemoveOldFragments
<1>8. CASE MarkOldOidForDeletion(c)
  BY <1>8, <1>1, <1>2, <1>3, <1>4 DEF MarkOldOidForDeletion, CompleteRecords, At, CompleteInv
<1>9. CASE DeleteOldObject(c)
  <2>1. ASSUME todo[c] # {}
        PROVE  Spent(was[c][Max(todo[c])])
    <3>1. Max(todo[c]) \in NumbersOf(was[c])
      BY <1>9, <2>1, <1>1, EndsOfParts DEF DeleteOldObject, At, CompleteInv
    <3> QED
      BY <3>1, OverwrittenIsSpent
  <2> QED
    BY <1>9, <1>2, <2>1 DEF DeleteOldObject, StoredOK
<1>10. CASE RemoveOldOidProbableRecord(c)
  BY <1>10, <1>2, <1>3, FewerRecs DEF RemoveOldOidProbableRecord, CompleteRecords
<1>11. CASE AddOidForParallelLeakCheck(c)
  <2> DEFINE R == [k \in {ChkKey(UploadOf[c])} |-> Rec(c, "parent", FALSE, c)]
  <2>1. CASE PutRecs(R)
    <3>1. PICK recs : recs = R
      OBVIOUS
    <3>2. \A k \in DOMAIN recs : recs[k] = Rec(c, "parent", FALSE, c)
      BY <3>1
    <3>3. Took(c)
      BY <1>11 DEF AddOidForParallelLeakCheck, CompleteRecords, At, Took, TookLife, CompleteCleanup
    <3>4. \A k \in DOMAIN recs : RecInv(k, recs[k])
      BY <3>2, <3>3 DEF RecInv, Rec, Kinds
    <3> QED
      BY <2>1, <3>1, <3>4, RecsAreOK, <1>11, <1>3 DEF AddOidForParallelLeakCheck, CompleteRecords
  <2> QED
    BY <2>1, <1>11, <1>2, <1>3 DEF AddOidForParallelLeakCheck, CompleteRecords
<1> QED
  BY <1>5, <1>6, <1>7, <1>8, <1>9, <1>10, <1>11 DEF CompleteStep

\* What a POST that completes an upload knows after its own step.
LEMMA CompleteOwn ==
    ASSUME StoreInv, Given, NEW c \in Complete, CompleteStep(c), CompleteShape(c)
    PROVE  CompleteInv(c)'
<1>1. /\ CompleteInv(c) /\ c \in Req /\ c \in Complete \cup Abort /\ pc \in [Req -> Labels]
      /\ DOMAIN old = Req /\ was[c] \in PartMap /\ todo[c] \in SUBSET Part
  BY DEF StoreInv, CompletesInv, TypeInv, Req
<1>2. IsParts(seen[c], UploadOf[c])'
  <2>1. IsParts(seen'[c], UploadOf[c])
    BY MultipartAssumption, <1>1 DEF Given, ListsAreRight, CompleteInv, CompleteShape, TypeInv
  <2>2. PICK s : s = seen'[c]
    OBVIOUS
  <2>3. IsParts(s, UploadOf[c])'
    BY <2>1, <2>2, PartsStay
  <2> QED
    BY <2>2, <2>3
<1>3. /\ old'[c] \in Complete => Took(old'[c]) /\ IsParts(was'[c], UploadOf[old'[c]])
      /\ old'[c] \notin Complete => was'[c] = NoParts
  <2>1. CASE pc[c] = "idle" /\ old' = [old EXCEPT ![c] = objList]
    <3>1. was'[c] = NoParts /\ old'[c] = objList
      BY <2>1, <1>1 DEF CompleteInv, CompleteShape
    <3>2. objList \in Complete => Took(objList)
      BY DEF Given, ListsAreRight
    <3> QED
      BY <3>1, <3>2 DEF IsParts, NoParts
  <2>2. CASE old' = old /\ pc[c] = "fetch_ext" /\ was' = [was EXCEPT ![c] = ext[old[c]]]
    <3>1. old[c] \in Complete /\ was'[c] = ext[old[c]]
      BY <2>2 DEF Given, TypeInv
    <3> QED
      BY <2>2, <3>1, <1>1 DEF CompleteInv, Given, ListsAreRight
  <2>3. CASE old' = old /\ was' = was
    BY <2>3, <1>1 DEF CompleteInv
  <2> QED
    BY <2>1, <2>2, <2>3 DEF CompleteShape
<1>4. old'[c] \in Complete => Took(old[c])' /\ IsParts(was[c], UploadOf[old[c]])'
  <2>1. PICK o, w : o = old'[c] /\ w = was'[c]
    OBVIOUS
  <2>2. o \in Complete => Took(o)' /\ IsParts(w, UploadOf[o])'
    BY <2>1, <1>3, TookStays, PartsStay
  <2> QED
    BY <2>1, <2>2 DEF Took, TookLife
<1>5. pc'[c] # "idle"
  BY DEF CompleteShape
<1>6. /\ pc'[c] = "delete_old" => todo'[c] \subseteq NumbersOf(was'[c])
      /\ pc'[c] \in {"add_probable", "mark_old", "delete_old", "remove_version", "remove_ext",
                     "remove_records"} => old'[c] # NoVer
      /\ pc'[c] \in {"remove_version", "remove_ext"} => old'[c] \in Complete
  <2>1. CASE FetchObjectInfo(c) \/ FetchExtObjectInfo(c) \/ FetchMultipartInfo(c)
    BY <2>1, <1>1 DEF FetchObjectInfo, FetchExtObjectInfo, FetchMultipartInfo, Go
  <2>2. CASE GetNextPartsInfo(c) \/ AddObjectOidToProbableDeadOidList(c)
    BY <2>2, <1>1 DEF GetNextPartsInfo, AddObjectOidToProbableDeadOidList, Go, Overwritten
  <2>3. CASE SaveVersion(c) \/ SaveExtended(c) \/ SaveObject(c) \/ DeleteMultipartMetadata(c)
    BY <2>3, <1>1 DEF SaveVersion, SaveExtended, SaveObject, DeleteMultipartMetadata, Go
  <2>4. CASE DeletePartListIndex(c)
    BY <2>4, <1>1 DEF DeletePartListIndex, Go, Overwritten
  <2>5. CASE MarkOldOidForDeletion(c)
    BY <2>5, <1>1 DEF MarkOldOidForDeletion, CompleteRecords, At, Go, CompleteInv, Given, TypeInv
  <2>6. CASE DeleteOldObject(c)
    <3>1. old' = old /\ was' = was /\ pc[c] = "delete_old" /\ todo[c] \subseteq NumbersOf(was[c])
      BY <2>6, <1>1 DEF DeleteOldObject, At, CompleteInv
    <3>2. todo'[c] \subseteq todo[c]
      BY <2>6, <1>1 DEF DeleteOldObject, Given, TypeInv
    <3>3. pc'[c] # "remove_ext" /\ (pc'[c] = "remove_version" => todo[c] # {})
      BY <2>6, <1>1 DEF DeleteOldObject, Go
    <3>4. todo[c] # {} => old[c] \in Complete
      BY <3>1, OverwrittenIsSpent
    <3> QED
      BY <3>1, <3>2, <3>3, <3>4, <1>1 DEF CompleteInv
  <2>7. CASE RemoveOldObjectVersionMetadata(c)
    BY <2>7, <1>1 DEF RemoveOldObjectVersionMetadata, At, Go, CompleteInv
  <2>8. CASE RemoveOldFragments(c)
    BY <2>8, <1>1 DEF RemoveOldFragments, At, Go, CompleteInv
  <2>9. CASE RemoveOldOidProbableRecord(c) \/ AddOidForParallelLeakCheck(c)
    BY <2>9, <1>1 DEF RemoveOldOidProbableRecord, AddOidForParallelLeakCheck, CompleteRecords, Go
  <2> QED
    BY <2>1, <2>2, <2>3, <2>4, <2>5, <2>6, <2>7, <2>8, <2>9 DEF CompleteStep
<1> QED
  BY <1>2, <1>3, <1>4, <1>5, <1>6 DEF CompleteInv

\* A step of a complete request preserves the invariant.
LEMMA CompleteKeepsInv ==
    ASSUME StoreInv, NEW c \in Complete, CompleteStep(c)
    PROVE  StoreInv'
<1>1. CompleteShape(c)
  BY CompleteHasShape DEF StoreInv
<1>2. TypeInv' /\ Moves /\ Others(c)
  BY <1>1, CompleteMoves DEF StoreInv
<1>3. Given
  BY <1>2 DEF Given, StoreInv
<1>4. StoredOK /\ RecsOK
  BY CompleteStored
<1>5. ListsAreRight' /\ RecsInv' /\ UploadPartsStored' /\ JobInv'
  BY <1>1, <1>3, <1>4, ListsStay, RecsStay, UploadStays, JobStays DEF StoreInv, CompleteShape
<1>6. PartsInv'
  BY <1>2, <1>3, <1>4, PartStays, IdsAreUnique DEF StoreInv, PartsInv, Others, Req
<1>7. /\ \A r \in (Complete \cup Abort) \ {c} : seen'[r] = seen[r] /\ todo'[r] = todo[r]
      /\ \A d \in Complete \ {c} : was'[d] = was[d]
  BY <1>1 DEF CompleteShape, StoreInv, TypeInv
<1>8. CompletesInv'
  BY <1>1, <1>2, <1>3, <1>7, CompleteStays, CompleteOwn DEF StoreInv, CompletesInv, Others, Req
<1>9. AbortsInv'
  BY <1>1, <1>2, <1>3, <1>7, AbortStays, IdsAreUnique DEF StoreInv, AbortsInv, Others, Req
<1> QED
  BY <1>2, <1>5, <1>6, <1>8, <1>9 DEF StoreInv

-----------------------------------------------------------------------------
(* Background delete.                                                      *)

\* A record leads to part numbers.
LEMMA PartsOfRecType ==
    ASSUME NEW k, NEW rec, RecInv(k, rec)
    PROVE  PartsOfRec(k, rec) \subseteq Part
BY MultipartAssumption DEF PartsOfRec, RecInv

\* Background delete deletes spent parts only.
LEMMA RecoveryStored ==
    ASSUME StoreInv, RecoveryStep
    PROVE  StoredOK /\ RecsOK
<1>1. pdi' = pdi => RecsOK
  BY DEF RecsOK
<1>2. stored' = stored => StoredOK
  BY DEF StoredOK
<1>3. bd.step # "idle" => bd # NoJob
  BY DEF NoJob
<1>4. CASE (\E k \in DOMAIN pdi : ProcessResults(k)) \/ CompareWithLive \/ DeleteVersionEntry
           \/ DelExtendedEntry
  BY <1>4, <1>1, <1>2
  DEF ProcessResults, CompareWithLive, DeleteVersionEntry, DelExtendedEntry, motr
<1>5. CASE DeleteObjectFromStorage
  BY <1>5, <1>1, <1>3 DEF DeleteObjectFromStorage, StoreInv, JobInv, StoredOK
<1>6. CASE DelObjFromExtendedIndex
  <2>1. bd.step = "parts" /\ bd.parts # {} /\ bd # NoJob
    BY <1>6, <1>3 DEF DelObjFromExtendedIndex
  <2>2. /\ bd.parts \subseteq Part
        /\ bd.rec.ver \in Complete /\ Took(bd.rec.ver)
    BY <2>1 DEF StoreInv, JobInv, RecInv
  <2>3. NextPart \in Part
    BY <2>1, <2>2, EndsOfParts DEF NextPart
  <2>4. IsParts(ext[bd.rec.ver], UploadOf[bd.rec.ver]) /\ ~Open(UploadOf[bd.rec.ver])
    BY <2>2, TookIsClosed DEF StoreInv, ListsAreRight
  <2>5. ext[bd.rec.ver][NextPart] # NoOid => Spent(ext[bd.rec.ver][NextPart])
    BY <2>3, <2>4, ClosedIsSpent DEF NumbersOf
  <2> QED
    BY <1>6, <1>1, <2>5, MultipartAssumption DEF DelObjFromExtendedIndex, StoredOK
<1>7. CASE DeleteRecord
  BY <1>7, <1>2, FewerRecs DEF DeleteRecord
<1> QED
  BY <1>4, <1>5, <1>6, <1>7 DEF RecoveryStep

\* What background delete knows of its record after its own step.
LEMMA RecoveryJob ==
    ASSUME StoreInv, RecoveryStep, Given
    PROVE  JobInv'
<1>1. bd.step # "idle" => bd # NoJob
  BY DEF NoJob
<1>2. ASSUME NEW k \in DOMAIN pdi, ProcessResults(k)
      PROVE  JobInv'
  <2>1. PICK rec : rec = pdi[k]
    OBVIOUS
  <2>2. RecInv(k, rec) /\ RecInv(k, rec)' /\ PartsOfRec(k, rec) \subseteq Part
    BY <2>1, RecStays, PartsOfRecType DEF StoreInv, RecsInv
  <2>3. PICK step :
            /\ bd' = Job(step, k, rec, PartsOfRec(k, rec))
            /\ \/ step = "version" /\ rec.kind = "parent"
               \/ step = "object" /\ rec.forced /\ rec.kind # "parent"
               \/ step = "parts" /\ rec.kind = "ext"
               \/ step = "compare" /\ rec.kind \notin {"ext", "put"}
    BY <1>2, <2>1 DEF ProcessResults
  <2>4. bd'.step = step /\ bd'.key = k /\ bd'.rec = rec /\ bd'.parts = PartsOfRec(k, rec)
    BY <2>3 DEF Job
  <2>5. step = "object" => LeakOid(k) \notin PartReq \/ Spent(LeakOid(k))'
    BY <2>2, <2>3 DEF RecInv, Kinds
  <2>6. RecInv(bd.key, bd.rec)'
    BY <2>2, <2>4
  <2> QED
    BY <2>2, <2>3, <2>4, <2>5, <2>6 DEF JobInv, RecInv, Kinds, Job
<1>3. ASSUME bd # NoJob, NEW step, NEW parts \in SUBSET Part,
             bd' = Job(step, bd.key, bd.rec, parts),
             step \in {"object", "version", "parts", "entry", "compare", "record"},
             step = "object" => LeakOid(bd.key) \notin PartReq \/ Spent(LeakOid(bd.key)),
             step = "version" => bd.rec.kind \in {"parent", "simple"},
             step \in {"parts", "entry"} => bd.rec.kind \in {"ext", "parent"},
             step = "entry" => parts # {},
             step = "compare" => bd.rec.kind \in {"parent", "simple", "check", "abort"}
      PROVE  JobInv'
  <2>1. PICK k, rec : k = bd.key /\ rec = bd.rec
    OBVIOUS
  <2>2. RecInv(k, rec)'
    BY <1>3, <2>1, RecStays DEF StoreInv, JobInv
  <2>3. bd'.step = step /\ bd'.key = k /\ bd'.rec = rec /\ bd'.parts = parts
    BY <1>3, <2>1 DEF Job
  <2>4. step = "object" => LeakOid(k) \notin PartReq \/ Spent(LeakOid(k))'
    BY <1>3, <2>1, SpentStays DEF LeakOid
  <2>5. RecInv(bd.key, bd.rec)'
    BY <2>2, <2>3
  <2> QED
    BY <1>3, <2>1, <2>3, <2>4, <2>5 DEF JobInv, Job
<1>4. ASSUME bd # NoJob, NEW step
      PROVE  [bd EXCEPT !.step = step] = Job(step, bd.key, bd.rec, bd.parts)
  BY <1>4 DEF StoreInv, JobInv, Job
<1>5. CASE CompareWithLive
  <2>1. bd # NoJob /\ bd.step = "compare"
    BY <1>5, <1>1 DEF CompareWithLive
  <2>2. /\ bd.rec.kind \in {"parent", "simple", "check", "abort"}
        /\ RecInv(bd.key, bd.rec) /\ bd.parts \in SUBSET Part
    BY <2>1 DEF StoreInv, JobInv
  <2>3. \/ bd' = NoJob
        \/ bd' = [bd EXCEPT !.step = "record"]
        \/ bd' = [bd EXCEPT !.step = "version"] /\ bd.rec.kind = "parent"
        \/ bd' = [bd EXCEPT !.step = "object"] /\ bd.rec.kind = "simple"
        \/ /\ bd' = [bd EXCEPT !.step = "object"] /\ bd.rec.kind = "check"
           /\ PartEntry(bd.key) # LeakOid(bd.key)
    BY <1>5, <2>2 DEF CompareWithLive
  <2>4. CASE bd' = NoJob
    BY <2>4 DEF JobInv, NoJob
  <2>5. bd.rec.kind = "simple" => LeakOid(bd.key) \notin PartReq
    BY <2>2 DEF RecInv
  <2>6. bd.rec.kind = "check" /\ PartEntry(bd.key) # LeakOid(bd.key) => Spent(LeakOid(bd.key))
    BY <2>2 DEF RecInv, PartEntry, Spent, Entry, Saved, CleansPart, PreSave
  <2> QED
    BY <2>1, <2>2, <2>3, <2>4, <2>5, <2>6, <1>3, <1>4
<1>6. CASE DeleteObjectFromStorage
  <2>1. bd # NoJob /\ bd.parts \in SUBSET Part
    BY <1>6, <1>1 DEF DeleteObjectFromStorage, StoreInv, JobInv
  <2> QED
    BY <1>6, <2>1, <1>3, <1>4 DEF DeleteObjectFromStorage, DoJob
<1>7. CASE DeleteVersionEntry
  <2>1. bd # NoJob /\ bd.parts \in SUBSET Part /\ bd.rec.kind \in {"parent", "simple"}
    BY <1>7, <1>1 DEF DeleteVersionEntry, StoreInv, JobInv
  <2> QED
    BY <1>7, <2>1, <1>3, <1>4 DEF DeleteVersionEntry, DoJob
<1>8. CASE DelObjFromExtendedIndex
  <2>1. bd # NoJob /\ bd.parts \in SUBSET Part /\ bd.rec.kind \in {"ext", "parent"} /\ bd.parts # {}
    BY <1>8, <1>1 DEF DelObjFromExtendedIndex, StoreInv, JobInv
  <2> QED
    BY <1>8, <2>1, <1>3, <1>4 DEF DelObjFromExtendedIndex, DoJob
<1>9. CASE DelExtendedEntry
  <2>1. bd # NoJob /\ bd.parts \in SUBSET Part /\ bd.rec.kind \in {"ext", "parent"}
    BY <1>9, <1>1 DEF DelExtendedEntry, StoreInv, JobInv
  <2>2. bd' = Job("parts", bd.key, bd.rec, bd.parts \ {NextPart})
    BY <1>9, <2>1 DEF DelExtendedEntry, StoreInv, JobInv, Job
  <2>3. bd.parts \ {NextPart} \in SUBSET Part
    BY <2>1
  <2> QED
    BY <2>1, <2>2, <2>3, <1>3
<1>10. CASE DeleteRecord
  BY <1>10 DEF DeleteRecord, JobInv, NoJob
<1> QED
  BY <1>2, <1>5, <1>6, <1>7, <1>8, <1>9, <1>10 DEF RecoveryStep

\* A step of background delete preserves the invariant.
LEMMA RecoveryKeepsInv ==
    ASSUME StoreInv, RecoveryStep
    PROVE  StoreInv'
<1>1. RecoveryShape
  BY RecoveryHasShape
<1>2. TypeInv' /\ Moves
  BY <1>1, RecoveryMoves DEF StoreInv
<1>3. Given
  BY <1>2 DEF Given, StoreInv
<1>4. StoredOK /\ RecsOK
  BY RecoveryStored
<1>5. ListsAreRight' /\ RecsInv' /\ UploadPartsStored'
  BY <1>3, <1>4, ListsStay, RecsStay, UploadStays DEF StoreInv
<1>6. JobInv'
  BY <1>3, RecoveryJob
<1>7. UNCHANGED <<pc, old, seen, was, todo>>
  BY <1>1 DEF RecoveryShape, reqs
<1>8. PartsInv' /\ CompletesInv' /\ AbortsInv'
  BY <1>3, <1>4, <1>7, PartStays, CompleteStays, AbortStays
  DEF StoreInv, PartsInv, CompletesInv, AbortsInv
<1> QED
  BY <1>2, <1>5, <1>6, <1>8 DEF StoreInv

\* So does a server that stops, and a step that changes nothing.
LEMMA StopKeepsInv ==
    ASSUME StoreInv, UNCHANGED <<motr, pc, old, seen, was, todo, bd>>
    PROVE  StoreInv'
<1>1. TypeInv' /\ Moves
  BY StopMoves DEF StoreInv
<1>2. Given
  BY <1>1 DEF Given, StoreInv
<1>3. StoredOK /\ RecsOK
  BY DEF motr, StoredOK, RecsOK
<1>4. ListsAreRight' /\ RecsInv' /\ UploadPartsStored' /\ JobInv'
  BY <1>2, <1>3, ListsStay, RecsStay, UploadStays, JobStays DEF StoreInv
<1>5. PartsInv' /\ CompletesInv' /\ AbortsInv'
  BY <1>2, <1>3, PartStays, CompleteStays, AbortStays
  DEF StoreInv, PartsInv, CompletesInv, AbortsInv
<1> QED
  BY <1>1, <1>4, <1>5 DEF StoreInv

-----------------------------------------------------------------------------
(* The start.                                                              *)

\* The parts of the start are of requests that have ended.
LEMMA StartIsDone ==
    /\ \A u \in AlreadyOpen : \A n \in NumbersOf(OpenParts[u]) :
        /\ OpenParts[u][n] \in PastReq /\ OpenParts[u][n] \in OpenOids
        /\ PartOf(OpenParts[u][n], u, n)
    /\ \A c \in Past : \A n \in NumbersOf(PastParts[c]) :
        /\ PastParts[c][n] \in PastReq /\ PastParts[c][n] \in OidsOf(PastParts[c])
        /\ PartOf(PastParts[c][n], UploadOf[c], n)
    /\ \A r \in PastReq \ Upload : UploadOf[r] \in PastReq
<1>1. \A u \in AlreadyOpen : \A n \in NumbersOf(OpenParts[u]) :
        /\ OpenParts[u][n] \in OpenOids
        /\ PartOf(OpenParts[u][n], u, n)
  BY StartAssumption DEF PartsFor, PartOf, NumbersOf, OpenOids, OidsOf
<1>2. \A c \in Past : \A n \in NumbersOf(PastParts[c]) :
        /\ PastParts[c][n] \in OidsOf(PastParts[c]) /\ PastParts[c][n] \in PastOids
        /\ PartOf(PastParts[c][n], UploadOf[c], n)
  BY StartAssumption DEF PartsFor, PartOf, NumbersOf, PastOids, OidsOf
<1>3. ASSUME NEW r \in PastReq \ Upload PROVE UploadOf[r] \in PastReq
  <2>1. CASE r \in Past
    BY <2>1 DEF PastReq
  <2>2. CASE r \in PastOids
    <3>1. PICK c \in Past : \E n \in NumbersOf(PastParts[c]) : r = PastParts[c][n]
      BY <2>2 DEF PastOids, OidsOf
    <3> QED
      BY <3>1, <1>2 DEF PartOf, PastReq
  <2>3. CASE r \in OpenOids
    <3>1. PICK u \in AlreadyOpen : \E n \in NumbersOf(OpenParts[u]) : r = OpenParts[u][n]
      BY <2>3 DEF OpenOids, OidsOf
    <3> QED
      BY <3>1, <1>1 DEF PartOf, PastReq
  <2>4. r \notin AlreadyOpen /\ \A c \in Past : r # UploadOf[c]
    BY MultipartAssumption DEF AlreadyOpen
  <2> QED
    BY <2>1, <2>2, <2>3, <2>4 DEF PastReq
<1> QED
  BY <1>1, <1>2, <1>3 DEF PastReq

\* The invariant holds at the start.
LEMMA InitStoreInv == Init => StoreInv
<1> SUFFICES ASSUME Init PROVE StoreInv
  OBVIOUS
<1>1. NoParts \in PartMap /\ Past \subseteq Complete /\ AlreadyOpen \subseteq Upload
  BY MultipartAssumption DEF NoParts, PartMap, AlreadyOpen
<1>2. \A r \in Req : pc[r] = IF r \in PastReq THEN "done" ELSE "idle"
  BY DEF Init
<1>3. objList \in Complete => objList \in Past
  BY MultipartAssumption DEF Init, Version
<1>4. TypeInv
  <2>1. mp \subseteq Upload
    BY <1>1 DEF Init
  <2>2. partIdx \in [Upload -> PartMap]
    BY <1>1, MultipartAssumption DEF Init, AlreadyOpen
  <2>3. ext \in [Version -> PartMap] /\ objList \in Version \cup {NoVer}
    BY <1>1, MultipartAssumption DEF Init, Version
  <2>4. \A r \in Req : pc[r] \in {"idle", "done"}
    BY <1>2
  <2>5. pc \in [Req -> Labels]
    BY DEF Init, Labels, UploadLabels
  <2>6. /\ \A u \in Upload : pc[u] \in UploadLabels
        /\ \A p \in PartReq : pc[p] \in PreSave \cup Rolling \cup Saved
        /\ \A c \in Complete : pc[c] \in CompleteLabels
        /\ \A a \in Abort : pc[a] \in AbortLabels
    BY <2>4 DEF Req, UploadLabels, PreSave, Saved, CompleteLabels, PreComplete, AbortLabels
  <2>7. \A c \in Complete : pc[c] # "fetch_ext"
    BY <2>4 DEF Req
  <2>8. /\ DOMAIN old = Req
        /\ \A p \in PartReq : old[p] \in PartReq \cup {NoOid}
        /\ \A c \in Complete : old[c] \in Version \cup {NoVer}
    BY IdsAreUnique DEF Init, Req
  <2>9. /\ seen \in [Complete \cup Abort -> PartMap]
        /\ was \in [Complete -> PartMap]
        /\ todo \in [Complete \cup Abort -> SUBSET Part]
    BY <1>1 DEF Init
  <2> QED
    BY <2>1, <2>2, <2>3, <2>5, <2>6, <2>7, <2>8, <2>9 DEF TypeInv
<1>5. ListsAreRight
  <2>1. \A u \in Upload : IsParts(partIdx[u], u)
    BY StartIsDone, <1>2 DEF Init, IsParts, NumbersOf, NoParts, PartOf, Req, Saved
  <2>2. \A c \in Complete : IsParts(ext[c], UploadOf[c])
    BY StartIsDone, <1>2 DEF Init, IsParts, NumbersOf, NoParts, PartOf, Req, Saved, Version
  <2>3. objList \in Complete => Took(objList)
    BY <1>3 DEF Took
  <2>4. \A u \in mp : pc[u] = "done"
    BY <1>1, <1>2 DEF Init, PastReq, Req
  <2>5. \A r \in Req \ Upload : pc[r] # "idle" => pc[UploadOf[r]] = "done"
    BY StartIsDone, <1>2, MultipartAssumption DEF Req
  <2>6. \A c \in Past : pc[c] = "done" /\ UploadOf[c] \notin mp
    BY <1>1, <1>2, StartAssumption DEF Init, PastReq, Req
  <2> QED
    BY <2>1, <2>2, <2>3, <2>4, <2>5, <2>6 DEF ListsAreRight
<1>6. PartsInv
  BY <1>2 DEF Init, PartsInv, PartInv, Req, CleansPart
<1>7. CompletesInv
  BY <1>2, IdsAreUnique, MultipartAssumption
  DEF Init, CompletesInv, CompleteInv, Req, IsParts, NoParts, Version
<1>8. AbortsInv
  BY <1>2 DEF Init, AbortsInv, AbortInv, Req, IsParts, NoParts, HasAborted
<1>9. RecsInv /\ JobInv
  BY DEF Init, RecsInv, JobInv
<1>10. UploadPartsStored
  BY StartIsDone DEF Init, UploadPartsStored, Open, NumbersOf
<1> QED
  BY <1>4, <1>5, <1>6, <1>7, <1>8, <1>9, <1>10 DEF StoreInv

\* Every step preserves the invariant.
LEMMA StepStoreInv == StoreInv /\ [Next]_vars => StoreInv'
<1> SUFFICES ASSUME StoreInv, [Next]_vars PROVE StoreInv'
  OBVIOUS
<1>1. CASE \E u \in Upload : InitiateStep(u)
  BY <1>1, InitiateKeepsInv
<1>2. CASE \E p \in PartReq : PartStep(p)
  BY <1>2, PartKeepsInv
<1>3. CASE \E c \in Complete : CompleteStep(c)
  BY <1>3, CompleteKeepsInv
<1>4. CASE \E a \in Abort : AbortStep(a)
  BY <1>4, AbortKeepsInv
<1>5. CASE \E r \in CanStop : Stop(r)
  BY <1>5, StopKeepsInv DEF Stop
<1>6. CASE RecoveryStep
  BY <1>6, RecoveryKeepsInv
<1>7. CASE UNCHANGED vars
  BY <1>7, StopKeepsInv DEF vars, reqs
<1> QED
  BY <1>1, <1>2, <1>3, <1>4, <1>5, <1>6, <1>7 DEF Next

\* The part list of an upload that can still be completed names parts that
\* are in Motr.
THEOREM UploadsKeepTheirParts == Spec => []UploadPartsStored
<1>1. Spec => []StoreInv
  BY InitStoreInv, StepStoreInv, PTL DEF Spec
<1>2. StoreInv => UploadPartsStored
  BY DEF StoreInv
<1> QED
  BY <1>1, <1>2, PTL

-----------------------------------------------------------------------------
(* What a step does to live objects.                                       *)

\* The step in which c becomes the live object.
Becomes(c) ==
    /\ c \in Complete /\ pc[c] = "save_object" /\ Engaged(c)
    /\ objList' = c /\ UNCHANGED <<stored, mp, partIdx, ext>>
Lookup == {"idle", "fetch_ext", "fetch_upload", "done"}
\* Part lists and uploads are changed by requests for them that are under
\* way, the live object by a complete request, extended entries of versions
\* that are dead or not yet live.
Firm ==
    /\ \A u \in Upload : partIdx'[u] # partIdx[u] =>
        \E r \in Req \ Upload :
            /\ UploadOf[r] = u /\ Engaged(r) /\ pc[r] \in {"save_part", "delete_index"}
            /\ r \in PartReq \/ partIdx'[u] = NoParts
    /\ \A u \in mp : u \notin mp' =>
        \E r \in Req \ Upload : UploadOf[r] = u /\ Engaged(r) /\ pc[r] = "delete_upload"
    /\ \A c \in Complete : TookLife(c)' => TookLife(c) \/ Becomes(c)
    /\ objList' # objList => \E c \in Complete : Becomes(c)
    /\ \A v \in Version : ext'[v] # ext[v] => DeadVer(v) \/ (v \in Complete /\ pc[v] = "save_ext")
    /\ \A c \in Complete : pc[c] # "idle" => old'[c] = old[c]
    /\ \A c \in Complete : pc[c] \in Saves => pc'[c] \in Saves \cup {"failed"} \/ TookLife(c)'
    /\ \A r \in Req \ Upload : pc[r] \in Lookup /\ UploadOf[r] \notin mp => pc'[r] \in Lookup

\* A PUT of a part changes the part list of its upload and nothing else of
\* these.
LEMMA PartFirm ==
    ASSUME StoreInv, NEW p \in PartReq, PartShape(p), Others(p)
    PROVE  Firm
<1>1. /\ p \in Req \ Upload /\ \A c \in Complete : pc'[c] = pc[c] /\ old'[c] = old[c]
      /\ UploadOf[p] \in Upload /\ TypeInv
  BY IdsAreUnique, MultipartAssumption DEF Req, Others, StoreInv
<1>2. \A u \in Upload : partIdx'[u] # partIdx[u] => UploadOf[p] = u /\ pc[p] = "save_part"
  BY <1>1 DEF PartShape, TypeInv
<1>3. pc[p] = "save_part" => Engaged(p)
  BY DEF PartShape, Engaged, InFlight, Ended
<1>4. \A c \in Complete : TookLife(c)' => TookLife(c)
  BY <1>1 DEF TookLife
<1>5. \A r \in Req \ Upload : pc[r] \in Lookup /\ UploadOf[r] \notin mp => pc'[r] \in Lookup
  <2> SUFFICES ASSUME NEW r \in Req \ Upload, pc[r] \in Lookup, UploadOf[r] \notin mp
               PROVE  pc'[r] \in Lookup
    OBVIOUS
  <2>1. CASE r = p
    BY <2>1 DEF PartShape, Lookup, StoreInv, TypeInv, PreSave, Rolling, Saved, CleansPart
  <2>2. CASE r # p
    BY <2>2 DEF Others
  <2> QED
    BY <2>1, <2>2
<1>6. \A c \in Complete : pc[c] \in Saves => pc'[c] \in Saves
  BY <1>1
<1> QED
  BY <1>1, <1>2, <1>3, <1>4, <1>5, <1>6 DEF Firm, PartShape

\* A POST that initiates an upload changes none of these.
LEMMA InitiateFirm ==
    ASSUME StoreInv, NEW u \in Upload, InitiateShape(u), Others(u)
    PROVE  Firm
<1>1. \A r \in Req \ Upload : pc'[r] = pc[r] /\ old'[r] = old[r]
  BY DEF Others
<1>2. \A c \in Complete : c \in Req \ Upload
  BY IdsAreUnique DEF Req
<1>3. \A c \in Complete : TookLife(c)' => TookLife(c)
  BY <1>1, <1>2 DEF TookLife
<1>4. \A v \in mp : v \in mp'
  BY DEF InitiateShape
<1> QED
  BY <1>1, <1>2, <1>3, <1>4 DEF Firm, InitiateShape

\* A DELETE of an upload closes it and empties its part list.
LEMMA AbortFirm ==
    ASSUME StoreInv, NEW a \in Abort, AbortShape(a), Others(a)
    PROVE  Firm
<1>1. /\ a \in Req \ Upload /\ \A c \in Complete : pc'[c] = pc[c] /\ old'[c] = old[c]
      /\ UploadOf[a] \in Upload /\ TypeInv
  BY IdsAreUnique, MultipartAssumption DEF Req, Others, StoreInv
<1>2. \A u \in Upload : partIdx'[u] # partIdx[u] =>
            UploadOf[a] = u /\ pc[a] = "delete_index" /\ partIdx'[u] = NoParts
  BY <1>1 DEF AbortShape, TypeInv
<1>3. pc[a] \in {"delete_index", "delete_upload"} => Engaged(a)
  BY DEF AbortShape, Engaged, InFlight, Ended
<1>4. \A c \in Complete : TookLife(c)' => TookLife(c)
  BY <1>1 DEF TookLife
<1>5. \A r \in Req \ Upload : pc[r] \in Lookup /\ UploadOf[r] \notin mp => pc'[r] \in Lookup
  <2> SUFFICES ASSUME NEW r \in Req \ Upload, pc[r] \in Lookup, UploadOf[r] \notin mp
               PROVE  pc'[r] \in Lookup
    OBVIOUS
  <2>1. CASE r = a
    BY <2>1 DEF AbortShape, Lookup, StoreInv, TypeInv, AbortLabels, HasAborted
  <2>2. CASE r # a
    BY <2>2 DEF Others
  <2> QED
    BY <2>1, <2>2
<1>6. \A c \in Complete : pc[c] \in Saves => pc'[c] \in Saves
  BY <1>1
<1>7. \A u \in mp : u \notin mp' => UploadOf[a] = u /\ pc[a] = "delete_upload"
  BY DEF AbortShape
<1> QED
  BY <1>1, <1>2, <1>3, <1>4, <1>5, <1>6, <1>7 DEF Firm, AbortShape

\* The version a complete request overwrote is dead once it took its place.
LEMMA OverwrittenIsDead ==
    ASSUME StoreInv, LifeInv, NEW c \in Complete, TookLife(c), old[c] \in Complete
    PROVE  DeadVer(old[c])
BY DEF StoreInv, CompletesInv, CompleteInv, LifeInv, CompletingInv, DeadVer

\* A POST that completes an upload changes the live object in its last save
\* only, and removes extended entries of the dead one only.
LEMMA CompleteFirm ==
    ASSUME StoreInv, LifeInv, NEW c \in Complete, CompleteShape(c), Others(c)
    PROVE  Firm
<1>1. /\ c \in Req \ Upload /\ \A d \in Complete \ {c} : pc'[d] = pc[d] /\ old'[d] = old[d]
      /\ UploadOf[c] \in Upload /\ TypeInv
  BY IdsAreUnique, MultipartAssumption DEF Req, Others, StoreInv
<1>2. \A u \in Upload : partIdx'[u] # partIdx[u] =>
            UploadOf[c] = u /\ pc[c] = "delete_index" /\ partIdx'[u] = NoParts
  BY <1>1 DEF CompleteShape, TypeInv
<1>3. pc[c] \in {"delete_index", "delete_upload", "save_object"} => Engaged(c)
  BY DEF CompleteShape, Engaged, InFlight, Ended
<1>4. \A d \in Complete : TookLife(d)' => TookLife(d) \/ Becomes(d)
  BY <1>1, <1>3 DEF TookLife, CompleteShape, Becomes
<1>5. \A r \in Req \ Upload : pc[r] \in Lookup /\ UploadOf[r] \notin mp => pc'[r] \in Lookup
  <2> SUFFICES ASSUME NEW r \in Req \ Upload, pc[r] \in Lookup, UploadOf[r] \notin mp
               PROVE  pc'[r] \in Lookup
    OBVIOUS
  <2>1. CASE r = c
    BY <2>1 DEF CompleteShape, Lookup
  <2>2. CASE r # c
    BY <2>2 DEF Others
  <2> QED
    BY <2>1, <2>2
<1>6. \A d \in Complete : pc[d] \in Saves => pc'[d] \in Saves \cup {"failed"} \/ TookLife(d)'
  BY <1>1 DEF CompleteShape
<1>7. \A u \in mp : u \notin mp' => UploadOf[c] = u /\ pc[c] = "delete_upload"
  BY DEF CompleteShape
<1>8. \A d \in Complete : pc[d] # "idle" => old'[d] = old[d]
  BY <1>1 DEF CompleteShape
<1>9. objList' # objList => Becomes(c)
  BY <1>3 DEF CompleteShape, Becomes
<1>10. ASSUME NEW v \in Version, ext'[v] # ext[v]
      PROVE  DeadVer(v) \/ (v \in Complete /\ pc[v] = "save_ext")
  <2>1. CASE pc[c] = "save_ext" /\ ext' = [ext EXCEPT ![c] = seen[c]]
    BY <2>1, <1>10
  <2>2. CASE pc[c] = "remove_ext" /\ ext' = [ext EXCEPT ![old[c]] = NoParts]
    <3>1. v = old[c] /\ TookLife(c)
      BY <2>2, <1>10, <1>1 DEF TookLife, CompleteCleanup, TypeInv
    <3>2. old[c] \in Complete
      BY <2>2 DEF StoreInv, CompletesInv, CompleteInv
    <3> QED
      BY <3>1, <3>2, OverwrittenIsDead
  <2> QED
    BY <1>10, <2>1, <2>2 DEF CompleteShape
<1> QED
  BY <1>1, <1>2, <1>3, <1>4, <1>5, <1>6, <1>7, <1>8, <1>9, <1>10 DEF Firm

\* Background delete removes extended entries of dead versions only.
LEMMA RecoveryFirm ==
    ASSUME StoreInv, LifeInv, RecoveryShape
    PROVE  Firm
<1>1. UNCHANGED <<pc, old, partIdx, mp, objList>>
  BY DEF RecoveryShape, reqs
<1>2. ASSUME NEW v \in Version, ext'[v] # ext[v]
      PROVE  DeadVer(v)
  <2>1. bd.step = "entry" /\ ext' = [ext EXCEPT ![bd.rec.ver][NextPart] = NoOid]
    BY <1>2 DEF RecoveryShape
  <2>2. v = bd.rec.ver
    BY <1>2, <2>1 DEF StoreInv, TypeInv
  <2>3. bd # NoJob
    BY <2>1 DEF NoJob
  <2> QED
    BY <2>1, <2>2, <2>3 DEF LifeInv, SafeJob, StoreInv, JobInv
<1>3. \A c \in Complete : TookLife(c)' => TookLife(c)
  BY <1>1 DEF TookLife
<1> QED
  BY <1>1, <1>2, <1>3 DEF Firm

\* A server that stops changes none of these.
LEMMA StopFirm ==
    ASSUME UNCHANGED <<motr, pc, old, seen, was, todo, bd>>
    PROVE  Firm
<1>1. \A c \in Complete : TookLife(c)' => TookLife(c)
  BY DEF TookLife
<1> QED
  BY <1>1 DEF Firm, motr

-----------------------------------------------------------------------------
(* What stays true of live objects through every step.                     *)

\* What every step gives to the argument on live objects.
LGiven == StoreInv /\ StoreInv' /\ LifeInv /\ Moves /\ Firm /\ Orderly

\* No request for an upload that became an object is under way.
LEMMA LiveIsQuiet ==
    ASSUME LifeInv, Orderly, NEW r \in PartReq \cup Complete \cup Abort, Engaged(r),
           NEW c \in Complete, Took(c), r # c
    PROVE  UploadOf[r] # UploadOf[c]
<1>1. CASE TookLife(c)
  BY <1>1 DEF Orderly, OfUpload
<1>2. CASE c \in Past
  <2>1. pc[r] \notin {"idle", "fetch_ext", "fetch_upload", "done"}
    BY DEF Engaged, InFlight, Ended
  <2> QED
    BY <1>2, <2>1, IdsAreUnique DEF LifeInv, PastQuiet, Req
<1> QED
  BY <1>1, <1>2 DEF Took

\* A complete request that has not saved its object has not taken its place.
LEMMA NotYetTook ==
    ASSUME StoreInv, NEW c \in Complete, pc[c] \in {"fetch_parts", "add_probable"} \cup Saves
    PROVE  ~Took(c)
BY DEF StoreInv, ListsAreRight, Took, TookLife, Saves, CompleteCleanup

\* A version that becomes live has the parts of its upload, all that were
\* asked for, and the upload can no longer change.
LEMMA WhatBecomes ==
    ASSUME StoreInv, LifeInv, NEW c, Becomes(c)
    PROVE  /\ c \in Complete /\ ~Took(c)
           /\ Open(UploadOf[c])
           /\ ext[c] = partIdx[UploadOf[c]]
           /\ NumbersOf(ext[c]) = Asked[c]
           /\ objList' = c /\ UNCHANGED <<stored, mp, partIdx, ext>>
<1>1. c \in Complete /\ pc[c] = "save_object" /\ Engaged(c)
  BY DEF Becomes
<1>2. CompletingInv(c)
  BY <1>1 DEF LifeInv
<1> QED
  BY <1>1, <1>2, NotYetTook DEF Becomes, CompletingInv, Saves

\* A version that is dead stays dead.
LEMMA DeadStays ==
    ASSUME LGiven, NEW v, DeadVer(v)
    PROVE  DeadVer(v)'
<1>1. v \in Complete /\ Took(v) /\ objList # v
  BY DEF DeadVer
<1>2. Given
  BY DEF LGiven, StoreInv, Given
<1>3. Took(v)'
  BY <1>1, <1>2, TookStays
<1>4. objList' # v
  BY <1>1, WhatBecomes DEF LGiven, Firm, Becomes
<1> QED
  BY <1>1, <1>3, <1>4 DEF DeadVer

\* The extended entries of the live object do not change.
LEMMA LiveStays ==
    ASSUME LGiven, objList \in Complete, objList' = objList
    PROVE  ext'[objList] = ext[objList]
<1>1. Took(objList)
  BY DEF LGiven, StoreInv, ListsAreRight
<1>2. pc[objList] # "save_ext"
  BY <1>1, NotYetTook DEF LGiven, Saves
<1> QED
  BY <1>2 DEF LGiven, Firm, DeadVer, Version

\* A part that is safe to delete stays so.
LEMMA SafeStays ==
    ASSUME LGiven, NEW p, Safe(p)
    PROVE  Safe(p)'
<1>1. Given
  BY DEF LGiven, StoreInv, Given
<1>2. Spent(p)'
  BY <1>1, SpentStays DEF Safe
<1>3. NotLive(p)'
  <2>1. CASE objList' = objList
    BY <2>1, LiveStays DEF Safe, NotLive
  <2>2. CASE objList' # objList
    <3>1. PICK c \in Complete : Becomes(c)
      BY <2>2 DEF LGiven, Firm
    <3>2. /\ Open(UploadOf[c]) /\ ext[c] = partIdx[UploadOf[c]]
          /\ objList' = c /\ ext' = ext
      BY <3>1, WhatBecomes DEF LGiven
    <3>3. ASSUME NEW n \in Part, ext[c][n] = p PROVE FALSE
      <4>1. p \in PartReq
        BY DEF Safe, Spent
      <4>2. PartOf(p, UploadOf[c], n)
        BY <3>3, <4>1, MultipartAssumption DEF LGiven, StoreInv, ListsAreRight, IsParts
      <4> QED
        BY <3>2, <3>3, <4>2 DEF Safe, Spent, Entry, PartOf
    <3> QED
      BY <3>2, <3>3 DEF NotLive
  <2> QED
    BY <2>1, <2>2
<1> QED
  BY <1>2, <1>3 DEF Safe

\* The parts of a version that is no longer live.
LEMMA DeadIsSafe ==
    ASSUME StoreInv, LifeInv, NEW v, DeadVer(v), NEW n, NEW p, PartOf(p, UploadOf[v], n),
           pc[p] \in Saved
    PROVE  Safe(p)
<1>1. v \in Complete /\ ~Open(UploadOf[v])
  BY TookIsClosed DEF DeadVer, StoreInv
<1>2. Spent(p)
  BY <1>1 DEF Spent, PartOf, Saved, CleansPart, PreSave
<1>3. NotLive(p)
  <2> SUFFICES ASSUME objList \in Complete, NEW m \in Part, ext[objList][m] = p
               PROVE  FALSE
    BY DEF NotLive
  <2>1. UploadOf[objList] = UploadOf[v]
    BY MultipartAssumption DEF PartOf, StoreInv, ListsAreRight, IsParts
  <2>2. Took(objList)
    BY DEF StoreInv, ListsAreRight
  <2> QED
    BY <2>1, <2>2 DEF LifeInv, OneTook, DeadVer
<1> QED
  BY <1>2, <1>3 DEF Safe

\* A part whose PUT is rolled back is in no live object.
LEMMA RollingIsSafe ==
    ASSUME StoreInv, NEW p \in PartReq, pc[p] \in Rolling
    PROVE  Safe(p)
<1>1. Spent(p)
  BY RollingIsSpent DEF StoreInv
<1>2. NotLive(p)
  BY MultipartAssumption
  DEF NotLive, StoreInv, ListsAreRight, IsParts, Rolling, Saved, CleansPart
<1> QED
  BY <1>1, <1>2 DEF Safe

\* What makes a record safe to process stays true; the saves of the request
\* that overwrites succeed.
LEMMA SafeRecStays ==
    ASSUME LGiven, SavesEnd', NEW k, NEW rec, SafeRec(k, rec), RecInv(k, rec)
    PROVE  SafeRec(k, rec)'
<1>1. rec.kind \in {"put", "abort", "ext"} /\ rec.forced => Safe(LeakOid(k))'
  BY SafeStays DEF SafeRec, LeakOid
<1>2. rec.kind = "parent" /\ rec.forced => DeadVer(rec.ver)'
  BY DeadStays DEF SafeRec
<1>3. ASSUME rec.kind = "ext", ~rec.forced
      PROVE  \E c \in rec.since \cap Complete :
                old'[c] = rec.ver /\ ((InFlight(c)' /\ pc'[c] \in Saves) \/ TookLife(c)')
  <2>1. PICK c \in rec.since \cap Complete :
            old[c] = rec.ver /\ ((InFlight(c) /\ pc[c] \in Saves) \/ TookLife(c))
    BY <1>3 DEF SafeRec
  <2>2. old'[c] = rec.ver
    BY <2>1 DEF LGiven, Firm, Saves, TookLife, CompleteCleanup
  <2>3. ASSUME pc[c] \in Saves, ~TookLife(c)' PROVE InFlight(c)' /\ pc'[c] \in Saves
    <3>1. rec.ver # NoVer
      BY <1>3, MultipartAssumption DEF RecInv, Version
    <3>2. ~CutShort(c)'
      BY <2>1, <2>2, <3>1 DEF SavesEnd
    <3>3. pc'[c] \in Saves \cup {"failed"}
      BY <2>3 DEF LGiven, Firm
    <3> QED
      BY <3>2, <3>3 DEF CutShort, InFlight, Ended, Saves
  <2>4. TookLife(c) => TookLife(c)'
    BY DEF LGiven, Moves
  <2> QED
    BY <2>1, <2>2, <2>3, <2>4
<1> QED
  BY <1>1, <1>2, <1>3 DEF SafeRec, LeakOid

\* Requests for an upload that ended before the start get no further than
\* their look-up.
LEMMA PastStaysQuiet ==
    ASSUME LGiven
    PROVE  PastQuiet'
BY DEF LGiven, Firm, LifeInv, PastQuiet, Lookup, StoreInv, ListsAreRight

\* An upload becomes one object.
LEMMA OneTookStays ==
    ASSUME LGiven
    PROVE  OneTook'
<1> SUFFICES ASSUME NEW c \in Complete, NEW d \in Complete, Took(c)', Took(d)',
                    UploadOf[c] = UploadOf[d], c # d
             PROVE  FALSE
  BY DEF OneTook
<1>1. ASSUME NEW e \in Complete, Took(e)' PROVE Took(e) \/ Becomes(e)
  BY <1>1 DEF LGiven, Firm, Took
<1>2. ASSUME NEW e \in Complete, NEW f \in Complete, Becomes(e), Took(f), e # f
      PROVE  UploadOf[e] # UploadOf[f]
  BY <1>2, LiveIsQuiet DEF LGiven, Becomes
<1> QED
  BY <1>1, <1>2 DEF LGiven, LifeInv, OneTook, Becomes

\* What a step deletes is safe to delete.
LStoredOK == \A x \in stored : x \in stored' \/ x \notin PartReq \/ Safe(x)

\* The live object keeps its parts if only parts that are safe to delete are deleted.
LEMMA LiveKeepsParts ==
    ASSUME LGiven, LStoredOK
    PROVE  LiveInv' /\ LivePartsStored'
<1>1. CASE objList' = objList /\ objList \in Complete
  <2>1. ext'[objList] = ext[objList] /\ Took(objList)
    BY <1>1, LiveStays DEF LGiven, StoreInv, ListsAreRight
  <2>2. UploadOf[objList] \in Upload
    BY <1>1, MultipartAssumption
  <2>3. partIdx'[UploadOf[objList]] \in {partIdx[UploadOf[objList]], NoParts}
    <3> SUFFICES ASSUME partIdx'[UploadOf[objList]] # partIdx[UploadOf[objList]],
                        partIdx'[UploadOf[objList]] # NoParts
                 PROVE  FALSE
      OBVIOUS
    <3>1. PICK r \in PartReq : UploadOf[r] = UploadOf[objList] /\ Engaged(r)
      BY <2>2 DEF LGiven, Firm
    <3>2. r # objList
      BY <1>1, IdsAreUnique
    <3> QED
      BY <1>1, <2>1, <3>1, <3>2, LiveIsQuiet DEF LGiven
  <2>4. LiveInv'
    BY <1>1, <2>1, <2>3 DEF LGiven, LifeInv, LiveInv, NoParts
  <2>5. ASSUME NEW n \in Asked[objList] PROVE ext[objList][n] \in stored'
    <3>1. n \in NumbersOf(ext[objList]) /\ ext[objList][n] \in stored
      BY <1>1, <2>5 DEF LGiven, LifeInv, LivePartsStored
    <3>2. ~Safe(ext[objList][n])
      BY <1>1, <3>1 DEF Safe, NotLive, NumbersOf
    <3>3. ext[objList][n] \in PartReq
      BY <1>1, <3>1 DEF LGiven, StoreInv, ListsAreRight, IsParts, PartOf, NumbersOf
    <3> QED
      BY <3>1, <3>2, <3>3 DEF LStoredOK
  <2>6. LivePartsStored'
    BY <1>1, <2>1, <2>5 DEF LGiven, LifeInv, LivePartsStored, NumbersOf
  <2> QED
    BY <2>4, <2>6
<1>2. CASE objList' = objList /\ objList \notin Complete
  BY <1>2 DEF LiveInv, LivePartsStored
<1>3. CASE objList' # objList
  <2>1. PICK c \in Complete : Becomes(c)
    BY <1>3 DEF LGiven, Firm
  <2>2. /\ Open(UploadOf[c])
        /\ ext[c] = partIdx[UploadOf[c]]
        /\ NumbersOf(ext[c]) = Asked[c]
        /\ objList' = c /\ UNCHANGED <<stored, mp, partIdx, ext>>
    BY <2>1, WhatBecomes DEF LGiven
  <2>3. \A n \in Asked[c] : ext[c][n] \in stored
    BY <2>2, MultipartAssumption DEF LGiven, StoreInv, UploadPartsStored
  <2> QED
    BY <2>2, <2>3 DEF LiveInv, LivePartsStored, NumbersOf
<1> QED
  BY <1>1, <1>2, <1>3

\* A complete request that does not take the step.
LEMMA CompletingStays ==
    ASSUME LGiven, NEW c \in Complete, pc'[c] = pc[c], seen'[c] = seen[c], old'[c] = old[c],
           c \in stopped => c \in stopped'
    PROVE  CompletingInv(c)'
<1>1. UploadOf[c] \in Upload /\ c \in Version
  BY MultipartAssumption DEF Version
<1>2. ASSUME Engaged(c)', pc[c] \in {"fetch_parts", "add_probable"} \cup Saves
      PROVE  /\ Open(UploadOf[c])'
             /\ partIdx'[UploadOf[c]] = partIdx[UploadOf[c]]
             /\ pc[c] = "save_object" => ext'[c] = ext[c]
  <2>1. Engaged(c)
    BY <1>2 DEF Engaged, InFlight
  <2>2. Open(UploadOf[c])
    BY <1>2, <2>1 DEF LGiven, LifeInv, CompletingInv
  <2>3. ASSUME NEW r \in Req \ Upload, UploadOf[r] = UploadOf[c], Engaged(r) PROVE r = c
    BY <2>1, <2>3 DEF LGiven, Orderly, OfUpload, Req
  <2>4. UploadOf[c] \in mp'
    BY <1>2, <2>2, <2>3 DEF LGiven, Firm, Open, Saves
  <2>5. ASSUME NEW d \in Complete, UploadOf[d] = UploadOf[c], TookLife(d)' PROVE FALSE
    <3>1. ~TookLife(d)
      BY <2>2, <2>5 DEF Open
    <3>2. pc[d] = "save_object" /\ Engaged(d)
      BY <3>1, <2>5 DEF LGiven, Firm, Becomes
    <3>3. d = c
      BY <2>3, <2>5, <3>2, IdsAreUnique DEF Req
    <3> QED
      BY <3>1, <3>3, <2>5 DEF TookLife
  <2>6. partIdx'[UploadOf[c]] = partIdx[UploadOf[c]]
    BY <1>2, <1>1, <2>3 DEF LGiven, Firm, Saves
  <2>7. pc[c] = "save_object" => ext'[c] = ext[c]
    BY <1>2, <1>1, NotYetTook DEF LGiven, Firm, DeadVer
  <2> QED
    BY <2>4, <2>5, <2>6, <2>7 DEF Open
<1>3. TookLife(c)' => objList' # old[c]
  <2> SUFFICES ASSUME TookLife(c), objList' = old[c]
               PROVE  FALSE
    BY DEF TookLife
  <2>1. objList # old[c]
    BY DEF LGiven, LifeInv, CompletingInv
  <2>2. Becomes(old[c])
    BY <2>1 DEF LGiven, Firm, Becomes
  <2>3. old[c] \in Complete /\ ~Took(old[c])
    BY <2>2, WhatBecomes DEF LGiven
  <2> QED
    BY <2>3 DEF LGiven, StoreInv, CompletesInv, CompleteInv
<1>4. Engaged(c)' => Engaged(c)
  BY DEF Engaged, InFlight
<1> QED
  BY <1>2, <1>3, <1>4, MultipartAssumption DEF LGiven, LifeInv, CompletingInv, Saves, NumbersOf

\* What a complete request knows after its own step.
LEMMA CompletingOwn ==
    ASSUME LGiven, Orderly', NEW c \in Complete, CompleteShape(c)
    PROVE  CompletingInv(c)'
<1>1. UploadOf[c] \in Upload /\ c \in Req \ Upload /\ c \notin stopped /\ stopped' = stopped
  BY MultipartAssumption, IdsAreUnique DEF CompleteShape, Req
<1>2. pc'[c] \in {"fetch_parts", "add_probable"} \cup Saves => Engaged(c)' /\ ~TookLife(c)'
  BY <1>1 DEF Engaged, InFlight, Ended, Saves, TookLife, CompleteCleanup
<1>3. pc[c] \in {"fetch_parts", "add_probable"} \cup Saves => Engaged(c) /\ Open(UploadOf[c])
  BY <1>1 DEF Engaged, InFlight, Ended, Saves, LGiven, LifeInv, CompletingInv
<1>4. ASSUME pc'[c] \in {"fetch_parts", "add_probable"} \cup Saves
      PROVE  Open(UploadOf[c])'
  <2>1. UploadOf[c] \in mp'
    BY <1>4, <1>3 DEF CompleteShape, Open, Saves
  <2>2. ASSUME NEW d \in Complete, UploadOf[d] = UploadOf[c], TookLife(d)' PROVE FALSE
    BY <1>4, <1>2, <2>2 DEF Orderly, OfUpload
  <2> QED
    BY <2>1, <2>2 DEF Open
<1>5. ASSUME pc'[c] \in {"add_probable"} \cup Saves
      PROVE  seen'[c] = partIdx'[UploadOf[c]] /\ NumbersOf(seen'[c]) = Asked[c]
  <2>1. partIdx' = partIdx
    BY <1>5 DEF CompleteShape, Saves
  <2>2. CASE pc[c] = "fetch_parts"
    BY <1>5, <2>1, <2>2 DEF CompleteShape, Saves
  <2>3. CASE pc[c] \in {"add_probable"} \cup Saves /\ seen' = seen
    BY <1>3, <2>1, <2>3 DEF LGiven, LifeInv, CompletingInv
  <2> QED
    BY <1>5, <2>2, <2>3 DEF CompleteShape
<1>6. pc'[c] = "save_object" => ext'[c] = seen'[c]
  BY DEF CompleteShape, Saves
<1>7. TookLife(c)' => objList' # old'[c]
  <2>1. CASE TookLife(c)
    <3>1. old' = old /\ objList' = objList
      BY <2>1 DEF CompleteShape, TookLife, CompleteCleanup
    <3> QED
      BY <2>1, <3>1 DEF LGiven, LifeInv, CompletingInv
  <2>2. CASE TookLife(c)' /\ ~TookLife(c)
    <3>1. pc[c] = "save_object" /\ objList' = c /\ old' = old
      BY <2>2 DEF CompleteShape
    <3>2. ~Took(c)
      BY <3>1, NotYetTook DEF LGiven, Saves
    <3>3. old[c] # c
      BY <3>2 DEF LGiven, StoreInv, CompletesInv, CompleteInv
    <3> QED
      BY <3>1, <3>3
  <2> QED
    BY <2>1, <2>2
<1> QED
  BY <1>4, <1>5, <1>6, <1>7 DEF CompletingInv, NumbersOf, Saves

\* A part of an upload for which a request is under way is in no live object.
LEMMA EngagedIsNotLive ==
    ASSUME StoreInv, LifeInv, Orderly, NEW r \in PartReq \cup Abort, Engaged(r),
           NEW p \in PartReq, UploadOf[p] = UploadOf[r]
    PROVE  NotLive(p)
<1> SUFFICES ASSUME objList \in Complete, NEW n \in Part, ext[objList][n] = p
             PROVE  FALSE
  BY DEF NotLive
<1>1. UploadOf[p] = UploadOf[objList] /\ Took(objList)
  BY MultipartAssumption DEF StoreInv, ListsAreRight, IsParts, PartOf
<1>2. r # objList
  BY IdsAreUnique
<1> QED
  BY <1>1, <1>2, LiveIsQuiet

\* The records that a step writes are safe to process.
LRecsOK ==
    \A k \in DOMAIN pdi' : (k \in DOMAIN pdi /\ pdi'[k] = pdi[k]) \/ SafeRec(k, pdi[k])'
SafeRecs == \A k \in DOMAIN pdi : SafeRec(k, pdi[k])

\* The records stay safe if those that are written are.
LEMMA SafeRecsStay ==
    ASSUME LGiven, SavesEnd', LRecsOK
    PROVE  SafeRecs'
<1> SUFFICES ASSUME NEW k \in DOMAIN pdi'
             PROVE  SafeRec(k, pdi[k])'
  BY DEF SafeRecs
<1>1. CASE k \in DOMAIN pdi /\ pdi'[k] = pdi[k]
  <2>1. PICK rec : rec = pdi[k]
    OBVIOUS
  <2>2. SafeRec(k, rec) /\ RecInv(k, rec)
    BY <1>1, <2>1 DEF LGiven, StoreInv, RecsInv, LifeInv
  <2>3. SafeRec(k, rec)'
    BY <2>2, SafeRecStays
  <2> QED
    BY <1>1, <2>1, <2>3
<1> QED
  BY <1>1 DEF LRecsOK

\* Records that were safe before the step that writes them.
LEMMA LRecsAreOK ==
    ASSUME LGiven, SavesEnd', NEW recs, PutRecs(recs),
           \A k \in DOMAIN recs : SafeRec(k, recs[k]) /\ RecInv(k, recs[k])
    PROVE  LRecsOK
<1> SUFFICES ASSUME NEW k \in DOMAIN pdi', ~(k \in DOMAIN pdi /\ pdi'[k] = pdi[k])
             PROVE  SafeRec(k, pdi[k])'
  BY DEF LRecsOK
<1>1. k \in DOMAIN recs /\ pdi'[k] = recs[k]
  BY DEF PutRecs
<1>2. PICK rec : rec = recs[k]
  OBVIOUS
<1>3. SafeRec(k, rec)'
  BY <1>1, <1>2, SafeRecStays
<1> QED
  BY <1>1, <1>2, <1>3

\* Deleting records does no harm.
LEMMA LFewerRecs ==
    ASSUME NEW keys, DeleteRecs(keys)
    PROVE  LRecsOK
BY DEF DeleteRecs, LRecsOK

\* The record background delete works on, while it takes no step.
LEMMA SafeJobStays ==
    ASSUME LGiven, SavesEnd', bd' = bd
    PROVE  SafeJob'
<1> SUFFICES ASSUME bd # NoJob
             PROVE  SafeJob'
  BY DEF SafeJob, NoJob
<1>1. PICK k, rec : k = bd.key /\ rec = bd.rec
  OBVIOUS
<1>2. SafeRec(k, rec) /\ RecInv(k, rec)
  BY <1>1 DEF LGiven, LifeInv, SafeJob, StoreInv, JobInv
<1>3. SafeRec(k, rec)'
  BY <1>2, SafeRecStays
<1>4. Safe(LeakOid(k)) => Safe(LeakOid(k))'
  BY SafeStays DEF LeakOid
<1>5. DeadVer(rec.ver) => DeadVer(rec.ver)'
  BY DeadStays
<1> QED
  BY <1>1, <1>3, <1>4, <1>5 DEF LGiven, LifeInv, SafeJob, LeakOid

\* The part that a PUT of a part will delete, when another request takes a
\* step.
LEMMA SafePutStays ==
    ASSUME LGiven, NEW p \in PartReq, pc[p] \in CleansPart, old'[p] = old[p], old[p] # NoOid
    PROVE  Safe(old[p])'
<1>1. PICK o : o = old[p]
  OBVIOUS
<1>2. Safe(o)'
  BY <1>1, SafeStays DEF LGiven, LifeInv, SafePuts
<1> QED
  BY <1>1, <1>2

\* The parts that a DELETE of an upload will delete, when another request
\* takes a step.
LEMMA SafeAbortStays ==
    ASSUME LGiven, NEW a \in Abort, pc[a] \in HasAborted, seen'[a] = seen[a],
           NEW n \in NumbersOf(seen[a])
    PROVE  Safe(seen[a][n])'
<1>1. PICK o : o = seen[a][n]
  OBVIOUS
<1>2. Safe(o)'
  BY <1>1, SafeStays DEF LGiven, LifeInv, SafeAborts
<1> QED
  BY <1>1, <1>2

-----------------------------------------------------------------------------
(* PUT of a part and live objects.                                         *)

\* A PUT of a part deletes, and forces records of, parts of no live object.
LEMMA PartSafe ==
    ASSUME LGiven, SavesEnd', NEW p \in PartReq, PartStep(p)
    PROVE  LStoredOK /\ LRecsOK
<1>1. PartInv(p) /\ StoreInv /\ LifeInv
  BY DEF LGiven, StoreInv, PartsInv
<1>2. pdi' = pdi => LRecsOK
  BY DEF LRecsOK
<1>3. stored' = stored => LStoredOK
  BY DEF LStoredOK
<1>4. LeakOid(ObjKey(p)) = p /\ LeakOid(ChkKey(p)) = p /\ LeakOid(OldPartKey(p)) = old[p]
  BY DEF LeakOid, ObjKey, ChkKey, OldPartKey, OldKey
<1>5. CASE FetchMultipartMetadata(p) \/ FetchPartInfo(p) \/ StreamPartData(p)
  BY <1>5, <1>2, <1>3 DEF FetchMultipartMetadata, FetchPartInfo, StreamPartData, motr
<1>6. CASE CreatePartObject(p) \/ SavePartMetadata(p)
  BY <1>6, <1>2, <1>3 DEF CreatePartObject, SavePartMetadata, LStoredOK
<1>7. CASE AddPartOidToProbableDeadOidList(p)
  <2>1. CASE PutRecs(BothPartRecs(p))
    <3>1. PICK recs : recs = BothPartRecs(p)
      OBVIOUS
    <3>2. \A k \in DOMAIN recs :
             (k = ObjKey(p) \/ (k = OldPartKey(p) /\ old[p] # NoOid))
                /\ recs[k] = Rec(p, "put", FALSE, NoVer)
      BY <3>1 DEF BothPartRecs
    <3>3. \A k \in DOMAIN recs : RecInv(k, recs[k]) /\ SafeRec(k, recs[k])
      BY <3>2, <1>1, <1>4 DEF RecInv, Rec, Kinds, PartInv, PartOf, SafeRec
    <3> QED
      BY <2>1, <3>1, <3>3, LRecsAreOK, <1>7, <1>3 DEF AddPartOidToProbableDeadOidList
  <2> QED
    BY <2>1, <1>7, <1>2, <1>3 DEF AddPartOidToProbableDeadOidList
<1>8. CASE MarkOldPart(p)
  <2>1. CASE PutRecs(OldPartRecs(p, TRUE))
    <3>1. PICK recs : recs = OldPartRecs(p, TRUE)
      OBVIOUS
    <3>2. \A k \in DOMAIN recs : k = OldPartKey(p) /\ recs[k] = Rec(p, "put", TRUE, NoVer)
      BY <3>1 DEF OldPartRecs
    <3>3. old[p] # NoOid /\ Spent(old[p]) /\ old[p] \in PartReq /\ Safe(old[p])
      BY <1>8, <1>1
      DEF MarkOldPart, PartCleanup, At, PartInv, CleansPart, PartOf, LifeInv, SafePuts
    <3>4. \A k \in DOMAIN recs : RecInv(k, recs[k]) /\ SafeRec(k, recs[k])
      BY <3>2, <3>3, <1>4 DEF RecInv, Rec, Kinds, SafeRec
    <3> QED
      BY <2>1, <3>1, <3>4, LRecsAreOK, <1>8, <1>3 DEF MarkOldPart, PartCleanup
  <2> QED
    BY <2>1, <1>8, <1>2, <1>3 DEF MarkOldPart, PartCleanup
<1>9. CASE PartLeakCheck(p)
  <2> DEFINE R == [k \in {ChkKey(p)} |-> Rec(p, "check", FALSE, NoVer)]
  <2>1. CASE PutRecs(R)
    <3>1. PICK recs : recs = R
      OBVIOUS
    <3>2. \A k \in DOMAIN recs : k = ChkKey(p) /\ recs[k] = Rec(p, "check", FALSE, NoVer)
      BY <3>1
    <3>3. pc[p] \in Saved
      BY <1>9 DEF PartLeakCheck, PartCleanup, At, Saved, CleansPart
    <3>4. \A k \in DOMAIN recs : RecInv(k, recs[k]) /\ SafeRec(k, recs[k])
      BY <3>2, <3>3, <1>4 DEF RecInv, Rec, Kinds, SafeRec
    <3> QED
      BY <2>1, <3>1, <3>4, LRecsAreOK, <1>9, <1>3 DEF PartLeakCheck, PartCleanup
  <2> QED
    BY <2>1, <1>9, <1>2, <1>3 DEF PartLeakCheck, PartCleanup
<1>10. CASE RemoveNewPartRecord(p) \/ RollbackNewPartRecord(p)
  BY <1>10, <1>2, <1>3, LFewerRecs DEF RemoveNewPartRecord, RollbackNewPartRecord, PartCleanup
<1>11. CASE MarkNewPart(p)
  <2>1. CASE PutRecs(PartRecs(p, TRUE))
    <3>1. PICK recs : recs = PartRecs(p, TRUE)
      OBVIOUS
    <3>2. \A k \in DOMAIN recs : k = ObjKey(p) /\ recs[k] = Rec(p, "put", TRUE, NoVer)
      BY <3>1 DEF PartRecs
    <3>3. Safe(p)
      BY <1>11, <1>1, RollingIsSafe DEF MarkNewPart, PartCleanup, At, Rolling
    <3>4. \A k \in DOMAIN recs : RecInv(k, recs[k]) /\ SafeRec(k, recs[k])
      BY <3>2, <3>3, <1>4 DEF RecInv, Rec, Kinds, SafeRec, Safe
    <3> QED
      BY <2>1, <3>1, <3>4, LRecsAreOK, <1>11, <1>3 DEF MarkNewPart, PartCleanup
  <2> QED
    BY <2>1, <1>11, <1>2, <1>3 DEF MarkNewPart, PartCleanup
<1>12. CASE DeleteOldPart(p)
  <2>1. Safe(old[p])
    BY <1>12, <1>1 DEF DeleteOldPart, DeletePartObject, At, PartInv, CleansPart, LifeInv, SafePuts
  <2> QED
    BY <1>12, <1>2, <2>1 DEF DeleteOldPart, DeletePartObject, LStoredOK
<1>13. CASE DeleteNewPart(p)
  <2>1. Safe(p)
    BY <1>13, <1>1, RollingIsSafe DEF DeleteNewPart, DeletePartObject, At, Rolling
  <2> QED
    BY <1>13, <1>2, <2>1 DEF DeleteNewPart, DeletePartObject, LStoredOK
<1> QED
  BY <1>5, <1>6, <1>7, <1>8, <1>9, <1>10, <1>11, <1>12, <1>13 DEF PartStep

\* A step of a PUT of a part preserves the invariant of live objects.
LEMMA PartKeepsLife ==
    ASSUME StoreInv, LifeInv, Orderly, SavesEnd', NEW p \in PartReq, PartStep(p)
    PROVE  LifeInv'
<1>1. PartShape(p) /\ Moves /\ Others(p)
  BY PartHasShape, PartMoves DEF StoreInv
<1>2. LGiven
  BY <1>1, PartKeepsInv, PartFirm DEF LGiven
<1>3. LStoredOK /\ LRecsOK
  BY <1>2, PartSafe
<1>4. PastQuiet' /\ OneTook' /\ LiveInv' /\ LivePartsStored'
  BY <1>2, <1>3, PastStaysQuiet, OneTookStays, LiveKeepsParts
<1>5. \A c \in Complete : CompletingInv(c)'
  BY <1>1, <1>2, CompletingStays, IdsAreUnique DEF Others, Req, PartShape
<1>6. SafePuts'
  <2> SUFFICES ASSUME NEW q \in PartReq, pc'[q] \in CleansPart, old'[q] # NoOid
               PROVE  Safe(old[q])'
    BY DEF SafePuts
  <2>1. CASE q # p
    BY <2>1, <1>1, <1>2, SafePutStays DEF Others, Req
  <2>2. CASE q = p /\ pc[p] \in CleansPart
    <3>1. old' = old
      BY <2>2, <1>1 DEF PartShape, CleansPart
    <3> QED
      BY <2>2, <3>1, <1>2, SafePutStays
  <2>3. CASE q = p /\ pc[p] = "save_part"
    <3>1. old' = old /\ objList' = objList /\ ext' = ext /\ Engaged(p)
      BY <2>3, <1>1 DEF PartShape, Engaged, InFlight, Ended
    <3>2. old[p] \in PartReq /\ UploadOf[old[p]] = UploadOf[p]
      BY <2>3, <3>1 DEF StoreInv, PartsInv, PartInv, PartOf
    <3>3. PICK o : o = old[p]
      OBVIOUS
    <3>4. NotLive(o)'
      BY <3>1, <3>2, <3>3, EngagedIsNotLive DEF NotLive
    <3>5. Spent(old[p])'
      BY <2>3, <1>2 DEF LGiven, StoreInv, PartsInv, PartInv
    <3> QED
      BY <2>3, <3>1, <3>3, <3>4, <3>5 DEF Safe
  <2> QED
    BY <2>1, <2>2, <2>3, <1>1 DEF PartShape
<1>7. SafeAborts'
  BY <1>1, <1>2, SafeAbortStays, IdsAreUnique DEF SafeAborts, Others, Req, PartShape, NumbersOf
<1>8. SafeJob' /\ SafeRecs'
  BY <1>1, <1>2, <1>3, SafeJobStays, SafeRecsStay DEF PartShape
<1> QED
  BY <1>4, <1>5, <1>6, <1>7, <1>8 DEF LifeInv, SafeRecs

\* A step of a POST that initiates an upload preserves the invariant.
LEMMA InitiateKeepsLife ==
    ASSUME StoreInv, LifeInv, Orderly, SavesEnd', NEW u \in Upload, InitiateStep(u)
    PROVE  LifeInv'
<1>1. InitiateShape(u) /\ Moves /\ Others(u)
  BY InitiateHasShape, InitiateMoves DEF StoreInv
<1>2. LGiven
  BY <1>1, InitiateKeepsInv, InitiateFirm DEF LGiven
<1>3. LStoredOK /\ LRecsOK
  BY <1>1 DEF InitiateShape, LStoredOK, LRecsOK
<1>4. PastQuiet' /\ OneTook' /\ LiveInv' /\ LivePartsStored'
  BY <1>2, <1>3, PastStaysQuiet, OneTookStays, LiveKeepsParts
<1>5. \A c \in Complete : CompletingInv(c)'
  BY <1>1, <1>2, CompletingStays, IdsAreUnique DEF Others, Req, InitiateShape
<1>6. SafePuts'
  BY <1>1, <1>2, SafePutStays, IdsAreUnique DEF SafePuts, Others, Req
<1>7. SafeAborts'
  BY <1>1, <1>2, SafeAbortStays, IdsAreUnique DEF SafeAborts, Others, Req, InitiateShape, NumbersOf
<1>8. SafeJob' /\ SafeRecs'
  BY <1>1, <1>2, <1>3, SafeJobStays, SafeRecsStay DEF InitiateShape
<1> QED
  BY <1>4, <1>5, <1>6, <1>7, <1>8 DEF LifeInv, SafeRecs

-----------------------------------------------------------------------------
(* DELETE of an upload and live objects.                                   *)

\* A DELETE of an upload deletes, and records, parts of no live object.
LEMMA AbortSafe ==
    ASSUME LGiven, SavesEnd', NEW a \in Abort, AbortStep(a)
    PROVE  LStoredOK /\ LRecsOK
<1>1. /\ AbortInv(a) /\ seen[a] \in PartMap /\ todo[a] \in SUBSET Part
      /\ pc[a] \in HasAborted => \A n \in NumbersOf(seen[a]) : Safe(seen[a][n])
  BY DEF LGiven, StoreInv, AbortsInv, TypeInv, LifeInv, SafeAborts
<1>2. pdi' = pdi => LRecsOK
  BY DEF LRecsOK
<1>3. stored' = stored => LStoredOK
  BY DEF LStoredOK
<1>4. ASSUME NEW forced \in BOOLEAN, forced => pc[a] \in HasAborted, PutRecs(AbortRecs(a, forced))
      PROVE  LRecsOK
  <2>1. PICK recs : recs = AbortRecs(a, forced)
    OBVIOUS
  <2>2. \A k \in DOMAIN recs :
            /\ \E n \in NumbersOf(seen[a]) : k = ObjKey(seen[a][n])
            /\ recs[k] = Rec(a, "abort", forced, NoVer)
    BY <2>1 DEF AbortRecs, AbortKeys
  <2>3. \A k \in DOMAIN recs : LeakOid(k) \in PartReq /\ (forced => Safe(LeakOid(k)))
    BY <2>2, <1>1, <1>4 DEF LeakOid, ObjKey, AbortInv, IsParts, PartOf, NumbersOf
  <2>4. \A k \in DOMAIN recs : RecInv(k, recs[k]) /\ SafeRec(k, recs[k])
    BY <2>2, <2>3 DEF RecInv, Rec, Kinds, SafeRec, Safe
  <2> QED
    BY <1>4, <2>1, <2>4, LRecsAreOK
<1>5. CASE GetMultipartMetadata(a) \/ GetNextParts(a)
  BY <1>5, <1>2, <1>3 DEF GetMultipartMetadata, GetNextParts, motr
<1>6. CASE AddPartsOidsToProbableDeadOidList(a)
  BY <1>6, <1>2, <1>3, <1>4 DEF AddPartsOidsToProbableDeadOidList
<1>7. CASE AbortDeleteMultipartMetadata(a) \/ DeletePartIndexWithParts(a)
  BY <1>7, <1>2, <1>3 DEF AbortDeleteMultipartMetadata, DeletePartIndexWithParts
<1>8. CASE MarkOidsForDeletion(a, "mark_parts", "delete_part")
  BY <1>8, <1>2, <1>3, <1>4 DEF MarkOidsForDeletion, At, HasAborted
<1>9. CASE MarkOidsForDeletion(a, "mark_left", "delete_left")
  BY <1>9, <1>2, <1>3, <1>4 DEF MarkOidsForDeletion, At, HasAborted
<1>10. ASSUME NEW label \in {"delete_part", "delete_left"}, DeletePart(a, label)
      PROVE  LStoredOK /\ LRecsOK
  <2>1. Max(todo[a]) \in NumbersOf(seen[a])
    BY <1>10, <1>1, EndsOfParts DEF DeletePart, At, AbortInv
  <2>2. Safe(seen[a][Max(todo[a])])
    BY <1>10, <1>1, <2>1 DEF DeletePart, At, HasAborted
  <2> QED
    BY <1>10, <1>2, <2>2 DEF DeletePart, LStoredOK
<1>11. CASE RemoveProbableRecords(a)
  BY <1>11, <1>3, LFewerRecs DEF RemoveProbableRecords
<1> QED
  BY <1>5, <1>6, <1>7, <1>8, <1>9, <1>10, <1>11 DEF AbortStep

\* A step of a DELETE of an upload preserves the invariant.
LEMMA AbortKeepsLife ==
    ASSUME StoreInv, LifeInv, Orderly, SavesEnd', NEW a \in Abort, AbortStep(a)
    PROVE  LifeInv'
<1>1. AbortShape(a) /\ Moves /\ Others(a)
  BY AbortHasShape, AbortMoves DEF StoreInv
<1>2. LGiven
  BY <1>1, AbortKeepsInv, AbortFirm DEF LGiven
<1>3. LStoredOK /\ LRecsOK
  BY <1>2, AbortSafe
<1>4. PastQuiet' /\ OneTook' /\ LiveInv' /\ LivePartsStored'
  BY <1>2, <1>3, PastStaysQuiet, OneTookStays, LiveKeepsParts
<1>5. \A r \in (Complete \cup Abort) \ {a} : seen'[r] = seen[r]
  BY <1>1 DEF AbortShape, StoreInv, TypeInv
<1>6. \A c \in Complete : CompletingInv(c)'
  BY <1>1, <1>2, <1>5, CompletingStays, IdsAreUnique DEF Others, Req, AbortShape
<1>7. SafePuts'
  BY <1>1, <1>2, SafePutStays, IdsAreUnique DEF SafePuts, Others, Req
<1>8. SafeAborts'
  <2> SUFFICES ASSUME NEW b \in Abort, pc'[b] \in HasAborted, NEW n \in NumbersOf(seen'[b])
               PROVE  Safe(seen[b][n])'
    BY DEF SafeAborts
  <2>1. CASE b # a
    BY <2>1, <1>1, <1>2, <1>5, SafeAbortStays DEF Others, Req, NumbersOf
  <2>2. CASE b = a /\ pc[a] \in HasAborted
    BY <2>2, <1>1, <1>2, SafeAbortStays DEF AbortShape, NumbersOf
  <2>3. CASE b = a /\ pc[a] = "delete_upload"
    <3>1. UploadOf[a] \notin mp' /\ seen' = seen /\ objList' = objList /\ ext' = ext /\ Engaged(a)
      BY <2>3, <1>1 DEF AbortShape, HasAborted, Engaged, InFlight, Ended
    <3>2. PICK o : o = seen[a][n]
      OBVIOUS
    <3>3. PartOf(o, UploadOf[a], n) /\ pc[o] \in Saved
      BY <2>3, <3>1, <3>2 DEF StoreInv, AbortsInv, AbortInv, IsParts, NumbersOf
    <3>4. NotLive(o)'
      BY <3>1, <3>3, EngagedIsNotLive DEF NotLive, PartOf
    <3>5. pc'[o] \notin PreSave
      BY <3>3, <1>1 DEF Moves, PartOf, Saved, CleansPart, PreSave
    <3>6. Spent(o)'
      BY <3>1, <3>3, <3>5 DEF Spent, PartOf, Open
    <3> QED
      BY <2>3, <3>1, <3>2, <3>4, <3>6 DEF Safe
  <2> QED
    BY <2>1, <2>2, <2>3, <1>1 DEF AbortShape
<1>9. SafeJob' /\ SafeRecs'
  BY <1>1, <1>2, <1>3, SafeJobStays, SafeRecsStay DEF AbortShape
<1> QED
  BY <1>4, <1>6, <1>7, <1>8, <1>9 DEF LifeInv, SafeRecs

-----------------------------------------------------------------------------
(* POST that completes an upload and live objects.                         *)

\* The parts of the version a complete request overwrote, once it took its
\* place.
LEMMA OverwrittenIsSafe ==
    ASSUME StoreInv, LifeInv, NEW c \in Complete, TookLife(c), NEW n \in NumbersOf(was[c])
    PROVE  Safe(was[c][n])
<1>1. old[c] \in Complete
  BY OverwrittenIsSpent
<1>2. DeadVer(old[c])
  BY <1>1, OverwrittenIsDead
<1>3. PartOf(was[c][n], UploadOf[old[c]], n) /\ pc[was[c][n]] \in Saved
  BY <1>1 DEF StoreInv, CompletesInv, CompleteInv, IsParts, NumbersOf
<1> QED
  BY <1>2, <1>3, DeadIsSafe

\* A complete request deletes, and forces records of, parts of the version it
\* took the place of.
LEMMA CompleteSafe ==
    ASSUME LGiven, SavesEnd', NEW c \in Complete, CompleteStep(c)
    PROVE  LStoredOK /\ LRecsOK
<1>1. /\ CompleteInv(c) /\ was[c] \in PartMap /\ todo[c] \in SUBSET Part
      /\ old[c] \in Version \cup {NoVer} /\ StoreInv /\ LifeInv /\ c \in Req /\ pc \in [Req -> Labels]
  BY DEF LGiven, StoreInv, CompletesInv, TypeInv, Req
<1>2. pdi' = pdi => LRecsOK
  BY DEF LRecsOK
<1>3. stored' = stored => LStoredOK
  BY DEF LStoredOK
<1>4. ASSUME NEW forced \in BOOLEAN, NEW recs, recs = OldRecs(c, forced)
      PROVE  \A k \in DOMAIN recs :
                \/ /\ k = ParentKey(c) /\ OverwritesParts(c)
                   /\ recs[k] = Rec(c, "parent", forced, old[c])
                \/ /\ k = ParentKey(c) /\ ~OverwritesParts(c)
                   /\ recs[k] = Rec(c, "simple", forced, old[c])
                \/ /\ k \in OldPartKeys(c)
                   /\ recs[k] = Rec(c, "ext", forced, old[c])
  BY <1>4 DEF OldRecs, OldRecKeys
<1>5. OverwritesParts(c) =>
        LeakOid(ParentKey(c)) = UploadOf[old[c]] /\ Took(old[c]) /\ old[c] \in Complete
  BY <1>1 DEF ParentKey, LeakOid, OldKey, OidOf, OverwritesParts, Overwritten, CompleteInv
<1>6. ~OverwritesParts(c) /\ old[c] # NoVer => LeakOid(ParentKey(c)) \notin PartReq
  BY <1>1, IdsAreUnique
  DEF ParentKey, LeakOid, OldKey, OidOf, OverwritesParts, Overwritten, Version, Req
<1>7. \A k \in OldPartKeys(c) :
        /\ LeakOid(k) \in PartReq /\ old[c] \in Complete /\ Took(old[c])
        /\ TookLife(c) => Safe(LeakOid(k))
  BY OverwrittenIsSpent, OverwrittenIsSafe, <1>1 DEF OldPartKeys, LeakOid, ObjKey, CompleteInv
<1>8. CASE FetchObjectInfo(c) \/ FetchExtObjectInfo(c) \/ FetchMultipartInfo(c) \/ GetNextPartsInfo(c)
  BY <1>8, <1>2, <1>3
  DEF FetchObjectInfo, FetchExtObjectInfo, FetchMultipartInfo, GetNextPartsInfo, motr
<1>9. CASE AddObjectOidToProbableDeadOidList(c)
  <2>1. CASE PutRecs(OldRecs(c, FALSE)) /\ pc'[c] = "save_version"
    <3> SUFFICES ASSUME NEW k \in DOMAIN pdi', ~(k \in DOMAIN pdi /\ pdi'[k] = pdi[k])
                 PROVE  SafeRec(k, pdi[k])'
      BY <1>9, <1>3 DEF LRecsOK, AddObjectOidToProbableDeadOidList
    <3>1. PICK recs : recs = OldRecs(c, FALSE)
      OBVIOUS
    <3>2. k \in DOMAIN recs /\ pdi'[k] = recs[k]
      BY <2>1, <3>1 DEF PutRecs
    <3>3. PICK rec : rec = pdi'[k]
      OBVIOUS
    <3>4. /\ pc[c] = "add_probable" /\ c \notin stopped /\ stopped' = stopped
          /\ old' = old /\ old[c] # NoVer
      BY <1>9, <1>1 DEF AddObjectOidToProbableDeadOidList, At, CompleteInv
    <3>5. InFlight(c) /\ InFlight(c)' /\ c \in Running
      BY <3>4, <2>1, <1>1 DEF InFlight, Ended, Running
    <3>6. \/ rec = Rec(c, "parent", FALSE, old[c]) /\ LeakOid(k) = UploadOf[old[c]]
          \/ rec = Rec(c, "simple", FALSE, old[c])
          \/ rec = Rec(c, "ext", FALSE, old[c])
      BY <3>1, <3>2, <3>3, <1>4, <1>5
    <3>7. c \in rec.since /\ ~rec.forced /\ rec.ver = old[c]
      BY <3>5, <3>6 DEF Rec
    <3>8. rec.kind = "parent" => LeakOid(k) = UploadOf[rec.ver]
      BY <3>6 DEF Rec
    <3>9. SafeRec(k, rec)'
      BY <3>4, <3>5, <3>7, <3>8, <2>1 DEF SafeRec, Saves, LeakOid
    <3> QED
      BY <3>3, <3>9
  <2> QED
    BY <2>1, <1>9, <1>1, <1>2, <1>3 DEF AddObjectOidToProbableDeadOidList, Go
<1>10. CASE SaveVersion(c) \/ SaveExtended(c) \/ SaveObject(c) \/ DeleteMultipartMetadata(c)
           \/ DeletePartListIndex(c) \/ RemoveOldObjectVersionMetadata(c) \/ RemoveOldFragments(c)
  BY <1>10, <1>2, <1>3 DEF SaveVersion, SaveExtended, SaveObject, DeleteMultipartMetadata,
     DeletePartListIndex, RemoveOldObjectVersionMetadata, RemoveOldFragments
<1>11. CASE MarkOldOidForDeletion(c)
  <2>1. CASE PutRecs(OldRecs(c, TRUE))
    <3>1. PICK recs : recs = OldRecs(c, TRUE)
      OBVIOUS
    <3>2. TookLife(c) /\ old[c] # NoVer
      BY <1>11, <1>1
      DEF MarkOldOidForDeletion, CompleteRecords, At, TookLife, CompleteCleanup, CompleteInv
    <3>3. OverwritesParts(c) => DeadVer(old[c])
      BY <3>2, <1>1, <1>5, OverwrittenIsDead
    <3>4. \A k \in DOMAIN recs :
            \/ /\ k = ParentKey(c) /\ OverwritesParts(c)
               /\ recs[k] = Rec(c, "parent", TRUE, old[c])
            \/ /\ k = ParentKey(c) /\ ~OverwritesParts(c)
               /\ recs[k] = Rec(c, "simple", TRUE, old[c])
            \/ /\ k \in OldPartKeys(c)
               /\ recs[k] = Rec(c, "ext", TRUE, old[c])
      BY <3>1, <1>4
    <3>5. \A k \in OldPartKeys(c) : Safe(LeakOid(k)) /\ Spent(LeakOid(k))
      BY <3>2, <1>7 DEF Safe
    <3>6. ASSUME NEW k \in DOMAIN recs
          PROVE  RecInv(k, recs[k]) /\ SafeRec(k, recs[k])
      <4>1. PICK rec : rec = recs[k]
        OBVIOUS
      <4>2. CASE k = ParentKey(c) /\ OverwritesParts(c) /\ rec = Rec(c, "parent", TRUE, old[c])
        <5>1. rec.kind = "parent" /\ rec.forced /\ rec.ver = old[c]
          BY <4>2 DEF Rec
        <5> QED
          BY <4>1, <4>2, <5>1, <3>3, <1>5 DEF RecInv, Kinds, SafeRec
      <4>3. CASE k = ParentKey(c) /\ ~OverwritesParts(c) /\ rec = Rec(c, "simple", TRUE, old[c])
        <5>1. rec.kind = "simple" /\ rec.forced /\ rec.ver = old[c]
          BY <4>3 DEF Rec
        <5> QED
          BY <4>1, <4>3, <5>1, <3>2, <1>6 DEF RecInv, Kinds, SafeRec
      <4>4. CASE k \in OldPartKeys(c) /\ rec = Rec(c, "ext", TRUE, old[c])
        <5>1. rec.kind = "ext" /\ rec.forced /\ rec.ver = old[c]
          BY <4>4 DEF Rec
        <5> QED
          BY <4>1, <4>4, <5>1, <3>5, <1>7 DEF RecInv, Kinds, SafeRec
      <4> QED
        BY <3>4, <4>1, <4>2, <4>3, <4>4
    <3>7. PutRecs(recs) /\ \A k \in DOMAIN recs : SafeRec(k, recs[k]) /\ RecInv(k, recs[k])
      BY <2>1, <3>1, <3>6
    <3>8. LRecsOK
      BY <3>7, LRecsAreOK
    <3> QED
      BY <3>8, <1>11, <1>3 DEF MarkOldOidForDeletion, CompleteRecords
  <2> QED
    BY <2>1, <1>11, <1>2, <1>3 DEF MarkOldOidForDeletion, CompleteRecords
<1>12. CASE DeleteOldObject(c)
  <2>1. ASSUME todo[c] # {}
        PROVE  Safe(was[c][Max(todo[c])])
    <3>1. Max(todo[c]) \in NumbersOf(was[c]) /\ TookLife(c)
      BY <1>12, <2>1, <1>1, EndsOfParts DEF DeleteOldObject, At, CompleteInv, TookLife, CompleteCleanup
    <3> QED
      BY <3>1, <1>1, OverwrittenIsSafe
  <2> QED
    BY <1>12, <1>2, <2>1 DEF DeleteOldObject, LStoredOK
<1>13. CASE RemoveOldOidProbableRecord(c)
  BY <1>13, <1>2, <1>3, LFewerRecs DEF RemoveOldOidProbableRecord, CompleteRecords
<1>14. CASE AddOidForParallelLeakCheck(c)
  <2> DEFINE R == [k \in {ChkKey(UploadOf[c])} |-> Rec(c, "parent", FALSE, c)]
  <2>1. CASE PutRecs(R)
    <3>1. PICK recs : recs = R
      OBVIOUS
    <3>2. \A k \in DOMAIN recs : k = ChkKey(UploadOf[c]) /\ recs[k] = Rec(c, "parent", FALSE, c)
      BY <3>1
    <3>3. LeakOid(ChkKey(UploadOf[c])) = UploadOf[c]
      BY DEF LeakOid, ChkKey
    <3>4. \A k \in DOMAIN recs : LeakOid(k) = UploadOf[c] /\ recs[k] = Rec(c, "parent", FALSE, c)
      BY <3>2, <3>3
    <3>5. Took(c)
      BY <1>14 DEF AddOidForParallelLeakCheck, CompleteRecords, At, Took, TookLife, CompleteCleanup
    <3>6. \A k \in DOMAIN recs : RecInv(k, recs[k]) /\ SafeRec(k, recs[k])
      BY <3>4, <3>5 DEF RecInv, Rec, Kinds, SafeRec
    <3> QED
      BY <2>1, <3>1, <3>6, LRecsAreOK, <1>14, <1>3 DEF AddOidForParallelLeakCheck, CompleteRecords
  <2> QED
    BY <2>1, <1>14, <1>2, <1>3 DEF AddOidForParallelLeakCheck, CompleteRecords
<1> QED
  BY <1>8, <1>9, <1>10, <1>11, <1>12, <1>13, <1>14 DEF CompleteStep

\* A step of a POST that completes an upload preserves the invariant.
LEMMA CompleteKeepsLife ==
    ASSUME StoreInv, LifeInv, Orderly, Orderly', SavesEnd', NEW c \in Complete, CompleteStep(c)
    PROVE  LifeInv'
<1>1. CompleteShape(c) /\ Moves /\ Others(c)
  BY CompleteHasShape, CompleteMoves DEF StoreInv
<1>2. LGiven
  BY <1>1, CompleteKeepsInv, CompleteFirm DEF LGiven
<1>3. LStoredOK /\ LRecsOK
  BY <1>2, CompleteSafe
<1>4. PastQuiet' /\ OneTook' /\ LiveInv' /\ LivePartsStored'
  BY <1>2, <1>3, PastStaysQuiet, OneTookStays, LiveKeepsParts
<1>5. \A r \in (Complete \cup Abort) \ {c} : seen'[r] = seen[r]
  BY <1>1 DEF CompleteShape, StoreInv, TypeInv
<1>6. \A d \in Complete : CompletingInv(d)'
  BY <1>1, <1>2, <1>5, CompletingStays, CompletingOwn DEF Others, Req, CompleteShape
<1>7. SafePuts'
  BY <1>1, <1>2, SafePutStays, IdsAreUnique DEF SafePuts, Others, Req
<1>8. SafeAborts'
  BY <1>1, <1>2, <1>5, SafeAbortStays, IdsAreUnique DEF SafeAborts, Others, Req, NumbersOf
<1>9. SafeJob' /\ SafeRecs'
  BY <1>1, <1>2, <1>3, SafeJobStays, SafeRecsStay DEF CompleteShape
<1> QED
  BY <1>4, <1>6, <1>7, <1>8, <1>9 DEF LifeInv, SafeRecs

-----------------------------------------------------------------------------
(* Background delete and live objects.                                     *)

\* Background delete deletes parts that no live object has.
LEMMA RecoverySafe ==
    ASSUME LGiven, RecoveryStep
    PROVE  LStoredOK /\ LRecsOK
<1>1. StoreInv /\ LifeInv /\ (bd.step # "idle" => bd # NoJob)
  BY DEF LGiven, NoJob
<1>2. pdi' = pdi => LRecsOK
  BY DEF LRecsOK
<1>3. stored' = stored => LStoredOK
  BY DEF LStoredOK
<1>4. CASE (\E k \in DOMAIN pdi : ProcessResults(k)) \/ CompareWithLive \/ DeleteVersionEntry
           \/ DelExtendedEntry
  BY <1>4, <1>2, <1>3
  DEF ProcessResults, CompareWithLive, DeleteVersionEntry, DelExtendedEntry, motr
<1>5. CASE DeleteObjectFromStorage
  BY <1>5, <1>1, <1>2 DEF DeleteObjectFromStorage, LifeInv, SafeJob, LStoredOK
<1>6. CASE DelObjFromExtendedIndex
  <2>1. bd.step = "parts" /\ bd.parts # {} /\ bd # NoJob
    BY <1>6, <1>1 DEF DelObjFromExtendedIndex
  <2>2. /\ bd.parts \subseteq Part
        /\ bd.rec.ver \in Complete /\ bd.rec.kind \in {"ext", "parent"}
    BY <2>1, <1>1 DEF StoreInv, JobInv, RecInv
  <2>3. DeadVer(bd.rec.ver)
    BY <2>1, <2>2, <1>1 DEF LifeInv, SafeJob
  <2>4. NextPart \in Part
    BY <2>1, <2>2, EndsOfParts DEF NextPart
  <2>5. PICK p : p = ext[bd.rec.ver][NextPart]
    OBVIOUS
  <2>6. p # NoOid => PartOf(p, UploadOf[bd.rec.ver], NextPart) /\ pc[p] \in Saved
    BY <2>2, <2>4, <2>5, <1>1 DEF StoreInv, ListsAreRight, IsParts
  <2>7. p # NoOid => Safe(p)
    BY <2>3, <2>6, <1>1, DeadIsSafe
  <2> QED
    BY <1>6, <1>2, <2>5, <2>7, MultipartAssumption DEF DelObjFromExtendedIndex, LStoredOK
<1>7. CASE DeleteRecord
  BY <1>7, <1>3, LFewerRecs DEF DeleteRecord
<1> QED
  BY <1>4, <1>5, <1>6, <1>7 DEF RecoveryStep

\* An aged record of a part that its request did not force names a version
\* that is no longer live.
LEMMA AgedIsDead ==
    ASSUME StoreInv, LifeInv, NEW k \in DOMAIN pdi, Aged(k), pdi[k].kind = "ext", ~pdi[k].forced
    PROVE  DeadVer(pdi[k].ver)
<1>1. RecInv(k, pdi[k]) /\ SafeRec(k, pdi[k])
  BY DEF StoreInv, RecsInv, LifeInv
<1>2. PICK c \in pdi[k].since \cap Complete :
        old[c] = pdi[k].ver /\ ((InFlight(c) /\ pc[c] \in Saves) \/ TookLife(c))
  BY <1>1 DEF SafeRec
<1>3. ~InFlight(c)
  BY <1>2 DEF Aged, Running, Req
<1>4. old[c] \in Complete
  BY <1>1, <1>2 DEF RecInv
<1> QED
  BY <1>2, <1>3, <1>4, OverwrittenIsDead

\* A part that the part list index has replaced is in no live object.
LEMMA ReplacedIsSafe ==
    ASSUME StoreInv, LifeInv, NEW p \in PartReq, pc[p] \in Saved, Entry(p) \notin {NoOid, p}
    PROVE  Safe(p)
<1>1. Spent(p)
  BY DEF Spent, Saved, CleansPart, PreSave
<1>2. NotLive(p)
  <2> SUFFICES ASSUME objList \in Complete, NEW n \in Part, ext[objList][n] = p
               PROVE  FALSE
    BY DEF NotLive
  <2>1. UploadOf[p] = UploadOf[objList] /\ PartNumber[p] = n
    BY MultipartAssumption DEF StoreInv, ListsAreRight, IsParts, PartOf
  <2> QED
    BY <2>1 DEF LifeInv, LiveInv, Entry
<1> QED
  BY <1>1, <1>2 DEF Safe

\* What makes the step of background delete that comes next safe.
LEMMA RecoverySafeJob ==
    ASSUME LGiven, SavesEnd', RecoveryStep
    PROVE  SafeJob'
<1>1. StoreInv /\ LifeInv /\ (bd.step # "idle" => bd # NoJob)
  BY DEF LGiven, NoJob
<1>2. ASSUME NEW k \in DOMAIN pdi, ProcessResults(k)
      PROVE  SafeJob'
  <2>1. PICK rec : rec = pdi[k]
    OBVIOUS
  <2>2. RecInv(k, rec) /\ SafeRec(k, rec)
    BY <2>1, <1>1 DEF StoreInv, RecsInv, LifeInv
  <2>3. PICK step :
            /\ bd' = Job(step, k, rec, PartsOfRec(k, rec))
            /\ \/ step = "version" /\ rec.forced /\ rec.kind = "parent"
               \/ step = "object" /\ rec.forced /\ rec.kind # "parent"
               \/ step = "parts" /\ ~rec.forced /\ rec.kind = "ext"
               \/ step = "compare"
    BY <1>2, <2>1 DEF ProcessResults
  <2>4. bd'.step = step /\ bd'.key = k /\ bd'.rec = rec
    BY <2>3 DEF Job
  <2>5. SafeRec(k, rec)'
    BY <2>2, SafeRecStays
  <2>6. step = "object" => LeakOid(k) \notin PartReq \/ Safe(LeakOid(k))'
    BY <2>2, <2>3, <2>5 DEF RecInv, SafeRec, Kinds
  <2>7. step \in {"version", "parts"} => DeadVer(rec.ver)
    BY <1>2, <1>1, <2>1, <2>2, <2>3, AgedIsDead DEF SafeRec, ProcessResults
  <2>8. step \in {"version", "parts", "entry"} => DeadVer(rec.ver)'
    BY <2>3, <2>7, DeadStays
  <2> QED
    BY <2>4, <2>5, <2>6, <2>8 DEF SafeJob
<1>3. ASSUME bd # NoJob, NEW step, NEW parts, bd' = Job(step, bd.key, bd.rec, parts),
             step = "object" => LeakOid(bd.key) \notin PartReq \/ Safe(LeakOid(bd.key)),
             step \in {"version", "parts", "entry"} /\ bd.rec.kind # "simple" => DeadVer(bd.rec.ver)
      PROVE  SafeJob'
  <2>1. PICK k, rec : k = bd.key /\ rec = bd.rec
    OBVIOUS
  <2>2. SafeRec(k, rec) /\ RecInv(k, rec)
    BY <1>3, <2>1, <1>1 DEF LifeInv, SafeJob, StoreInv, JobInv
  <2>3. SafeRec(k, rec)'
    BY <2>2, SafeRecStays
  <2>4. bd'.step = step /\ bd'.key = k /\ bd'.rec = rec
    BY <1>3, <2>1 DEF Job
  <2>5. step = "object" => LeakOid(k) \notin PartReq \/ Safe(LeakOid(k))'
    BY <1>3, <2>1, SafeStays DEF LeakOid
  <2>6. step \in {"version", "parts", "entry"} /\ rec.kind # "simple" => DeadVer(rec.ver)'
    BY <1>3, <2>1, DeadStays
  <2> QED
    BY <2>3, <2>4, <2>5, <2>6 DEF SafeJob
<1>4. ASSUME bd # NoJob, NEW step
      PROVE  [bd EXCEPT !.step = step] = Job(step, bd.key, bd.rec, bd.parts)
  BY <1>4, <1>1 DEF StoreInv, JobInv, Job
<1>5. CASE CompareWithLive
  <2>1. bd # NoJob /\ bd.step = "compare"
    BY <1>5, <1>1 DEF CompareWithLive
  <2>2. /\ bd.rec.kind \in {"parent", "simple", "check", "abort"}
        /\ RecInv(bd.key, bd.rec) /\ SafeRec(bd.key, bd.rec)
    BY <2>1, <1>1 DEF StoreInv, JobInv, LifeInv, SafeJob
  <2>3. \/ bd' = NoJob
        \/ bd' = [bd EXCEPT !.step = "record"]
        \/ /\ bd' = [bd EXCEPT !.step = "version"] /\ bd.rec.kind = "parent"
           /\ ~IsLive(bd.key)
        \/ bd' = [bd EXCEPT !.step = "object"] /\ bd.rec.kind = "simple"
        \/ /\ bd' = [bd EXCEPT !.step = "object"] /\ bd.rec.kind = "check"
           /\ PartEntry(bd.key) \notin {NoOid, LeakOid(bd.key)}
    BY <1>5, <2>2 DEF CompareWithLive
  <2>4. CASE bd' = NoJob
    BY <2>4 DEF SafeJob, NoJob
  <2>5. bd.rec.kind = "simple" => LeakOid(bd.key) \notin PartReq
    BY <2>2 DEF RecInv
  <2>6. bd.rec.kind = "check" /\ PartEntry(bd.key) \notin {NoOid, LeakOid(bd.key)}
            => Safe(LeakOid(bd.key))
    BY <2>2, <1>1, ReplacedIsSafe DEF RecInv, PartEntry, Entry
  <2>7. bd.rec.kind = "parent" /\ ~IsLive(bd.key) => DeadVer(bd.rec.ver)
    BY <2>2, MultipartAssumption DEF RecInv, SafeRec, IsLive, OidOf, DeadVer, Version
  <2> QED
    BY <2>1, <2>2, <2>3, <2>4, <2>5, <2>6, <2>7, <1>3, <1>4
<1>6. CASE DeleteObjectFromStorage
  <2>1. bd # NoJob
    BY <1>6, <1>1 DEF DeleteObjectFromStorage
  <2> QED
    BY <1>6, <2>1, <1>3, <1>4 DEF DeleteObjectFromStorage, DoJob
<1>7. CASE DeleteVersionEntry
  <2>1. bd # NoJob /\ bd.step = "version"
    BY <1>7, <1>1 DEF DeleteVersionEntry
  <2>2. bd.rec.kind # "simple" => DeadVer(bd.rec.ver)
    BY <2>1, <1>1 DEF LifeInv, SafeJob
  <2> QED
    BY <1>7, <2>1, <2>2, <1>3, <1>4 DEF DeleteVersionEntry, DoJob
<1>8. CASE DelObjFromExtendedIndex
  <2>1. bd # NoJob /\ bd.step = "parts"
    BY <1>8, <1>1 DEF DelObjFromExtendedIndex
  <2>2. bd.rec.kind # "simple" => DeadVer(bd.rec.ver)
    BY <2>1, <1>1 DEF LifeInv, SafeJob
  <2> QED
    BY <1>8, <2>1, <2>2, <1>3, <1>4 DEF DelObjFromExtendedIndex, DoJob
<1>9. CASE DelExtendedEntry
  <2>1. bd # NoJob /\ bd.step = "entry"
    BY <1>9, <1>1 DEF DelExtendedEntry
  <2>2. bd.rec.kind # "simple" => DeadVer(bd.rec.ver)
    BY <2>1, <1>1 DEF LifeInv, SafeJob
  <2>3. bd' = Job("parts", bd.key, bd.rec, bd.parts \ {NextPart})
    BY <1>9, <2>1, <1>1 DEF DelExtendedEntry, StoreInv, JobInv, Job
  <2> QED
    BY <2>1, <2>2, <2>3, <1>3
<1>10. CASE DeleteRecord
  BY <1>10 DEF DeleteRecord, SafeJob, NoJob
<1> QED
  BY <1>2, <1>5, <1>6, <1>7, <1>8, <1>9, <1>10 DEF RecoveryStep

\* A step of background delete preserves the invariant.
LEMMA RecoveryKeepsLife ==
    ASSUME StoreInv, LifeInv, Orderly, SavesEnd', RecoveryStep
    PROVE  LifeInv'
<1>1. RecoveryShape /\ Moves
  BY RecoveryHasShape, RecoveryMoves DEF StoreInv
<1>2. LGiven
  BY <1>1, RecoveryKeepsInv, RecoveryFirm DEF LGiven
<1>3. LStoredOK /\ LRecsOK
  BY <1>2, RecoverySafe
<1>4. PastQuiet' /\ OneTook' /\ LiveInv' /\ LivePartsStored'
  BY <1>2, <1>3, PastStaysQuiet, OneTookStays, LiveKeepsParts
<1>5. UNCHANGED <<pc, old, seen, was, todo, stopped>>
  BY <1>1 DEF RecoveryShape, reqs
<1>6. \A c \in Complete : CompletingInv(c)'
  BY <1>2, <1>5, CompletingStays
<1>7. SafePuts'
  BY <1>2, <1>5, SafePutStays DEF SafePuts
<1>8. SafeAborts'
  BY <1>2, <1>5, SafeAbortStays DEF SafeAborts, NumbersOf
<1>9. SafeJob' /\ SafeRecs'
  BY <1>2, <1>3, RecoverySafeJob, SafeRecsStay
<1> QED
  BY <1>4, <1>6, <1>7, <1>8, <1>9 DEF LifeInv, SafeRecs

\* A server that stops, and a step that changes nothing.
LEMMA StopKeepsLife ==
    ASSUME StoreInv, LifeInv, Orderly, SavesEnd', UNCHANGED <<motr, pc, old, seen, was, todo, bd>>,
           stopped \subseteq stopped'
    PROVE  LifeInv'
<1>1. LGiven
  BY StopMoves, StopKeepsInv, StopFirm DEF LGiven, StoreInv
<1>2. LStoredOK /\ LRecsOK
  BY DEF motr, LStoredOK, LRecsOK
<1>3. PastQuiet' /\ OneTook' /\ LiveInv' /\ LivePartsStored'
  BY <1>1, <1>2, PastStaysQuiet, OneTookStays, LiveKeepsParts
<1>4. \A c \in Complete : CompletingInv(c)'
  BY <1>1, CompletingStays
<1>5. SafePuts'
  BY <1>1, SafePutStays DEF SafePuts
<1>6. SafeAborts'
  BY <1>1, SafeAbortStays DEF SafeAborts, NumbersOf
<1>7. SafeJob' /\ SafeRecs'
  BY <1>1, <1>2, SafeJobStays, SafeRecsStay
<1> QED
  BY <1>3, <1>4, <1>5, <1>6, <1>7 DEF LifeInv, SafeRecs

-----------------------------------------------------------------------------
(* The start and the theorem.                                              *)

\* The invariant holds at the start.
LEMMA InitLifeInv == Init => LifeInv
<1> SUFFICES ASSUME Init PROVE LifeInv
  OBVIOUS
<1>1. \A r \in Req : pc[r] \in {"idle", "done"}
  BY DEF Init
<1>2. objList \in Complete => objList \in Past /\ ext[objList] = PastParts[objList]
  BY MultipartAssumption DEF Init, Version
<1>3. \A c \in Complete : ~TookLife(c)
  BY <1>1 DEF TookLife, CompleteCleanup, Req
<1>4. PastQuiet
  BY <1>1 DEF PastQuiet
<1>5. \A c \in Complete : CompletingInv(c)
  BY <1>1, <1>3 DEF CompletingInv, Engaged, InFlight, Ended, Req
<1>6. LiveInv
  <2> SUFFICES ASSUME objList \in Complete, NEW n \in Part
               PROVE  partIdx[UploadOf[objList]][n] = NoOid
    BY DEF LiveInv
  <2>1. UploadOf[objList] \notin AlreadyOpen /\ UploadOf[objList] \in Upload
    BY <1>2, StartAssumption, MultipartAssumption
  <2> QED
    BY <2>1 DEF Init, NoParts
<1>7. OneTook
  BY <1>3, StartAssumption DEF OneTook, Took
<1>8. SafePuts /\ SafeAborts
  BY <1>1 DEF SafePuts, SafeAborts, CleansPart, HasAborted, Req
<1>9. (\A k \in DOMAIN pdi : SafeRec(k, pdi[k])) /\ SafeJob
  BY DEF Init, SafeJob
<1>10. LivePartsStored
  <2> SUFFICES ASSUME objList \in Complete
               PROVE  /\ NumbersOf(ext[objList]) = Asked[objList]
                      /\ \A n \in Asked[objList] : ext[objList][n] \in stored
    BY DEF LivePartsStored
  <2>1. NumbersOf(PastParts[objList]) = Asked[objList]
    BY <1>2, StartAssumption
  <2>2. \A n \in Asked[objList] : PastParts[objList][n] \in OidsOf(PastParts[objList])
    BY <2>1 DEF OidsOf
  <2> QED
    BY <1>2, <2>1, <2>2 DEF Init
<1> QED
  BY <1>4, <1>5, <1>6, <1>7, <1>8, <1>9, <1>10 DEF LifeInv

\* Every step preserves the invariant, if no two requests for one upload
\* overlap and the saves of a complete request that overwrites succeed.
LEMMA StepLifeInv ==
    StoreInv /\ LifeInv /\ Orderly /\ Orderly' /\ SavesEnd' /\ [Next]_vars => LifeInv'
<1> SUFFICES ASSUME StoreInv, LifeInv, Orderly, Orderly', SavesEnd', [Next]_vars PROVE LifeInv'
  OBVIOUS
<1>1. CASE \E u \in Upload : InitiateStep(u)
  BY <1>1, InitiateKeepsLife
<1>2. CASE \E p \in PartReq : PartStep(p)
  BY <1>2, PartKeepsLife
<1>3. CASE \E c \in Complete : CompleteStep(c)
  BY <1>3, CompleteKeepsLife
<1>4. CASE \E a \in Abort : AbortStep(a)
  BY <1>4, AbortKeepsLife
<1>5. CASE \E r \in CanStop : Stop(r)
  BY <1>5, StopKeepsLife DEF Stop
<1>6. CASE RecoveryStep
  BY <1>6, RecoveryKeepsLife
<1>7. CASE UNCHANGED vars
  BY <1>7, StopKeepsLife DEF vars, reqs
<1> QED
  BY <1>1, <1>2, <1>3, <1>4, <1>5, <1>6, <1>7 DEF Next

\* A multipart object that is live has all its parts in Motr, provided that
\* no two requests for one upload overlap and that the saves of a complete
\* request that overwrites an object all succeed.
THEOREM LiveObjectsKeepTheirParts ==
    Spec /\ []Orderly /\ []SavesEnd => []LivePartsStored
<1>1. Spec => []StoreInv
  BY InitStoreInv, StepStoreInv, PTL DEF Spec
<1>2. Spec /\ []Orderly /\ []SavesEnd => []LifeInv
  BY <1>1, InitLifeInv, StepLifeInv, PTL DEF Spec
<1>3. LifeInv => LivePartsStored
  BY DEF LifeInv
<1> QED
  BY <1>2, <1>3, PTL
=============================================================================
