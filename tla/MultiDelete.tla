----------------------------- MODULE MultiDelete -----------------------------
(***************************************************************************)
(* S3DeleteMultipleObjectsAction: one request that names many keys.  It    *)
(* works through them in batches, one read of the object list per batch:   *)
(* it loads the parts of the objects found, writes a probable delete       *)
(* record for everything they hold, and removes their metadata.  Only      *)
(* after the last batch it answers, and then deletes the data of all       *)
(* batches and the records.  Another request may replace an object at any  *)
(* time; there is no lock.                                                 *)
(*                                                                         *)
(* An object has an oid of its own and, when it came from a multipart      *)
(* upload, parts that hold its data; the oid then stands for nothing.      *)
(***************************************************************************)
EXTENDS Naturals, FiniteSets, Sequences, SequencesExt

CONSTANTS MdRequests,   \* sequences of keys a client may ask to delete
          MdContents,   \* the objects in the bucket: functions from keys to objects
          MdCorrupt,    \* keys whose metadata does not parse
          MdBatch,      \* keys of a batch, S3_MOTR_MAX_IDX_FETCH_COUNT
          MdNew,        \* the object another request stores
          MdFault       \* of {"read", "load", "write", "keys", "launch", "delete", "replace"}

VARIABLES md,        \* the request
          contents,  \* the bucket's object list: key -> object
          stored,    \* oids with data in Motr
          mdRecs,    \* oids with a probable delete record
          mdSlips    \* history: the keys whose removal failed unnoticed (stayed),
                     \* the oids that failures left without a record (forgot)

mdVars == <<md, contents, stored, mdRecs, mdSlips>>

None == [own |-> 0, parts |-> {}]
Data(o) == IF o.parts = {} THEN {o.own} \ {0} ELSE o.parts
DataOf(keys) == UNION {Data(contents[k]) : k \in keys}
LiveOids == DataOf(DOMAIN contents)

\* An oid belongs to one object, and the one that an object of parts has by
\* itself to no data; the client asks for keys that the bucket may hold.
MdObjects == {None, MdNew} \cup UNION {Range(c) : c \in MdContents}
ASSUME MdAssumption ==
    /\ MdBatch \in Nat \ {0}
    /\ \A o \in MdObjects : 0 \notin o.parts
    /\ \A o, p \in MdObjects : o.parts # {} => o.own \notin Data(p)
    /\ \A c \in MdContents : /\ c \in [DOMAIN c -> MdObjects]
                             /\ \A j, k \in DOMAIN c : j # k => Data(c[j]) \cap Data(c[k]) = {}
    /\ \A keys \in MdRequests : /\ keys \in Seq(Range(keys))
                                /\ \A c \in MdContents : Range(keys) \subseteq DOMAIN c

NewMultiDelete(keys, has) ==
    [pc |-> "validate",  \* validate fetch load record remove extended data unrecord done
     keys |-> keys, at |-> 0, batch |-> {}, objs |-> {}, unread |-> {}, snapshot |-> <<>>,
     ok |-> {}, failed |-> {}, any |-> FALSE, toDelete |-> {}, listed |-> {},
     reply |-> "none", raced |-> {}, index |-> has]

-----------------------------------------------------------------------------
(* send_response_to_s3_client and cleanup.                                 *)

Cleanup(d) == [d EXCEPT !.pc = IF d.toDelete = {} THEN "unrecord" ELSE "data"]
Respond(d) == Cleanup([d EXCEPT !.reply = IF @ = "none" THEN "result" ELSE @])
Error(d) == Respond([d EXCEPT !.reply = "error"])
RespondAny(d) == IF d.any THEN Respond(d) ELSE Error(d)

\* fetch_objects_info reads the next batch.

\* Mutant: the batch overlooks its last key.
NextBatch_Short(d) ==
    LET upto == IF d.at + MdBatch < Len(d.keys) THEN d.at + MdBatch ELSE Len(d.keys)
    IN  [d EXCEPT !.pc = "fetch", !.at = upto,
                  !.batch = Range(SubSeq(d.keys, d.at + 1, upto - IF upto = MdBatch THEN 1 ELSE 0))]

NextBatch(d) ==
    LET upto == IF d.at + MdBatch < Len(d.keys) THEN d.at + MdBatch ELSE Len(d.keys)
    IN  [d EXCEPT !.pc = "fetch", !.at = upto, !.batch = Range(SubSeq(d.keys, d.at + 1, upto))]

MoreKeys(d) == d.at < Len(d.keys)
\* fetch_objects_info with no key left launches nothing.
FetchObjectsInfo(d) == IF MoreKeys(d) THEN NextBatch(d) ELSE [d EXCEPT !.pc = "fetch", !.batch = {}]

-----------------------------------------------------------------------------
\* The bucket may be missing, the body corrupt, malformed or too long.  If the
\* bucket has no object list, fetch_objects_info reports the keys of the batch
\* before, and so none.
ValidateRequest ==
    /\ md.pc = "validate"
    /\ md' \in {IF md.index THEN FetchObjectsInfo(md) ELSE Respond(md), Error(md)}
    /\ UNCHANGED <<contents, stored, mdRecs, mdSlips>>

\* fetch_objects_info_failed.

BatchMissing(d) ==
    LET q == [d EXCEPT !.ok = @ \cup d.batch]
    IN  IF MoreKeys(d) THEN FetchObjectsInfo(q) ELSE Respond(q)

\* fetch_objects_info_successful.
BatchFound(d, found) ==
    LET good == found \ MdCorrupt
        q == [d EXCEPT !.ok = @ \cup (d.batch \ found), !.failed = @ \cup (found \cap MdCorrupt),
                       !.objs = good, !.unread = {}, !.snapshot = [k \in good |-> contents[k]]]
    IN  CASE good # {} -> [q EXCEPT !.pc = "load"]
          [] good = {} /\ MoreKeys(d) -> FetchObjectsInfo(q)
          [] good = {} /\ ~MoreKeys(d) -> RespondAny(q)

FetchEnds ==
    LET found == {k \in md.batch : contents[k] # None}
    IN  /\ md.pc = "fetch" /\ md.batch # {}
        /\ md' \in {IF found = {} THEN BatchMissing(md) ELSE BatchFound(md, found)} \cup
                   (IF "read" \in MdFault THEN {Error(md)} ELSE {})
        /\ UNCHANGED <<contents, stored, mdRecs, mdSlips>>

\* fetch_objects_extended_info: the parts of an object that cannot be loaded
\* are left out of everything that follows.
Multiparts(d) == {k \in d.objs : d.snapshot[k].parts # {}}
LoadExtended ==
    /\ md.pc = "load"
    /\ \E bad \in IF "load" \in MdFault THEN SUBSET Multiparts(md) ELSE {{}} :
        md' = [md EXCEPT !.pc = "record", !.unread = bad]
    /\ UNCHANGED <<contents, stored, mdRecs, mdSlips>>

\* add_object_oid_to_probable_dead_oid_list.
\* Mutant: it records an object's own oid only.
Recorded_OwnOnly(d) == {d.snapshot[k].own : k \in d.objs \ d.unread} \ {0}

Recorded(d) == UNION {Data(d.snapshot[k]) : k \in d.objs \ d.unread}

\* An operation on many keys has a result per key.  put_keyval_successful and
\* delete_keyval_successful look at none of them.
Passed(keys) == IF "keys" \in MdFault THEN SUBSET keys ELSE {{}}

AddRecords ==
    /\ md.pc = "record"
    /\ \E missed \in Passed(Recorded(md)) :
        /\ mdRecs' = mdRecs \cup (Recorded(md) \ missed)
        /\ \/ /\ md' = [md EXCEPT !.pc = "remove", !.listed = @ \cup Recorded(md)]
              /\ mdSlips' = [mdSlips EXCEPT !.forgot = @ \cup missed]
           \/ /\ "write" \in MdFault
              /\ md' = Error([md EXCEPT !.listed = @ \cup Recorded(md)]) /\ UNCHANGED mdSlips
    /\ UNCHANGED <<contents, stored>>

\* delete_objects_metadata, and delete_objects_metadata_failed: a key that was
\* not found counts as deleted, one that was removed as failed.

RemovalFails(d) ==
    LET gone == {k \in d.objs : contents[k] = None}
        q == [d EXCEPT !.any = @ \/ gone # {}, !.ok = @ \cup gone, !.failed = @ \cup (d.objs \ gone)]
    IN  IF MoreKeys(d) THEN FetchObjectsInfo(q) ELSE RespondAny(q)

Removed(keys) == [k \in DOMAIN contents |-> IF k \in keys THEN None ELSE contents[k]]
Slip(removed, stayed, forgot) ==
    [stayed |-> (mdSlips.stayed \ removed) \cup stayed, forgot |-> mdSlips.forgot \cup forgot]

RemoveMetadata ==
    /\ md.pc = "remove"
    /\ \E stay \in Passed({k \in md.objs : contents[k] # None}) :
        \/ /\ contents' = Removed(md.objs \ stay) /\ md' = [md EXCEPT !.pc = "extended"]
           /\ mdSlips' = Slip(md.objs \ stay, stay, DataOf((md.objs \ stay) \cap md.unread))
        \/ /\ "write" \in MdFault
           /\ contents' = Removed(md.objs \ stay) /\ md' = RemovalFails(md)
           /\ mdSlips' = Slip(md.objs \ stay, {}, DataOf(md.objs \ stay))
    /\ UNCHANGED <<stored, mdRecs>>

RemovalRefused ==
    /\ md.pc = "remove" /\ "launch" \in MdFault
    /\ md' = Error(md) /\ UNCHANGED <<contents, stored, mdRecs, mdSlips>>

\* delete_extended_metadata; a failure is logged and passed over.
DeleteExtended ==
    LET q == [md EXCEPT !.any = TRUE, !.ok = @ \cup md.objs,
                        !.toDelete = @ \cup {md.snapshot[k].own : k \in md.objs} \cup Recorded(md)]
    IN  /\ md.pc = "extended"
        /\ md' = IF MoreKeys(md) THEN FetchObjectsInfo(q) ELSE Respond(q)
        /\ UNCHANGED <<contents, stored, mdRecs, mdSlips>>

-----------------------------------------------------------------------------
(* cleanup: the operation on many objects counts as successful when one of *)
(* them was, and the names erased on a failure lack the letter that the    *)
(* records' keys begin with, so that no record is spared.                  *)

MayStay(d) == IF "delete" \in MdFault THEN SUBSET (d.toDelete \cap stored) ELSE {{}}
DeleteData ==
    /\ md.pc = "data"
    /\ \/ /\ \E failed \in MayStay(md) :
              /\ stored' = stored \ (md.toDelete \ failed)
              /\ mdSlips' = [mdSlips EXCEPT !.forgot = @ \cup failed]
          /\ md' = [md EXCEPT !.pc = "unrecord"]
       \/ /\ "launch" \in MdFault /\ UNCHANGED <<stored, mdSlips>>
          /\ md' = [md EXCEPT !.pc = "unrecord", !.listed = {}]
    /\ UNCHANGED <<contents, mdRecs>>

\* cleanup_oid_from_probable_dead_oid_list; done follows either way.
Unrecord ==
    /\ md.pc = "unrecord"
    /\ mdRecs' \in {mdRecs \ md.listed} \cup (IF "write" \in MdFault THEN {mdRecs} ELSE {})
    /\ md' = [md EXCEPT !.pc = "done"] /\ UNCHANGED <<contents, stored, mdSlips>>

\* With delayed deletion the records are left to background delete.
DelayDelete ==
    /\ md.pc = "data"
    /\ md' = [md EXCEPT !.pc = "done", !.listed = {}] /\ UNCHANGED <<contents, stored, mdRecs, mdSlips>>

\* Another request stores an object under a key, and answers for what was
\* there before.
Replace ==
    /\ "replace" \in MdFault /\ md.pc # "done" /\ md.index
    /\ Data(MdNew) \cap (stored \cup LiveOids) = {}
    /\ \E k \in DOMAIN contents :
        /\ contents' = [contents EXCEPT ![k] = MdNew]
        /\ md' = [md EXCEPT !.raced = @ \cup Data(contents[k]) \cup Data(MdNew)]
        /\ mdSlips' = [mdSlips EXCEPT !.stayed = @ \ {k}]
    /\ stored' = stored \cup Data(MdNew) /\ UNCHANGED mdRecs

MdInit ==
    /\ contents \in MdContents /\ stored = LiveOids /\ mdRecs = {}
    /\ \E keys \in MdRequests, has \in BOOLEAN :
        (has \/ LiveOids = {}) /\ md = NewMultiDelete(keys, has)
    /\ mdSlips = [stayed |-> {}, forgot |-> {}]

MdStep ==
    \/ ValidateRequest \/ FetchEnds \/ LoadExtended \/ AddRecords \/ RemoveMetadata
    \/ RemovalRefused \/ DeleteExtended \/ DeleteData \/ DelayDelete \/ Unrecord
MdNext == MdStep \/ Replace

\* Motr answers every operation, and the main loop calls its handler.
MdFairness == WF_mdVars(MdStep)

-----------------------------------------------------------------------------
(* Properties.                                                             *)

\* The data of an object that is listed in the bucket is never deleted, even if
\* the object took the place of one that the request has read.  The exception is
\* an object that the removal of its batch passed over: it stays in the list and
\* loses its data.
MdLiveIsKept == DataOf(DOMAIN contents \ mdSlips.stayed) \subseteq stored

\* Data that no object refers to has a probable delete record or is about to
\* be deleted (what another request has replaced is that request's concern).
\* What is forgotten is the data of parts that could not be loaded, of objects
\* that a failed operation removed, of records that were not written, and data
\* that Motr failed to delete.
MdGarbageIsRecorded ==
    stored \subseteq LiveOids \cup mdRecs \cup md.raced \cup mdSlips.forgot \cup
                    (IF md.pc = "done" THEN {} ELSE md.toDelete)

\* Whatever fails in a batch, and whoever replaces its objects, no live data is
\* lost and no dead data forgotten beyond that.
MdStoreIsSafe == MdLiveIsKept /\ MdGarbageIsRecorded

\* An answer that is no error reports every key, deleted or failed and not both,
\* and a key as deleted only if its object was gone, has been removed or was
\* passed over by the removal of its batch.  (The answer for a bucket without an
\* object list reports no key.)
MdReportIsTrue ==
    md.reply = "result" =>
        /\ md.ok \cup md.failed = IF md.index THEN Range(md.keys) ELSE {}
        /\ md.ok \cap md.failed = {}
        /\ \A k \in md.ok : contents[k] \in {None, MdNew} \/ k \in mdSlips.stayed

\* Every request to delete objects is answered and ends.
MdEnds == <>(md.pc = "done" /\ md.reply # "none")
=============================================================================
