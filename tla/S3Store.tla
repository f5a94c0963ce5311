------------------------------ MODULE S3Store ------------------------------
(***************************************************************************)
(* The state that the object requests of s3server and the background       *)
(* delete service share: Motr objects, the key-value indexes that describe *)
(* them, and where every request stands.  S3PutObject, S3DeleteObject and  *)
(* BackgroundDelete extend this module; S3ObjectLifecycle composes them.   *)
(*                                                                         *)
(* A PUT creates one Motr object under an identifier nobody else uses, so  *)
(* a PUT request stands for the identifier (oid) of its object.            *)
(***************************************************************************)
EXTENDS Naturals, FiniteSets

CONSTANTS
    Put,            \* PUT object requests; also the oids they create
    Delete,         \* DELETE object requests
    Name,           \* object keys, all of one bucket
    ObjName,        \* the key a request addresses: [Put \cup Delete -> Name]
    VKey,           \* keys of the objects version list index
    VersionKey,     \* "name/reversed epoch ms" of a PUT: [Put -> VKey]
    ZeroSize,       \* PUTs whose Content-Length is 0
    Consumer,       \* background delete consumers
    Fallible,       \* Motr operations that may fail, by name
    CanStop,        \* requests whose s3server instance may stop
    DelayedDelete,  \* S3Option is_s3server_obj_delayed_del_enabled
    DelayCovers,    \* how many requests, one after the other, are sure to
                    \* end within leak_processing_delay_in_mins: 0, 1 or 2
    MaxKeys,        \* max_keys: how many records one listing returns
    NoOid, NoRec

Req == Put \cup Delete

ASSUME ConstantAssumption ==
    /\ Put \cap Delete = {}
    /\ ObjName \in [Req -> Name]
    /\ VersionKey \in [Put -> VKey]
    /\ ZeroSize \subseteq Put
    /\ CanStop \subseteq Req
    /\ DelayedDelete \in BOOLEAN
    /\ DelayCovers \in 0..2
    /\ MaxKeys \in Nat
    /\ NoOid \notin Put
    /\ NoRec \notin [forced : BOOLEAN, since : SUBSET Req]

VARIABLES
    stored,   \* the oids that exist in Motr
    objList,  \* object list index: name -> oid of the live object
    verList,  \* objects version list index: version key -> oid
    pdi,      \* global probable dead object list index: key -> record
    pc,       \* the operation each request performs next
    st,       \* s3_put_action_state / s3_del_obj_action_state
    tgt,      \* PUT: old_object_oid; DELETE: oid of the object to delete
    overlap,  \* the requests that were running when a request started
    stopped,  \* requests whose s3server instance stopped while they ran
    queue,    \* message bus topic: copies of records to examine
    bd        \* what each background delete consumer is doing

motr == <<stored, objList, verList, pdi>>
reqs == <<pc, st, tgt, overlap, stopped>>
bdel == <<queue, bd>>
vars == <<motr, reqs, bdel>>

(***************************************************************************)
(* Keys of the probable dead object list.  The key of a record written for *)
(* an overwritten object names both oids, any other key is the size prefix *)
(* of the object followed by its oid.  The prefix of an empty object is    *)
(* 'J', which is also the prefix of the parallel leak check record.        *)
(***************************************************************************)
OldKey(o, p) == <<"old", o, p>>
ObjKey(o) == <<"obj", o, o>>
ChkKey(o) == IF o \in ZeroSize THEN ObjKey(o) ELSE <<"chk", o, o>>
RecKey == {<<"old", o, p>> : o \in Put, p \in Put} \cup
          {<<kind, o, o>> : kind \in {"obj", "chk"}, o \in Put}
KeyOid(k) == k[2]

InFlight(r) == pc[r] \notin {"idle", "done"} /\ r \notin stopped

(***************************************************************************)
(* A record carries force_delete and its creation time.  Of the time the   *)
(* model keeps the requests that were running then.  When the record is    *)
(* older than the leak processing delay, all of them have ended, unless a  *)
(* request may outlast the delay (DelayCovers = 0); if the delay is twice  *)
(* as long as any request, so have the requests that overlapped with them. *)
(***************************************************************************)
Record == [forced : BOOLEAN, since : SUBSET Req]
Running == {r \in Req : InFlight(r)}
NewRecord(forced) == [forced |-> forced, since |-> Running]
\* Mutant: the age of a record is not looked at.
Aged_Always(k) == TRUE

Aged(k) ==
    \A r \in Running :
        /\ DelayCovers >= 1 => r \notin pdi[k].since
        /\ DelayCovers = 2 => overlap[r] \cap pdi[k].since = {}

Message == [key : RecKey, forced : BOOLEAN]

(***************************************************************************)
(* Motr operations, with the outcome their callbacks report.               *)
(***************************************************************************)
MayFail(op) == op \in Fallible

PutRecs(keys, forced) ==
    pdi' = [k \in RecKey |-> IF k \in keys THEN NewRecord(forced) ELSE pdi[k]]

DeleteRecs(keys) ==
    pdi' = [k \in RecKey |-> IF k \in keys THEN NoRec ELSE pdi[k]]

GoTo(r, label) == pc' = [pc EXCEPT ![r] = label]

\* A request starts, with the metadata it has read.
StartRequest(r, oid, label) ==
    /\ tgt' = [tgt EXCEPT ![r] = oid]
    /\ overlap' = [overlap EXCEPT ![r] = Running]
    /\ GoTo(r, label)
    /\ UNCHANGED <<st, stopped>>

SetState(r, s) == st' = [st EXCEPT ![r] = s]
=============================================================================
