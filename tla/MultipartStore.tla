--------------------------- MODULE MultipartStore ---------------------------
(***************************************************************************)
(* The state that the requests of multipart uploads of one key share with  *)
(* each other and with background delete.  MultipartInitiate,              *)
(* MultipartPart, MultipartComplete, MultipartAbort and                    *)
(* MultipartRecovery extend this module; MultipartUpload composes them.    *)
(*                                                                         *)
(* Identifiers: an upload is also the request that initiates it and the    *)
(* oid of the object it becomes; a PUT part request is also the oid of the *)
(* part it writes; a POST complete request is also the version it creates. *)
(***************************************************************************)
EXTENDS Naturals, FiniteSets, FiniteSetsExt

CONSTANTS
    Upload,     \* uploads of the key
    PartReq,    \* PUT part requests, none of an empty part
    Complete,   \* POST complete requests
    Abort,      \* DELETE upload requests
    Simple,     \* the simple object that is there at the start
    UploadOf,   \* [PartReq \cup Complete \cup Abort -> Upload]
    MaxPart,    \* the largest part number of the model
    PartNumber, \* [PartReq -> 1..MaxPart]
    Asked,      \* the part numbers a complete request lists, 1 to some n
    Past,       \* complete requests that ended before the start
    PastParts,  \* [Past -> PartMap]: the parts of their objects
    OpenParts,  \* the parts of the uploads that are open at the start
    Fallible,   \* <<operation, request>>: Motr operations that may fail
    CanStop,    \* requests whose s3server instance may stop
    CanLeave,   \* <<operation, request>>: where a client may be found gone
    DelayCovers, \* whether the delay outlasts every request
    MaxRunning, \* requests that run at the same time
    NoOid, NoVer

Req == Upload \cup PartReq \cup Complete \cup Abort
Version == Complete \cup {Simple}
Part == 1..MaxPart
PartMap == [Part -> PartReq \cup {NoOid}]
NoParts == [n \in Part |-> NoOid]

ASSUME MultipartAssumption ==
    /\ UploadOf \in [PartReq \cup Complete \cup Abort -> Upload]
    /\ MaxPart \in Nat \ {0}
    /\ MaxRunning \in Nat \ {0}
    /\ PartNumber \in [PartReq -> Part]
    /\ Asked \in [Complete -> {1..n : n \in Part}]
    /\ Past \subseteq Complete
    /\ PastParts \in [Past -> PartMap]
    /\ DOMAIN OpenParts \subseteq Upload
    /\ \A u \in DOMAIN OpenParts : OpenParts[u] \in PartMap
    /\ Simple \notin Complete
    /\ NoOid \notin PartReq
    /\ NoVer \notin Version

\* Uploads, requests and objects have unique ids.
ASSUME IdsAreUnique ==
    /\ Upload \cap PartReq = {} /\ Upload \cap Complete = {} /\ Upload \cap Abort = {}
    /\ PartReq \cap Complete = {} /\ PartReq \cap Abort = {} /\ Complete \cap Abort = {}
    /\ Simple \notin Req

VARIABLES
    stored,   \* the parts, and Simple, that exist in Motr
    mp,       \* uploads with an entry in the bucket's multipart index
    idx,      \* uploads whose part list index exists
    partIdx,  \* the part list index of each upload
    objList,  \* object list index: the live version of the key
    verList,  \* objects version list index: the versions with an entry
    ext,      \* extended metadata index: the parts of each version
    pdi,      \* global probable dead object list index: key -> record
    pc,       \* the operation each request performs next
    old,      \* what a request read as the old part or the old version; it
              \* is part of the multipart metadata of an upload
    seen,     \* the parts a request read from the part list index
    was,      \* the parts of the old version a complete request read
    todo,     \* the part numbers a request has yet to delete
    stopped,  \* requests whose s3server instance stopped while they ran
    bd        \* what the background delete consumer is doing

motr == <<stored, mp, idx, partIdx, objList, verList, ext, pdi>>
reqs == <<pc, old, seen, was, todo, stopped>>
vars == <<motr, reqs, bd>>

(***************************************************************************)
(* Probable delete records.  The keys name one oid, or the old and the new *)
(* one; "chk" stands for the 'J' prefix of a leak check entry.  What       *)
(* background delete does with a record depends on the fields its writer   *)
(* sets, which kind stands for:                                            *)
(*   "put"     a part, without parent, extended index and version;         *)
(*   "check"   the leak check of a part, under the prefix 'J';             *)
(*   "ext"     a part of version ver, with its extended metadata key;      *)
(*   "abort"   a part, with the part list index in the place of the object *)
(*             list;                                                       *)
(*   "parent"  a multipart version, with its number of parts;              *)
(*   "simple"  the version of a simple object.                             *)
(***************************************************************************)
OidOf(v) == IF v \in Complete THEN UploadOf[v] ELSE v
ObjKey(o) == <<"obj", o, o>>
ChkKey(o) == <<"chk", o, o>>
OldKey(o, new) == <<"old", o, new>>
LeakOid(k) == k[2]

Ended == {"idle", "done", "stuck", "failed"}
InFlight(r) == pc[r] \notin Ended /\ r \notin stopped
Running == {r \in Req : InFlight(r)}
Rec(r, kind, forced, ver) ==
    [kind |-> kind, forced |-> forced, ver |-> ver,
     since |-> IF DelayCovers THEN Running ELSE {r}]
\* A record is processed when it is older than the leak processing delay,
\* which outlasts the requests that were running when it was written, or at
\* least the one that wrote it.
Aged(k) == pdi[k].since \cap Running = {}

\* recs: a function from the keys that are written to their records.
PutRecs(recs) ==
    pdi' = [k \in DOMAIN recs \cup DOMAIN pdi |->
                IF k \in DOMAIN recs THEN recs[k] ELSE pdi[k]]
DeleteRecs(keys) == pdi' = [k \in DOMAIN pdi \ keys |-> pdi[k]]

MayFail(op, r) == <<op, r>> \in Fallible
Leaves(op, r) == <<op, r>> \in CanLeave
At(r, label) == pc[r] = label /\ r \notin stopped
\* r is received by a server.
Begins(r) == At(r, "idle") /\ Cardinality(Running) < MaxRunning
\* A client learns the id of an upload from the answer to its initiate request.
\* After that its requests come in any order.
MayStart(r) == Begins(r) /\ pc[UploadOf[r]] = "done"
Go(r, label) == pc' = [pc EXCEPT ![r] = label]
NumbersOf(parts) == {n \in Part : parts[n] # NoOid}
OidsOf(parts) == {parts[n] : n \in NumbersOf(parts)}
=============================================================================
