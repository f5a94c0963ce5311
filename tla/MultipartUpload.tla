-------------------------- MODULE MultipartUpload --------------------------
(***************************************************************************)
(* Multipart uploads of one key: the requests of MultipartInitiate,        *)
(* MultipartPart, MultipartComplete and MultipartAbort, servers that stop, *)
(* and the clean up of MultipartRecovery.                                  *)
(***************************************************************************)
EXTENDS MultipartInitiate, MultipartPart, MultipartComplete, MultipartAbort,
        MultipartRecovery

\* At the start the key has no object, a simple object or that of a past
\* upload, and some uploads are under way.
AlreadyOpen == DOMAIN OpenParts
OpenOids == UNION {OidsOf(OpenParts[u]) : u \in AlreadyOpen}
PastOids == UNION {OidsOf(PastParts[c]) : c \in Past}
PastReq == Past \cup {UploadOf[c] : c \in Past} \cup PastOids
               \cup AlreadyOpen \cup OpenOids

\* A part list names parts of its upload under their numbers, and an upload
\* that was completed had the parts that were asked for and is not open.
PartsFor(u, n) == {NoOid} \cup {p \in PartReq : UploadOf[p] = u /\ PartNumber[p] = n}
ASSUME StartAssumption ==
    /\ \A u \in AlreadyOpen, n \in Part : OpenParts[u][n] \in PartsFor(u, n)
    /\ \A c \in Past, n \in Part : PastParts[c][n] \in PartsFor(UploadOf[c], n)
    /\ \A c \in Past : NumbersOf(PastParts[c]) = Asked[c] /\ UploadOf[c] \notin AlreadyOpen
    /\ \A c, d \in Past : UploadOf[c] = UploadOf[d] => c = d

Init ==
    /\ objList \in {NoVer, Simple} \cup Past
    /\ stored = OpenOids \cup (IF objList \in Past THEN OidsOf(PastParts[objList])
                               ELSE {objList} \ {NoVer})
    /\ verList = {objList} \ {NoVer}
    /\ mp = AlreadyOpen
    /\ idx = AlreadyOpen
    /\ partIdx = [u \in Upload |-> IF u \in AlreadyOpen THEN OpenParts[u]
                                                       ELSE NoParts]
    /\ ext = [v \in Version |->
                IF v = objList /\ v \in Past THEN PastParts[v] ELSE NoParts]
    /\ pdi = <<>>
    /\ pc = [r \in Req |-> IF r \in PastReq THEN "done" ELSE "idle"]
    /\ old = [r \in Req |-> IF r \in PartReq THEN NoOid ELSE NoVer]
    /\ seen = [r \in Complete \cup Abort |-> NoParts]
    /\ was = [c \in Complete |-> NoParts]
    /\ todo = [r \in Complete \cup Abort |-> {}]
    /\ stopped = {}
    /\ bd = NoJob

\* A shutdown, or the end of the process, cuts a request off between two
\* operations.
Stop(r) ==
    /\ r \in CanStop
    /\ InFlight(r)
    /\ stopped' = stopped \cup {r}
    /\ UNCHANGED <<motr, pc, old, seen, was, todo, bd>>

RequestStep(r) ==
    \/ r \in Upload /\ InitiateStep(r)
    \/ r \in PartReq /\ PartStep(r)
    \/ r \in Complete /\ CompleteStep(r)
    \/ r \in Abort /\ AbortStep(r)

Next ==
    \/ \E u \in Upload : InitiateStep(u)
    \/ \E p \in PartReq : PartStep(p)
    \/ \E c \in Complete : CompleteStep(c)
    \/ \E a \in Abort : AbortStep(a)
    \/ \E r \in CanStop : Stop(r)
    \/ RecoveryStep

Fairness ==
    /\ \A r \in Req \ PastReq : WF_vars(RequestStep(r))
    /\ WF_vars(RecoveryStep)

Spec == Init /\ [][Next]_vars /\ Fairness
-----------------------------------------------------------------------------

\* A multipart object that is live has all its parts in Motr.
LivePartsStored ==
    objList \in Complete =>
        /\ NumbersOf(ext[objList]) = Asked[objList]
        /\ \A n \in Asked[objList] : ext[objList][n] \in stored

\* An upload that a client can still complete.
TookLife(c) == pc[c] \in {"delete_upload", "delete_index", "stuck"} \cup CompleteCleanup
Open(u) == u \in mp /\ \A c \in Complete : UploadOf[c] = u => ~TookLife(c)

\* The part list index of an upload that can still be completed names parts
\* that are in Motr, whatever PUTs of the same part and background delete do.
UploadPartsStored ==
    \A u \in Upload : Open(u) =>
        \A n \in NumbersOf(partIdx[u]) : partIdx[u][n] \in stored

\* The parts of a multipart object that another upload has overwritten are
\* deleted in the end, by the clean up of the complete request that overwrote
\* it, or, when that fails or two complete requests missed each other, by
\* background delete.
Superseded(p) ==
    \E c \in Complete : TookLife(c) /\ objList # c /\ p \in OidsOf(ext[c])
OverwrittenIsReclaimed ==
    \A p \in PartReq : Superseded(p) ~> p \notin stored
=============================================================================
