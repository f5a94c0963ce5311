------------------------- MODULE S3ObjectLifecycle -------------------------
(***************************************************************************)
(* The life of simple objects: concurrent PUT and DELETE requests, servers *)
(* that stop in the middle of a request, and the background delete service *)
(* that cleans up behind them.                                             *)
(***************************************************************************)
EXTENDS S3PutObject, S3DeleteObject, BackgroundDelete

MotrType ==
    /\ stored \subseteq Put
    /\ objList \in [Name -> Put \cup {NoOid}]
    /\ verList \in [VKey -> Put \cup {NoOid}]
    /\ pdi \in [RecKey -> Record \cup {NoRec}]

RequestType ==
    /\ pc \in [Req -> PutLabels \cup DeleteLabels]
    /\ \A p \in Put : pc[p] \in PutLabels
    /\ \A d \in Delete : pc[d] \in DeleteLabels
    /\ st \in [Req -> PutStates \cup DeleteStates]
    /\ tgt \in [Req -> Put \cup {NoOid}]
    /\ overlap \in [Req -> SUBSET Req]
    /\ stopped \subseteq Req

BackgroundType ==
    /\ queue \subseteq Message
    /\ bd \in [Consumer -> Worker]

\* The type invariant of the composed system.
TypeOK == MotrType /\ RequestType /\ BackgroundType

Init ==
    /\ stored = {}
    /\ objList = [n \in Name |-> NoOid]
    /\ verList = [v \in VKey |-> NoOid]
    /\ pdi = [k \in RecKey |-> NoRec]
    /\ pc = [r \in Req |-> "idle"]
    /\ st = [r \in Req |-> "empty"]
    /\ tgt = [r \in Req |-> NoOid]
    /\ overlap = [r \in Req |-> {}]
    /\ stopped = {}
    /\ queue = {}
    /\ bd = [c \in Consumer |-> IdleWorker]

(***************************************************************************)
(* The instance of s3server that handles r stops for good: a crash, or a   *)
(* shutdown, in which Action::start and next run no task any more.         *)
(***************************************************************************)
ServerStops(r) ==
    /\ r \in CanStop
    /\ InFlight(r)
    /\ stopped' = stopped \cup {r}
    /\ UNCHANGED <<motr, pc, st, tgt, overlap, bdel>>

RequestStep(r) ==
    /\ r \notin stopped
    /\ \/ r \in Put /\ PutStep(r)
       \/ r \in Delete /\ DeleteStep(r)

Next ==
    \/ \E r \in Req : RequestStep(r) \/ ServerStops(r)
    \/ BackgroundDeleteStep

Spec == Init /\ [][Next]_vars

(***************************************************************************)
(* Motr answers every operation, the scheduler runs again and again, and   *)
(* it sleeps long enough between two runs for a consumer to get on.        *)
(***************************************************************************)
Fairness ==
    /\ \A r \in Req : WF_vars(RequestStep(r))
    /\ SF_vars(AddKvToMsgbus)
    /\ \A c \in Consumer : SF_vars(Process(c))

FairSpec == Spec /\ Fairness

-----------------------------------------------------------------------------
(***************************************************************************)
(* Properties.                                                             *)
(***************************************************************************)
Live(o) == objList[ObjName[o]] = o

\* The PUT that created o can no longer make it the live object.
Settled(o) ==
    \/ o \in stopped
    \/ pc[o] \notin {"idle", "create_object", "add_probable", "stream",
                     "save_version", "save_object"}

Dead(o) == ~Live(o) /\ Settled(o)

\* The PUT of o has not created the object yet and may still do so.
Unborn(o) == pc[o] \in {"idle", "create_object"} /\ o \notin stopped

\* An object that the object list names is in Motr: neither the clean up of
\* a request nor background delete removes the data of an object that a
\* client can read.
LiveHasData == \A n \in Name : objList[n] # NoOid => objList[n] \in stored

\* An object that the object list names has its entry in the version list.
LiveIsVersioned ==
    \A n \in Name :
        objList[n] # NoOid => verList[VersionKey[objList[n]]] = objList[n]

\* force_delete is set only for objects that are not and will never again
\* be live, in the index, in a message however old, and in a consumer:
\* background delete removes such objects without a look at the metadata.
ForcedIsDead ==
    /\ \A k \in RecKey : pdi[k] # NoRec /\ pdi[k].forced => Dead(KeyOid(k))
    /\ \A m \in queue : m.forced => Dead(KeyOid(m.key))
    /\ \A c \in Consumer :
          bd[c].pc # "idle" /\ bd[c].msg.forced => Dead(LeakOid(c))

(***************************************************************************)
(* The refinement of ObjectStore.  The phase of an object is read off the  *)
(* indexes, Motr, and the position of the request that creates it; an      *)
(* object that is live but not in Motr would be "gone".                    *)
(***************************************************************************)
Phase(o) ==
    CASE o \in stored /\ Live(o)               -> "live"
      [] o \in stored /\ Dead(o)               -> "garbage"
      [] o \in stored /\ ~Live(o) /\ ~Dead(o)  -> "uploading"
      [] o \notin stored /\ Unborn(o)          -> "unborn"
      [] OTHER                                 -> "gone"

Store == INSTANCE ObjectStore
            WITH Oid <- Put, NameOf <- ObjName, current <- objList,
                 phase <- [o \in Put |-> Phase(o)]

\* Every step of a request, of a stopping server or of background delete is
\* one step of the abstract store or none: an object becomes live once, its
\* data goes away only after it has been overwritten or deleted, or its
\* upload has ended, and what is gone or garbage never becomes live.
ImplementsStore == Store!StoreSpec

Recorded(o) == \E k \in RecKey : pdi[k] # NoRec /\ KeyOid(k) = o

\* The object exists but the probable dead object list has never named it:
\* the record is written only after the object has been created.
Unrecorded(o) ==
    \/ pc[o] = "add_probable"
    \/ st[o] = "probableEntryRecordFailed"

\* Whenever and wherever servers stop, every object in Motr that is not live
\* is named by a record of the probable dead object list.
GarbageIsRecorded ==
    \A o \in stored : Live(o) \/ Recorded(o) \/ Unrecorded(o)

\* Garbage does not stay: every object that is in Motr and no longer wanted
\* is deleted by its request or by background delete.
GarbageIsReclaimed ==
    \A o \in Put :
        (o \in stored /\ Dead(o) /\ ~Unrecorded(o)) ~> (o \notin stored)

\* The records do not stay either, whatever they turn out to mean.
RecordsDrain == <>[](\A k \in RecKey : pdi[k] = NoRec)

\* An object of a request that is still uploading is not deleted.
UploadIsLeftAlone ==
    \A p \in Put :
        pc[p] \in {"stream", "save_version", "save_object"} /\ InFlight(p)
            => p \in stored
=============================================================================
