---------------------- MODULE S3ObjectLifecycle_proofs ----------------------
(***************************************************************************)
(* Proofs about S3ObjectLifecycle, for any number of requests, names and   *)
(* consumers: type correctness; what is live keeps its data, and the       *)
(* requests implement ObjectStore; and parallel PUTs and background delete *)
(* leave no object without a name: what is in Motr and not live is named   *)
(* by a record of the probable dead object list, whatever fails or stops.  *)
(***************************************************************************)
EXTENDS S3ObjectInvariants, TLAPS

-----------------------------------------------------------------------------
(* Keys, records and the operations on the probable dead object list. *)

\* The oid of a key is the object that its record is about.
LEMMA KeyFacts ==
    /\ \A k \in RecKey : KeyOid(k) \in Put
    /\ \A o, p \in Put : OldKey(o, p) \in RecKey /\ KeyOid(OldKey(o, p)) = o
    /\ \A o \in Put : ObjKey(o) \in RecKey /\ KeyOid(ObjKey(o)) = o
    /\ \A o \in Put : ChkKey(o) \in RecKey /\ KeyOid(ChkKey(o)) = o
BY DEF RecKey, KeyOid, OldKey, ObjKey, ChkKey

\* A record written to the probable dead object list is a record.
LEMMA NewRecordType == \A f \in BOOLEAN : NewRecord(f) \in Record
BY DEF NewRecord, Record, Running

\* Writing and deleting records keeps the index well typed.
LEMMA RecsType ==
    ASSUME MotrType, NEW keys, NEW f \in BOOLEAN,
           PutRecs(keys, f) \/ DeleteRecs(keys)
    PROVE  pdi' \in [RecKey -> Record \cup {NoRec}]
BY NewRecordType DEF MotrType, PutRecs, DeleteRecs

-----------------------------------------------------------------------------
(* Type correctness. *)

\* A PUT moves to one of its own labels and states.
LEMMA PutMove ==
    ASSUME RequestType, NEW p \in Put, NEW l \in PutLabels,
           NEW s \in PutStates \cup DeleteStates,
           GoTo(p, l), SetState(p, s) \/ UNCHANGED st,
           UNCHANGED <<tgt, overlap, stopped>>
    PROVE  RequestType'
BY ConstantAssumption DEF RequestType, GoTo, SetState, Req

\* A DELETE that moves to another of its labels keeps its position typed.
LEMMA DeleteMove ==
    ASSUME RequestType, NEW d \in Delete, NEW l \in DeleteLabels,
           NEW s \in PutStates \cup DeleteStates,
           GoTo(d, l), SetState(d, s) \/ UNCHANGED st,
           UNCHANGED <<tgt, overlap, stopped>>
    PROVE  RequestType'
BY ConstantAssumption DEF RequestType, GoTo, SetState, Req

\* startcleanup of a PUT always yields a label of the PUT.
LEMMA CleanupLabel ==
    \A p, s : CleanupTask(p, s) \in PutLabels
BY DEF CleanupTask, PutLabels

\* startcleanup leads to a label of the PUT.
LEMMA StartCleanupType ==
    ASSUME RequestType, NEW p \in Put, NEW s \in PutStates \cup DeleteStates,
           StartCleanup(p, s)
    PROVE  RequestType'
BY PutMove, CleanupLabel DEF StartCleanup

\* A step of the clean up, whether its operation succeeds or fails.
LEMMA CleanupStepType ==
    ASSUME TypeOK, NEW p \in Put, NEW label, NEW next \in PutLabels,
           NEW keys, NEW f \in BOOLEAN,
           CleanupStep(p, label, next,
                       (PutRecs(keys, f) \/ DeleteRecs(keys))
                          /\ UNCHANGED verList)
    PROVE  TypeOK'
<1>1. RequestType'
  BY PutMove DEF CleanupStep, TypeOK, PutStates
<1>2. MotrType'
  BY RecsType DEF CleanupStep, TypeOK, MotrType
<1>3. BackgroundType'
  BY DEF CleanupStep, TypeOK, BackgroundType, bdel
<1> QED
  BY <1>1, <1>2, <1>3 DEF TypeOK

\* Every step of S3PutObjectAction keeps the type invariant.
LEMMA PutType ==
    ASSUME TypeOK, NEW p \in Put, PutStep(p)
    PROVE  TypeOK'
<1> USE DEF TypeOK
<1>s. st[p] \in PutStates \cup DeleteStates
  BY DEF RequestType, Req
<1>1. CASE FetchObjectInfo(p)
  <2>1. RequestType'
    BY <1>1, ConstantAssumption
    DEF FetchObjectInfo, StartRequest, GoTo, RequestType, MotrType, Req,
        Running, PutLabels
  <2> QED
    BY <1>1, <2>1 DEF FetchObjectInfo, MotrType, BackgroundType, motr, bdel
<1>2. CASE RejectPut(p) \/ SendResponse(p) \/ PutClientGone(p)
  <2>1. RequestType'
    BY <1>2, <1>s, StartCleanupType
    DEF RejectPut, SendResponse, PutClientGone, PutStates
  <2> QED
    BY <1>2, <2>1 DEF RejectPut, SendResponse, PutClientGone, MotrType,
                      BackgroundType, motr, bdel
<1>3. CASE CreateObject(p)
  <2>1. RequestType'
    BY <1>3, StartCleanupType, PutMove
    DEF CreateObject, PutStates, PutLabels
  <2> QED
    BY <1>3, <2>1 DEF CreateObject, MotrType, BackgroundType, bdel
<1>4. CASE AddObjectOidToProbableDeadOidList(p)
  <2>1. RequestType'
    BY <1>4, <1>s, StartCleanupType, PutMove
    DEF AddObjectOidToProbableDeadOidList, PutStates, PutLabels
  <2>2. MotrType'
    BY <1>4, RecsType DEF AddObjectOidToProbableDeadOidList, MotrType
  <2> QED
    BY <1>4, <2>1, <2>2
    DEF AddObjectOidToProbableDeadOidList, BackgroundType, bdel
<1>5. CASE StreamData(p)
  <2>1. RequestType'
    BY <1>5, <1>s, StartCleanupType, PutMove
    DEF StreamData, PutStates, PutLabels
  <2> QED
    BY <1>5, <2>1 DEF StreamData, MotrType, BackgroundType, motr, bdel
<1>6. CASE SaveVersionMetadata(p)
  <2>1. RequestType'
    BY <1>6, <1>s, StartCleanupType, PutMove
    DEF SaveVersionMetadata, PutStates, PutLabels
  <2> QED
    BY <1>6, <2>1 DEF SaveVersionMetadata, MotrType, BackgroundType, bdel
<1>7. CASE SaveMetadata(p)
  <2>1. RequestType'
    BY <1>7, StartCleanupType, PutMove
    DEF SaveMetadata, PutStates, PutLabels
  <2> QED
    BY <1>7, <2>1 DEF SaveMetadata, MotrType, BackgroundType, bdel
<1>8. CASE DeleteOldObject(p) \/ DeleteNewObject(p)
  <2>1. RequestType'
    BY <1>8, <1>s, PutMove DEF DeleteOldObject, DeleteNewObject, PutLabels
  <2> QED
    BY <1>8, <2>1 DEF DeleteOldObject, DeleteNewObject, MotrType,
                      BackgroundType, bdel
<1>9. CASE RemoveOldObjectVersionMetadata(p)
  <2>1. RequestType'
    BY <1>9, <1>s, PutMove
    DEF RemoveOldObjectVersionMetadata, CleanupStep, PutLabels
  <2> QED
    BY <1>9, <2>1 DEF RemoveOldObjectVersionMetadata, CleanupStep, MotrType,
                      BackgroundType, bdel
<1>10. CASE MarkOldOidForDeletion(p) \/ AddOidForParallelLeakCheck(p)
                \/ RemoveNewOidProbableRecord(p)
                \/ RemoveOldOidProbableRecord(p)
                \/ MarkNewOidForDeletion(p)
                \/ RollbackOldOidProbableRecord(p)
                \/ RollbackNewOidProbableRecord(p)
  <2> USE DEF MarkOldOidForDeletion, AddOidForParallelLeakCheck,
              RemoveNewOidProbableRecord, RemoveOldOidProbableRecord,
              MarkNewOidForDeletion, RollbackOldOidProbableRecord,
              RollbackNewOidProbableRecord, CleanupStep
  <2>1. RequestType'
    BY <1>10, <1>s, PutMove DEF PutLabels
  <2>2. MotrType'
    BY <1>10, RecsType DEF MotrType
  <2> QED
    BY <1>10, <2>1, <2>2 DEF BackgroundType, bdel
<1> QED
  BY <1>1, <1>2, <1>3, <1>4, <1>5, <1>6, <1>7, <1>8, <1>9, <1>10
  DEF PutStep

\* Every step of S3DeleteObjectAction keeps the type invariant.
LEMMA DeleteType ==
    ASSUME TypeOK, NEW d \in Delete, DeleteStep(d)
    PROVE  TypeOK'
<1> USE DEF TypeOK
<1>1. CASE FetchObjectToDelete(d)
  <2>1. RequestType'
    BY <1>1, ConstantAssumption
    DEF FetchObjectToDelete, StartRequest, GoTo, RequestType, MotrType, Req,
        Running, DeleteLabels
  <2> QED
    BY <1>1, <2>1 DEF FetchObjectToDelete, MotrType, BackgroundType, motr,
                      bdel
<1>2. CASE RejectDelete(d) \/ DeleteClientGone(d)
  <2>1. RequestType'
    BY <1>2, DeleteMove
    DEF RejectDelete, DeleteClientGone, Finish, DeleteStates, DeleteLabels
  <2> QED
    BY <1>2, <2>1 DEF RejectDelete, DeleteClientGone, MotrType,
                      BackgroundType, motr, bdel
<1>3. CASE PopulateProbableDeadOidList(d) \/ MarkOidForDeletion(d)
                \/ RemoveProbableRecord(d)
  <2> USE DEF PopulateProbableDeadOidList, MarkOidForDeletion,
              RemoveProbableRecord
  <2>1. RequestType'
    BY <1>3, DeleteMove DEF Finish, DeleteStates, DeleteLabels
  <2>2. MotrType'
    BY <1>3, RecsType DEF MotrType
  <2> QED
    BY <1>3, <2>1, <2>2 DEF BackgroundType, bdel
<1>4. CASE RemoveObjectMetadata(d) \/ RemoveVersionMetadata(d)
                \/ DeleteObject(d)
  <2> USE DEF RemoveObjectMetadata, RemoveVersionMetadata, DeleteObject
  <2>1. RequestType'
    BY <1>4, DeleteMove DEF DeleteStates, DeleteLabels
  <2> QED
    BY <1>4, <2>1 DEF MotrType, BackgroundType, bdel
<1> QED
  BY <1>1, <1>2, <1>3, <1>4 DEF DeleteStep

\* What the scheduler sends: copies of records that are old enough.
LEMMA Sent ==
    ASSUME AddKvToMsgbus, NEW m \in queue'
    PROVE  \E k \in RecKey : /\ pdi[k] # NoRec
                            /\ Aged(k)
                            /\ m = [key |-> k, forced |-> pdi[k].forced]
<1>1. PICK page \in Listings : queue' \subseteq LeakMessages(page)
  BY DEF AddKvToMsgbus
<1>2. page \subseteq Present
  BY DEF Listings
<1> QED
  BY <1>1, <1>2 DEF LeakMessages, Present

\* Every step of the scheduler and of a consumer keeps the type invariant.
LEMMA BackgroundStepType ==
    ASSUME TypeOK, BackgroundDeleteStep
    PROVE  TypeOK'
<1> USE DEF TypeOK
<1>1. CASE AddKvToMsgbus
  <2>1. queue' \subseteq Message
    <3> SUFFICES ASSUME NEW m \in queue' PROVE m \in Message
      OBVIOUS
    <3>1. PICK k \in RecKey : /\ pdi[k] # NoRec
                              /\ m = [key |-> k, forced |-> pdi[k].forced]
      BY <1>1, Sent
    <3>2. pdi[k] \in Record
      BY <3>1 DEF MotrType
    <3> QED
      BY <3>1, <3>2 DEF Record, Message
  <2> QED
    BY <1>1, <2>1 DEF AddKvToMsgbus, MotrType, RequestType, BackgroundType,
                      motr, reqs
<1>2. ASSUME NEW c \in Consumer,
             Process(c) \/ ProcessingFails(c) \/ ConsumerRestarts(c)
      PROVE  TypeOK'
  <2>1. MotrType'
    <3>1. CASE DeleteLeakRecord(c)
      BY <3>1, RecsType DEF DeleteLeakRecord, MotrType
    <3> QED
      BY <1>2, <3>1 DEF Process, ReceiveData, GetObjectMetadata,
          GetVersionEntry, DeleteObjectFromStorage, DeleteVersionEntry,
          ProcessingFails, ConsumerRestarts, MotrType, motr
  <2>2. RequestType'
    BY <1>2 DEF Process, ReceiveData, GetObjectMetadata, GetVersionEntry,
        DeleteObjectFromStorage, DeleteVersionEntry, DeleteLeakRecord,
        ProcessingFails, ConsumerRestarts, RequestType, reqs
  <2>3. BackgroundType'
    <3>1. IdleWorker \in Worker
      BY DEF Worker
    <3>2. ASSUME bd[c].pc # "idle"
          PROVE  /\ bd[c].msg \in Message
                 /\ LeakOid(c) \in Put
                 /\ bd[c] \in [pc : BdLabels \ {"idle"}, msg : Message,
                               oid : Put \cup {NoOid}]
      BY <3>2, KeyFacts
      DEF BackgroundType, Worker, IdleWorker, LeakOid, Message
    <3>3. CASE ReceiveData(c)
      <4>1. PICK m \in queue :
                /\ queue' = queue \ {m}
                /\ bd' = [bd EXCEPT ![c] =
                            [pc  |-> IF m.forced THEN "get_version"
                                                 ELSE "get_metadata",
                             msg |-> m,
                             oid |-> NoOid]]
        BY <3>3 DEF ReceiveData
      <4> QED
        BY <4>1 DEF BackgroundType, Worker, BdLabels
    <3>4. CASE GetObjectMetadata(c) \/ DeleteVersionEntry(c)
      <4>1. bd[c].pc # "idle"
        BY <3>4 DEF GetObjectMetadata, DeleteVersionEntry
      <4> QED
        BY <3>2, <3>4, <4>1 DEF GetObjectMetadata, DeleteVersionEntry, BdGoTo,
            BackgroundType, Worker, BdLabels
    <3>5. CASE GetVersionEntry(c)
      <4>1. bd[c].pc # "idle"
        BY <3>5 DEF GetVersionEntry
      <4>2. verList[VersionKey[LeakOid(c)]] \in Put \cup {NoOid}
        BY <3>2, <4>1, ConstantAssumption DEF MotrType
      <4> QED
        BY <3>2, <3>5, <4>1, <4>2
        DEF GetVersionEntry, BackgroundType, Worker, BdLabels
    <3>6. CASE DeleteObjectFromStorage(c)
      <4>1. bd[c].pc # "idle"
        BY <3>6 DEF DeleteObjectFromStorage
      <4> QED
        BY <3>2, <3>6, <4>1 DEF DeleteObjectFromStorage, BackgroundType,
            Worker, BdLabels
    <3>7. CASE DeleteLeakRecord(c) \/ ProcessingFails(c)
                  \/ ConsumerRestarts(c)
      BY <3>1, <3>2, <3>7 DEF DeleteLeakRecord, ProcessingFails,
          ConsumerRestarts, BackgroundType
    <3> QED
      BY <1>2, <3>3, <3>4, <3>5, <3>6, <3>7 DEF Process
  <2> QED
    BY <2>1, <2>2, <2>3
<1> QED
  BY <1>1, <1>2 DEF BackgroundDeleteStep

\* Every step of the composed system keeps the type invariant.
LEMMA NextType ==
    ASSUME TypeOK, [Next]_vars
    PROVE  TypeOK'
<1>1. CASE UNCHANGED vars
  BY <1>1 DEF TypeOK, MotrType, RequestType, BackgroundType, vars, motr, reqs,
              bdel
<1>2. ASSUME NEW r \in Req, RequestStep(r)
      PROVE  TypeOK'
  BY <1>2, PutType, DeleteType DEF RequestStep
<1>3. ASSUME NEW r \in Req, ServerStops(r)
      PROVE  TypeOK'
  BY <1>3 DEF ServerStops, TypeOK, MotrType, RequestType, BackgroundType,
              motr, bdel
<1>4. CASE BackgroundDeleteStep
  BY <1>4, BackgroundStepType
<1> QED
  BY <1>1, <1>2, <1>3, <1>4 DEF Next

\* A system without requests and objects is well typed.
LEMMA InitType == Init => TypeOK
<1> SUFFICES ASSUME Init PROVE TypeOK
  OBVIOUS
<1>1. MotrType
  BY DEF Init, MotrType
<1>2. RequestType
  BY DEF Init, RequestType, Req, PutLabels, DeleteLabels, PutStates
<1>3. BackgroundType
  BY DEF Init, BackgroundType, Worker
<1> QED
  BY <1>1, <1>2, <1>3 DEF TypeOK

\* The types of S3Store hold in every state that the requests, stopping
\* servers and background delete can reach.
THEOREM TypeCorrect == Spec => []TypeOK
BY InitType, NextType, PTL DEF Spec

-----------------------------------------------------------------------------
(***************************************************************************)
(* What a step can do, in terms of the state it starts from.  The three    *)
(* effects summarise the actions; the invariant follows from them.         *)
(***************************************************************************)

Uploading == {"add_probable", "stream", "save_version", "save_object"}
DeleteCleanup == {"remove_version", "mark_oid", "delete_object"}

\* Data and version entries go away for dead objects only, an object is
\* published by its own PUT, records are about dead or unfinished objects.
MotrEffect ==
    /\ \A o \in stored : o \notin stored' => Dead(o)
    /\ \A o \in stored' :
          \/ o \in stored
          \/ /\ pc[o] = "create_object" /\ o \notin stopped
             /\ pc'[o] = "add_probable"
    /\ \A v \in VKey :
          \/ verList'[v] = verList[v]
          \/ \E p \in Put : /\ VersionKey[p] = v
                            /\ verList'[v] = p
          \/ /\ verList'[v] = NoOid
             /\ \E o \in Put : Dead(o) /\ VersionKey[o] = v
    /\ \A n \in Name :
          \/ objList'[n] = objList[n]
          \/ objList'[n] = NoOid
          \/ \E p \in Put : /\ objList'[n] = p
                            /\ ObjName[p] = n
                            /\ pc[p] = "save_object"
                            /\ p \notin stopped
                            /\ pc'[p] = "respond"
    /\ \A k \in RecKey :
          \/ pdi'[k] = pdi[k]
          \/ pdi'[k] = NoRec
          \/ \E f \in BOOLEAN :
                /\ pdi'[k] = NewRecord(f)
                /\ f => Dead(KeyOid(k))
                /\ Settled(KeyOid(k)) \/ KeyOid(k) \in Running

\* How a request moves.
RequestEffect(r) ==
    /\ r \in stopped => r \in stopped'
    /\ pc[r] # "idle" => pc'[r] # "idle"
    /\ \/ tgt'[r] = tgt[r]
       \/ pc[r] = "idle" /\ tgt'[r] = objList[ObjName[r]]

PutEffect(p) ==
    /\ pc'[p] \in {"idle", "create_object"} =>
          pc[p] \in {"idle", "create_object"}
    /\ pc[p] \notin Unsettled => pc'[p] \notin Unsettled
    /\ pc[p] \notin Unsettled \cup Rollback =>
          pc'[p] \notin Unsettled \cup Rollback
    /\ pc'[p] \in Uploading /\ p \notin stopped' =>
          (pc[p] \in Uploading /\ p \notin stopped) \/ p \in stored'
    /\ pc'[p] = "save_object" /\ p \notin stopped' =>
          \/ pc[p] = "save_object" /\ p \notin stopped
          \/ verList'[VersionKey[p]] = p
    /\ pc'[p] = "respond" => st'[p] = "metadataSaved"
    /\ pc'[p] \in Unsettled => st'[p] # "completed"
    /\ pc'[p] \in OldCleanup =>
          /\ tgt'[p] = tgt[p]
          /\ pc[p] \in OldCleanup \/ objList'[ObjName[p]] = p
    /\ pc'[p] \in {"delete_old", "remove_old_version"} => tgt'[p] # NoOid

DeleteEffect(d) ==
    /\ pc'[d] \notin {"idle", "done"} => tgt'[d] # NoOid
    /\ pc'[d] \in DeleteCleanup =>
          /\ tgt'[d] = tgt[d]
          /\ pc[d] \in DeleteCleanup \/ objList'[ObjName[d]] = NoOid

\* What enters the message bus and the consumers.
BackgroundEffect ==
    /\ \A m \in queue' :
          \/ m \in queue
          \/ /\ Settled(KeyOid(m.key))
             /\ m.forced => Dead(KeyOid(m.key))
    /\ \A c \in Consumer :
          \/ bd'[c] = bd[c]
          \/ bd'[c].pc = "idle"
          \/ /\ bd'[c].msg \in Message
             /\ Settled(KeyOid(bd'[c].msg.key))
             /\ bd'[c].msg.forced => Dead(KeyOid(bd'[c].msg.key))
             /\ bd'[c].pc \in {"get_version", "delete_object",
                               "delete_version"} =>
                    Dead(KeyOid(bd'[c].msg.key))
             /\ bd'[c].pc = "delete_object" =>
                    bd'[c].oid = KeyOid(bd'[c].msg.key)

Effects ==
    /\ MotrEffect
    /\ \A r \in Req : RequestEffect(r)
    /\ \A p \in Put : PutEffect(p)
    /\ \A d \in Delete : DeleteEffect(d)
    /\ BackgroundEffect

\* What is settled or dead stays so.
LEMMA DeadStable ==
    ASSUME IInv, Effects, TypeOK', NEW o \in Put
    PROVE  /\ Settled(o) => Settled(o)'
           /\ Dead(o) => Dead(o)'
<1>1. Settled(o) => Settled(o)'
  BY DEF Effects, RequestEffect, PutEffect, Settled, Unsettled, Req
<1>2. ASSUME Dead(o), Live(o)'
      PROVE  FALSE
  <2>1. ObjName[o] \in Name
    BY ConstantAssumption DEF Req
  <2>2. objList'[ObjName[o]] = o /\ objList[ObjName[o]] # o /\ o # NoOid
    BY <1>2, ConstantAssumption DEF Live, Dead
  <2> QED
    BY <1>2, <2>1, <2>2 DEF Effects, MotrEffect, Dead, Settled
<1> QED
  BY <1>1, <1>2 DEF Dead

\* A step whose effects are those summarised above keeps a live object in
\* Motr, versioned, and past the point where its PUT could roll it back.
LEMMA LivePreserved ==
    ASSUME SafeSetting, IInv, Effects, TypeOK'
    PROVE  LiveInv'
<1> SUFFICES ASSUME NEW n \in Name, NEW o \in Put, objList'[n] = o
             PROVE  /\ ObjName[o] = n
                    /\ pc'[o] \notin Unsettled \cup Rollback
                    /\ o \in stored'
                    /\ verList'[VersionKey[o]] = o
  BY DEF LiveInv, TypeOK, MotrType
<1>k. o # NoOid /\ VersionKey[o] \in VKey
  BY ConstantAssumption
<1>1. ASSUME ~Dead(o), o \in stored, verList[VersionKey[o]] = o
      PROVE  o \in stored' /\ verList'[VersionKey[o]] = o
  BY <1>1, <1>k DEF Effects, MotrEffect, SafeSetting
<1>2. CASE objList[n] = o
  <2>1. /\ ObjName[o] = n
        /\ pc[o] \notin Unsettled \cup Rollback
        /\ o \in stored
        /\ verList[VersionKey[o]] = o
    BY <1>2, <1>k DEF IInv, LiveInv
  <2>2. ~Dead(o)
    BY <1>2, <2>1 DEF Dead, Live
  <2>3. pc'[o] \notin Unsettled \cup Rollback
    BY <2>1 DEF Effects, PutEffect
  <2> QED
    BY <1>1, <2>1, <2>2, <2>3
<1>3. CASE objList[n] # o
  <2>1. /\ ObjName[o] = n
        /\ pc[o] = "save_object"
        /\ o \notin stopped
        /\ pc'[o] = "respond"
    BY <1>3, <1>k DEF Effects, MotrEffect
  <2>2. o \in stored /\ verList[VersionKey[o]] = o
    BY <2>1 DEF IInv, UploadInv
  <2>3. ~Dead(o)
    BY <2>1 DEF Dead, Settled
  <2> QED
    BY <1>1, <2>1, <2>2, <2>3 DEF Unsettled, Rollback
<1> QED
  BY <1>2, <1>3

\* Such a step leaves to a running upload what it is about to publish.
LEMMA UploadPreserved ==
    ASSUME SafeSetting, IInv, Effects, TypeOK'
    PROVE  UploadInv'
<1> SUFFICES ASSUME NEW p \in Put
             PROVE  /\ pc'[p] \in {"idle", "create_object"} =>
                          p \notin stored'
                    /\ pc'[p] \in Uploading /\ p \notin stopped' =>
                          p \in stored'
                    /\ pc'[p] = "save_object" /\ p \notin stopped' =>
                          verList'[VersionKey[p]] = p
                    /\ pc'[p] = "respond" => st'[p] = "metadataSaved"
                    /\ pc'[p] \in Unsettled => st'[p] # "completed"
  BY DEF UploadInv, Uploading
<1>0. p # NoOid /\ VersionKey[p] \in VKey
  BY ConstantAssumption
<1>1. ASSUME pc[p] \in Uploading, p \notin stopped
      PROVE  /\ p \in stored'
             /\ pc[p] = "save_object" => verList'[VersionKey[p]] = p
  <2>1. ~Dead(p)
    BY <1>1 DEF Dead, Settled, Uploading
  <2>2. p \in stored /\ (pc[p] = "save_object" => verList[VersionKey[p]] = p)
    BY <1>1 DEF IInv, UploadInv, Uploading
  <2> QED
    BY <1>0, <2>1, <2>2 DEF Effects, MotrEffect, SafeSetting
<1>2. pc'[p] \in {"idle", "create_object"} => p \notin stored'
  BY DEF Effects, PutEffect, MotrEffect, IInv, UploadInv
<1> QED
  BY <1>1, <1>2 DEF Effects, PutEffect, Uploading

\* Such a step keeps what a request knows of the object it replaces or
\* deletes: the oid it has read in the object list.
LEMMA TargetPreserved ==
    ASSUME IInv, Effects, TypeOK'
    PROVE  TargetInv'
<1>1. ASSUME NEW r \in Req, NEW o \in Put, tgt'[r] = o
      PROVE  /\ ObjName[o] = ObjName[r]
             /\ Settled(o)
             /\ Settled(o)'
             /\ o # r
  <2>0. o # NoOid
    BY ConstantAssumption
  <2>1. CASE tgt'[r] = tgt[r]
    BY <1>1, <2>0, <2>1, DeadStable DEF IInv, TargetInv
  <2>2. CASE pc[r] = "idle" /\ tgt'[r] = objList[ObjName[r]]
    <3>1. ObjName[r] \in Name
      BY ConstantAssumption
    <3> QED
      BY <1>1, <2>0, <2>2, <3>1, DeadStable
      DEF IInv, LiveInv, Settled, Unsettled
  <2> QED
    BY <2>1, <2>2 DEF Effects, RequestEffect
<1>2. ASSUME NEW p \in Put, NEW o \in Put, tgt'[p] = o, pc'[p] \in OldCleanup
      PROVE  ~(Live(o)')
  <2>1. CASE pc[p] \in OldCleanup
    <3>1. tgt[p] = o /\ Dead(o)
      BY <1>1, <1>2, <2>1, ConstantAssumption
      DEF Effects, PutEffect, IInv, TargetInv, HasOld, Dead, Req
    <3> QED
      BY <3>1, DeadStable DEF Dead
  <2>2. CASE objList'[ObjName[p]] = p
    BY <1>1, <1>2, <2>2 DEF Live, Req
  <2> QED
    BY <1>2, <2>1, <2>2 DEF Effects, PutEffect
<1>3. ASSUME NEW d \in Delete, NEW o \in Put, tgt'[d] = o,
             pc'[d] \in DeleteCleanup
      PROVE  ~(Live(o)')
  <2>1. CASE pc[d] \in DeleteCleanup
    <3>1. tgt[d] = o /\ Dead(o)
      BY <1>1, <1>3, <2>1
      DEF Effects, DeleteEffect, IInv, TargetInv, Dead, Req, DeleteCleanup
    <3> QED
      BY <3>1, DeadStable DEF Dead
  <2>2. CASE objList'[ObjName[d]] = NoOid
    BY <1>1, <1>3, <2>2, ConstantAssumption DEF Live, Req
  <2> QED
    BY <1>3, <2>1, <2>2 DEF Effects, DeleteEffect
<1>4. \A r \in Req : tgt'[r] \in Put \cup {NoOid}
  BY DEF TypeOK, RequestType
<1>5. \A r \in Req : tgt'[r] # NoOid =>
          /\ ObjName[tgt'[r]] = ObjName[r]
          /\ Settled(tgt[r])'
          /\ tgt'[r] # r
  BY <1>1, <1>4 DEF Settled
<1>6. \A p \in Put :
          /\ pc'[p] \in OldCleanup /\ HasOld(p)' => ~(Live(tgt[p])')
          /\ pc'[p] \in {"delete_old", "remove_old_version"} => HasOld(p)'
  BY <1>2, <1>4 DEF Live, HasOld, Req, Effects, PutEffect
<1>7. \A d \in Delete :
          /\ pc'[d] \notin {"idle", "done"} => tgt'[d] # NoOid
          /\ pc'[d] \in DeleteCleanup => ~(Live(tgt[d])')
  BY <1>3, <1>4 DEF Live, Req, Effects, DeleteEffect, DeleteCleanup
<1> QED
  BY <1>5, <1>6, <1>7 DEF TargetInv, DeleteCleanup

\* Such a step marks no object that may still become live, and a record
\* remembers the PUT that may still publish its object.
LEMMA RecordPreserved ==
    ASSUME IInv, Effects, TypeOK'
    PROVE  RecordInv'
<1> SUFFICES ASSUME NEW k \in RecKey, NEW o \in Put, KeyOid(k) = o,
                    pdi'[k] # NoRec
             PROVE  /\ pdi'[k].forced => Dead(o)'
                    /\ Settled(o)' \/ o \in pdi'[k].since
                    /\ \A r \in pdi'[k].since : pc'[r] # "idle"
  BY KeyFacts DEF RecordInv
<1>1. CASE pdi'[k] = pdi[k]
  <2>1. pdi[k].since \subseteq Req
    BY <1>1 DEF IInv, TypeOK, MotrType, Record
  <2> QED
    BY <1>1, <2>1, DeadStable DEF IInv, RecordInv, Effects, RequestEffect
<1>2. ASSUME NEW f \in BOOLEAN, pdi'[k] = NewRecord(f), f => Dead(o),
             Settled(o) \/ o \in Running
      PROVE  /\ pdi'[k].forced => Dead(o)'
             /\ Settled(o)' \/ o \in pdi'[k].since
             /\ \A r \in pdi'[k].since : pc'[r] # "idle"
  BY <1>2, DeadStable
  DEF NewRecord, Running, InFlight, Effects, RequestEffect
<1> QED
  BY <1>1, <1>2 DEF Effects, MotrEffect

\* Such a step puts only objects of ended uploads on the message bus, and a
\* consumer past its look at the metadata works on a dead object.
LEMMA QueuePreserved ==
    ASSUME IInv, Effects, TypeOK'
    PROVE  QueueInv'
<1>1. ASSUME NEW m \in queue'
      PROVE  Settled(KeyOid(m.key))' /\ (m.forced => Dead(KeyOid(m.key))')
  <2>1. m.key \in RecKey
    BY DEF TypeOK, BackgroundType, Message
  <2>2. PICK o \in Put : o = KeyOid(m.key)
    BY <2>1, KeyFacts
  <2>3. Settled(o) /\ (m.forced => Dead(o))
    BY <2>2 DEF Effects, BackgroundEffect, IInv, QueueInv
  <2> QED
    BY <2>2, <2>3, DeadStable
<1>2. ASSUME NEW c \in Consumer, bd'[c].pc # "idle"
      PROVE  /\ Settled(LeakOid(c))'
             /\ bd'[c].msg.forced => Dead(LeakOid(c))'
             /\ bd'[c].pc \in {"get_version", "delete_object",
                               "delete_version"} => Dead(LeakOid(c))'
             /\ bd'[c].pc = "delete_object" => bd'[c].oid = LeakOid(c)'
  <2>1. bd'[c].msg \in Message
    BY <1>2 DEF TypeOK, BackgroundType, Worker, IdleWorker
  <2>2. PICK o \in Put : o = KeyOid(bd'[c].msg.key)
    BY <2>1, KeyFacts DEF Message
  <2>3. /\ Settled(o)
        /\ bd'[c].msg.forced => Dead(o)
        /\ bd'[c].pc \in {"get_version", "delete_object",
                          "delete_version"} => Dead(o)
        /\ bd'[c].pc = "delete_object" => bd'[c].oid = o
    BY <1>2, <2>2 DEF Effects, BackgroundEffect, IInv, QueueInv, LeakOid
  <2>4. LeakOid(c)' = o
    BY <2>2 DEF LeakOid
  <2>5. /\ Settled(o)'
        /\ Dead(o) => Dead(o)'
    BY <2>3, DeadStable
  <2> QED
    BY <2>3, <2>4, <2>5 DEF Settled, Dead, Live
<1> QED
  BY <1>1, <1>2 DEF QueueInv

\* Such a step stores version entries under the key of their object.
LEMMA VersionPreserved ==
    ASSUME IInv, Effects, TypeOK'
    PROVE  VersionInv'
BY DEF Effects, MotrEffect, IInv, VersionInv

-----------------------------------------------------------------------------
(* Every action has these effects. *)

\* A part of the state that does not change has its effect.
LEMMA NoEffect ==
    ASSUME IInv
    PROVE  /\ UNCHANGED motr => MotrEffect
           /\ UNCHANGED bdel => BackgroundEffect
           /\ \A r \in Req : UNCHANGED <<pc[r], tgt[r], stopped>> =>
                  RequestEffect(r)
           /\ \A p \in Put :
                  UNCHANGED <<pc[p], st[p], tgt[p]>> /\ stopped \subseteq stopped'
                     => PutEffect(p)
           /\ \A d \in Delete :
                  UNCHANGED <<pc[d], tgt[d]>> => DeleteEffect(d)
<1>1. UNCHANGED motr => MotrEffect
  BY DEF motr, MotrEffect
<1>2. UNCHANGED bdel => BackgroundEffect
  BY DEF bdel, BackgroundEffect
<1>3. \A r \in Req : UNCHANGED <<pc[r], tgt[r], stopped>> => RequestEffect(r)
  BY DEF RequestEffect
<1>4. \A p \in Put :
         UNCHANGED <<pc[p], st[p], tgt[p]>> /\ stopped \subseteq stopped'
            => PutEffect(p)
  BY DEF PutEffect, IInv, UploadInv, TargetInv, HasOld
<1>5. \A d \in Delete : UNCHANGED <<pc[d], tgt[d]>> => DeleteEffect(d)
  BY DEF DeleteEffect, IInv, TargetInv
<1> QED
  BY <1>1, <1>2, <1>3, <1>4, <1>5

\* Only the request that moves is affected.
LEMMA OwnEffect ==
    ASSUME IInv, NEW r \in Req,
           \A q \in Req \ {r} : UNCHANGED <<pc[q], st[q], tgt[q]>>,
           UNCHANGED stopped,
           RequestEffect(r),
           r \in Put => PutEffect(r),
           r \in Delete => DeleteEffect(r)
    PROVE  /\ \A q \in Req : RequestEffect(q)
           /\ \A p \in Put : PutEffect(p)
           /\ \A d \in Delete : DeleteEffect(d)
BY NoEffect DEF Req

\* A PUT changes its own pc, state and target only.
LEMMA PutFrame ==
    ASSUME TypeOK, NEW p \in Put, PutStep(p)
    PROVE  /\ \A q \in Req \ {p} : UNCHANGED <<pc[q], st[q], tgt[q]>>
           /\ UNCHANGED <<stopped, bdel>>
<1> USE DEF TypeOK, RequestType, Req, GoTo, SetState, StartCleanup,
            StartRequest, CleanupStep
<1> QED
  BY DEF PutStep, FetchObjectInfo, RejectPut, CreateObject,
      AddObjectOidToProbableDeadOidList, StreamData, SaveVersionMetadata,
      SaveMetadata, SendResponse, PutClientGone, MarkOldOidForDeletion,
      AddOidForParallelLeakCheck, RemoveNewOidProbableRecord,
      DeleteOldObject, RemoveOldObjectVersionMetadata,
      RemoveOldOidProbableRecord, MarkNewOidForDeletion,
      RollbackOldOidProbableRecord, DeleteNewObject,
      RollbackNewOidProbableRecord

\* How a PUT moves on, action by action.
LEMMA PutLocal ==
    ASSUME IInv, NEW p \in Put, p \notin stopped, PutStep(p)
    PROVE  RequestEffect(p) /\ PutEffect(p)
<1> USE DEF IInv, TypeOK, MotrType, RequestType, Req, GoTo, SetState,
            RequestEffect, PutEffect, Unsettled, Rollback, Uploading,
            OldCleanup, PutLabels
<1>c. \A s : /\ CleanupTask(p, s) \in {"mark_old", "leak_check", "mark_new",
                                       "done"}
             /\ s \notin RollbackStates => CleanupTask(p, s) # "mark_new"
             /\ s # "completed" => CleanupTask(p, s) \in {"mark_new", "done"}
  BY DEF CleanupTask, RollbackStates
<1>s. /\ pc[p] = "respond" => st[p] = "metadataSaved"
      /\ pc[p] \in Unsettled => st[p] # "completed"
  BY DEF UploadInv
<1>1. CASE FetchObjectInfo(p)
  BY <1>1, <1>s DEF FetchObjectInfo, StartRequest
<1>2. CASE RejectPut(p)
  BY <1>2, <1>c DEF RejectPut, StartCleanup, RollbackStates
<1>3. CASE CreateObject(p)
  BY <1>3, <1>c DEF CreateObject, StartCleanup
<1>4. CASE AddObjectOidToProbableDeadOidList(p)
  BY <1>4, <1>s, <1>c DEF AddObjectOidToProbableDeadOidList, StartCleanup
<1>5. CASE StreamData(p)
  BY <1>5, <1>s, <1>c DEF StreamData, StartCleanup
<1>6. CASE SaveVersionMetadata(p)
  BY <1>6, <1>s, <1>c, ConstantAssumption DEF SaveVersionMetadata, StartCleanup
<1>7. CASE SaveMetadata(p)
  BY <1>7, <1>c, ConstantAssumption DEF SaveMetadata, StartCleanup
<1>8. CASE SendResponse(p)
  BY <1>8, <1>c DEF SendResponse, StartCleanup, RollbackStates
<1>9. CASE PutClientGone(p)
  BY <1>9, <1>c, <1>s DEF PutClientGone, StartCleanup, RollbackStates
<1>10. CASE MarkOldOidForDeletion(p) \/ AddOidForParallelLeakCheck(p)
                \/ RemoveNewOidProbableRecord(p)
  BY <1>10 DEF MarkOldOidForDeletion, AddOidForParallelLeakCheck,
      RemoveNewOidProbableRecord, CleanupStep, HasOld
<1>11. CASE DeleteOldObject(p)
  BY <1>11 DEF DeleteOldObject, TargetInv, HasOld
<1>12. CASE RemoveOldObjectVersionMetadata(p) \/ RemoveOldOidProbableRecord(p)
  BY <1>12 DEF RemoveOldObjectVersionMetadata, RemoveOldOidProbableRecord,
      CleanupStep
<1>13. CASE MarkNewOidForDeletion(p) \/ RollbackOldOidProbableRecord(p)
                \/ RollbackNewOidProbableRecord(p)
  BY <1>13 DEF MarkNewOidForDeletion, RollbackOldOidProbableRecord,
      RollbackNewOidProbableRecord, CleanupStep
<1>14. CASE DeleteNewObject(p)
  BY <1>14 DEF DeleteNewObject
<1> QED
  BY <1>1, <1>2, <1>3, <1>4, <1>5, <1>6, <1>7, <1>8, <1>9, <1>10, <1>11,
     <1>12, <1>13, <1>14 DEF PutStep

\* What a PUT does to Motr.
LEMMA PutMotr ==
    ASSUME IInv, NEW p \in Put, p \notin stopped, PutStep(p)
    PROVE  MotrEffect
<1>t. /\ tgt[p] \in Put \cup {NoOid}
      /\ ObjName[p] \in Name
      /\ VersionKey[p] \in VKey
      /\ NoOid \notin Put
  BY ConstantAssumption DEF IInv, TypeOK, RequestType, Req
<1>o. ASSUME HasOld(p)
      PROVE  /\ tgt[p] \in Put
             /\ Settled(tgt[p])
             /\ pc[p] \in OldCleanup => Dead(tgt[p])
  BY <1>o, <1>t DEF HasOld, IInv, TargetInv, Dead, Req
<1>r. pc[p] \in Rollback => Dead(p)
  <2>1. pc[p] \in Rollback => ~Live(p)
    BY <1>t DEF Live, IInv, LiveInv
  <2> QED
    BY <2>1 DEF Dead, Settled, Rollback
<1>1. CASE UNCHANGED motr
  BY <1>1, NoEffect
<1>2. CASE CreateObject(p)
  BY <1>2, <1>t DEF CreateObject, MotrEffect, GoTo, IInv, TypeOK,
      RequestType, Req
<1>3. CASE AddObjectOidToProbableDeadOidList(p)
  <2>1. p \in Running
    BY <1>3 DEF AddObjectOidToProbableDeadOidList, Running, InFlight, Req
  <2>2. \A k \in OldKeys(p) \cup {ObjKey(p)} :
            Settled(KeyOid(k)) \/ KeyOid(k) \in Running
    BY <1>o, <2>1, KeyFacts DEF OldKeys
  <2> QED
    BY <1>3, <2>2 DEF AddObjectOidToProbableDeadOidList, MotrEffect, PutRecs
<1>4. CASE SaveVersionMetadata(p)
  BY <1>4, <1>t DEF SaveVersionMetadata, MotrEffect, IInv, TypeOK, MotrType
<1>5. CASE SaveMetadata(p)
  BY <1>5, <1>t DEF SaveMetadata, MotrEffect, IInv, TypeOK, MotrType,
      RequestType, Req, GoTo
<1>6. CASE MarkOldOidForDeletion(p)
  <2>1. \A k \in OldKeys(p) : Dead(KeyOid(k))
    BY <1>6, <1>o, KeyFacts DEF OldKeys, MarkOldOidForDeletion, CleanupStep,
        OldCleanup
  <2> QED
    BY <1>6, <2>1 DEF MarkOldOidForDeletion, CleanupStep, MotrEffect, PutRecs,
        Dead
<1>7. CASE AddOidForParallelLeakCheck(p)
  <2>1. Settled(KeyOid(ChkKey(p)))
    BY <1>7, KeyFacts DEF AddOidForParallelLeakCheck, CleanupStep, Settled
  <2> QED
    BY <1>7, <2>1 DEF AddOidForParallelLeakCheck, CleanupStep, MotrEffect,
        PutRecs
<1>8. CASE MarkNewOidForDeletion(p)
  <2>1. Dead(KeyOid(ObjKey(p)))
    BY <1>8, <1>r, KeyFacts DEF MarkNewOidForDeletion, CleanupStep, Rollback
  <2> QED
    BY <1>8, <2>1 DEF MarkNewOidForDeletion, CleanupStep, MotrEffect, PutRecs,
        Dead
<1>9. CASE RemoveNewOidProbableRecord(p) \/ RemoveOldOidProbableRecord(p)
                \/ RollbackOldOidProbableRecord(p)
                \/ RollbackNewOidProbableRecord(p)
  BY <1>9 DEF RemoveNewOidProbableRecord, RemoveOldOidProbableRecord,
      RollbackOldOidProbableRecord, RollbackNewOidProbableRecord,
      CleanupStep, MotrEffect, DeleteRecs
<1>10. CASE DeleteOldObject(p)
  BY <1>10, <1>o DEF DeleteOldObject, OldCleanup, MotrEffect, IInv, TargetInv
<1>11. CASE RemoveOldObjectVersionMetadata(p)
  <2>1. Dead(tgt[p]) /\ tgt[p] \in Put
    BY <1>11, <1>o DEF RemoveOldObjectVersionMetadata, CleanupStep,
        OldCleanup, IInv, TargetInv
  <2> QED
    BY <1>11, <2>1 DEF RemoveOldObjectVersionMetadata, CleanupStep,
        MotrEffect, IInv, TypeOK, MotrType
<1>12. CASE DeleteNewObject(p)
  BY <1>12, <1>r DEF DeleteNewObject, MotrEffect, Rollback
<1> QED
  BY <1>1, <1>2, <1>3, <1>4, <1>5, <1>6, <1>7, <1>8, <1>9, <1>10, <1>11, <1>12
  DEF PutStep, FetchObjectInfo, RejectPut, StreamData, SendResponse,
      PutClientGone

\* Every step of S3PutObjectAction has the effects of one of the summaries.
LEMMA PutEffects ==
    ASSUME IInv, NEW p \in Put, p \notin stopped, PutStep(p)
    PROVE  Effects
<1>1. /\ \A q \in Req \ {p} : UNCHANGED <<pc[q], st[q], tgt[q]>>
      /\ UNCHANGED <<stopped, bdel>>
  BY PutFrame DEF IInv
<1>2. BackgroundEffect
  BY <1>1, NoEffect
<1>3. /\ \A q \in Req : RequestEffect(q)
      /\ \A q \in Put : PutEffect(q)
      /\ \A d \in Delete : DeleteEffect(d)
  <2>1. p \notin Delete
    BY ConstantAssumption
  <2> QED
    BY <1>1, <2>1, PutLocal, OwnEffect DEF Req
<1> QED
  BY <1>2, <1>3, PutMotr DEF Effects

\* Every step of S3DeleteObjectAction has the effects of one of the
\* summaries.
LEMMA DeleteEffects ==
    ASSUME IInv, NEW d \in Delete, d \notin stopped, DeleteStep(d)
    PROVE  Effects
<1>t. /\ d \in Req /\ d \notin Put
      /\ tgt[d] \in Put \cup {NoOid}
      /\ ObjName[d] \in Name
      /\ NoOid \notin Put
  BY ConstantAssumption DEF IInv, TypeOK, RequestType, Req
<1>o. ASSUME pc[d] \notin {"idle", "done"}
      PROVE  /\ tgt[d] \in Put
             /\ Settled(tgt[d])
             /\ pc[d] \in DeleteCleanup => Dead(tgt[d])
  BY <1>o, <1>t DEF IInv, TargetInv, Dead, DeleteCleanup
<1>1. /\ \A q \in Req \ {d} : UNCHANGED <<pc[q], st[q], tgt[q]>>
      /\ UNCHANGED <<stopped, bdel>>
  BY DEF IInv, TypeOK, RequestType, Req, GoTo, SetState, StartRequest, Finish,
      DeleteStep, FetchObjectToDelete, RejectDelete,
      PopulateProbableDeadOidList, RemoveObjectMetadata,
      RemoveVersionMetadata, MarkOidForDeletion, DeleteObject,
      RemoveProbableRecord, DeleteClientGone
<1>2. RequestEffect(d) /\ DeleteEffect(d)
  <2> USE DEF IInv, TypeOK, RequestType, MotrType, GoTo, RequestEffect,
              DeleteEffect, DeleteCleanup
  <2>1. CASE FetchObjectToDelete(d)
    BY <1>t, <2>1 DEF FetchObjectToDelete, StartRequest
  <2>2. CASE RejectDelete(d) \/ DeleteClientGone(d)
    BY <1>t, <2>2 DEF RejectDelete, DeleteClientGone, Finish
  <2>3. CASE PopulateProbableDeadOidList(d) \/ MarkOidForDeletion(d)
                \/ RemoveProbableRecord(d)
    BY <1>t, <1>o, <2>3 DEF PopulateProbableDeadOidList, MarkOidForDeletion,
        RemoveProbableRecord, Finish
  <2>4. CASE RemoveObjectMetadata(d) \/ RemoveVersionMetadata(d)
                \/ DeleteObject(d)
    BY <1>t, <1>o, <2>4 DEF RemoveObjectMetadata, RemoveVersionMetadata,
        DeleteObject
  <2> QED
    BY <2>1, <2>2, <2>3, <2>4 DEF DeleteStep
<1>3. MotrEffect
  <2>1. CASE UNCHANGED motr
    BY <2>1, NoEffect
  <2>2. CASE PopulateProbableDeadOidList(d)
    <3>1. Settled(KeyOid(ObjKey(tgt[d])))
      BY <1>o, <2>2, KeyFacts DEF PopulateProbableDeadOidList
    <3> QED
      BY <2>2, <3>1 DEF PopulateProbableDeadOidList, MotrEffect, PutRecs
  <2>3. CASE RemoveObjectMetadata(d)
    BY <1>t, <2>3 DEF RemoveObjectMetadata, MotrEffect, IInv, TypeOK, MotrType
  <2>4. CASE RemoveVersionMetadata(d)
    <3>1. Dead(tgt[d]) /\ tgt[d] \in Put
      BY <1>o, <2>4 DEF RemoveVersionMetadata, DeleteCleanup
    <3> QED
      BY <2>4, <3>1 DEF RemoveVersionMetadata, MotrEffect, IInv, TypeOK,
          MotrType
  <2>5. CASE MarkOidForDeletion(d)
    <3>1. Dead(KeyOid(ObjKey(tgt[d])))
      BY <1>o, <2>5, KeyFacts DEF MarkOidForDeletion, DeleteCleanup
    <3> QED
      BY <2>5, <3>1 DEF MarkOidForDeletion, MotrEffect, PutRecs, Dead
  <2>6. CASE DeleteObject(d)
    BY <1>o, <2>6 DEF DeleteObject, DeleteCleanup, MotrEffect
  <2>7. CASE RemoveProbableRecord(d)
    BY <2>7 DEF RemoveProbableRecord, MotrEffect, DeleteRecs
  <2> QED
    BY <2>1, <2>2, <2>3, <2>4, <2>5, <2>6, <2>7
    DEF DeleteStep, FetchObjectToDelete, RejectDelete, DeleteClientGone
<1> QED
  BY <1>t, <1>1, <1>2, <1>3, NoEffect, OwnEffect DEF Effects

\* A server that stops changes nothing but the set of stopped requests.
LEMMA StopEffects ==
    ASSUME IInv, NEW r \in Req, ServerStops(r)
    PROVE  Effects
<1>1. /\ UNCHANGED <<motr, pc, st, tgt, bdel>>
      /\ stopped \subseteq stopped'
  BY DEF ServerStops
<1>2. \A q \in Req : RequestEffect(q)
  BY <1>1 DEF RequestEffect
<1> QED
  BY <1>1, <1>2, NoEffect DEF Effects

\* Every step of background delete has the effects of one of the summaries.
LEMMA BackgroundEffects ==
    ASSUME SafeSetting, IInv, BackgroundDeleteStep
    PROVE  Effects
<1>1. UNCHANGED reqs
  BY DEF BackgroundDeleteStep, AddKvToMsgbus, Process,
      ReceiveData, GetObjectMetadata, GetVersionEntry,
      DeleteObjectFromStorage, DeleteVersionEntry, DeleteLeakRecord,
      ProcessingFails, ConsumerRestarts
<1>2. /\ \A r \in Req : RequestEffect(r)
      /\ \A p \in Put : PutEffect(p)
      /\ \A d \in Delete : DeleteEffect(d)
  BY <1>1, NoEffect DEF reqs
<1>3. CASE AddKvToMsgbus
  <2>1. ASSUME NEW k \in RecKey, pdi[k] # NoRec, Aged(k)
        PROVE  /\ Settled(KeyOid(k))
               /\ pdi[k].forced => Dead(KeyOid(k))
    <3>0. KeyOid(k) \in Put
      BY KeyFacts
    <3>1. CASE KeyOid(k) \in pdi[k].since
      <4>1. KeyOid(k) \notin Running
        BY <2>1, <3>1 DEF Aged, SafeSetting
      <4>2. pc[KeyOid(k)] # "idle"
        BY <2>1, <3>1 DEF IInv, RecordInv
      <4>3. Settled(KeyOid(k))
        BY <3>0, <4>1, <4>2 DEF Running, InFlight, Settled, Req
      <4> QED
        BY <2>1, <4>3 DEF IInv, RecordInv
    <3> QED
      BY <2>1, <3>1 DEF IInv, RecordInv
  <2>2. ASSUME NEW m \in queue'
        PROVE  /\ Settled(KeyOid(m.key))
               /\ m.forced => Dead(KeyOid(m.key))
    <3>1. PICK k \in RecKey : /\ pdi[k] # NoRec
                              /\ Aged(k)
                              /\ m = [key |-> k, forced |-> pdi[k].forced]
      BY <1>3, Sent
    <3>2. m.key = k /\ m.forced = pdi[k].forced
      BY <3>1
    <3> QED
      BY <2>1, <3>1, <3>2
  <2>3. BackgroundEffect
    BY <1>3, <2>2 DEF AddKvToMsgbus, BackgroundEffect
  <2> QED
    BY <1>2, <1>3, <2>3, NoEffect DEF AddKvToMsgbus, Effects
<1>4. ASSUME NEW c \in Consumer,
             Process(c) \/ ProcessingFails(c) \/ ConsumerRestarts(c)
      PROVE  Effects
  <2>w. ASSUME bd[c].pc # "idle"
        PROVE  /\ bd[c].msg \in Message
               /\ LeakOid(c) \in Put
               /\ VersionKey[LeakOid(c)] \in VKey
               /\ Settled(LeakOid(c))
               /\ bd[c].msg.forced => Dead(LeakOid(c))
               /\ bd[c].pc \in {"get_version", "delete_object",
                                "delete_version"} => Dead(LeakOid(c))
               /\ bd[c].pc = "delete_object" => bd[c].oid = LeakOid(c)
    <3>1. bd[c].msg \in Message
      BY <2>w DEF IInv, TypeOK, BackgroundType, Worker, IdleWorker
    <3>2. LeakOid(c) \in Put
      BY <3>1, KeyFacts DEF LeakOid, Message
    <3> QED
      BY <2>w, <3>1, <3>2, ConstantAssumption DEF IInv, QueueInv
  <2>f. bd \in [Consumer -> Worker]
    BY DEF IInv, TypeOK, BackgroundType
  <2>1. CASE ReceiveData(c)
    <3>1. PICK m \in queue :
              /\ queue' = queue \ {m}
              /\ bd' = [bd EXCEPT ![c] =
                          [pc  |-> IF m.forced THEN "get_version"
                                               ELSE "get_metadata",
                           msg |-> m,
                           oid |-> NoOid]]
      BY <2>1 DEF ReceiveData
    <3>2. m \in Message /\ Settled(KeyOid(m.key))
            /\ (m.forced => Dead(KeyOid(m.key)))
      BY DEF IInv, TypeOK, BackgroundType, QueueInv
    <3>3. BackgroundEffect
      BY <2>f, <3>1, <3>2 DEF BackgroundEffect
    <3> QED
      BY <1>2, <2>1, <3>3, NoEffect DEF ReceiveData, Effects
  <2>2. CASE GetObjectMetadata(c)
    <3>1. objList[ObjName[LeakOid(c)]] # LeakOid(c) => Dead(LeakOid(c))
      BY <2>2, <2>w DEF GetObjectMetadata, Dead, Live
    <3>2. BackgroundEffect
      BY <2>2, <2>w, <2>f, <3>1
      DEF GetObjectMetadata, BdGoTo, BackgroundEffect, LeakOid
    <3> QED
      BY <1>2, <2>2, <3>2, NoEffect DEF GetObjectMetadata, Effects
  <2>3. CASE GetVersionEntry(c)
    <3> DEFINE entry == verList[VersionKey[LeakOid(c)]]
    <3>1. entry # NoOid => entry = LeakOid(c)
      BY <2>3, <2>w DEF GetVersionEntry, SafeSetting, IInv, VersionInv,
          TypeOK, MotrType
    <3>2. bd' = [bd EXCEPT ![c].pc = "delete_object", ![c].oid = LeakOid(c)]
      BY <2>3, <3>1 DEF GetVersionEntry
    <3>3. BackgroundEffect
      BY <2>3, <2>w, <2>f, <3>2
      DEF GetVersionEntry, BackgroundEffect, LeakOid, Worker, IdleWorker
    <3> QED
      BY <1>2, <2>3, <3>3, NoEffect DEF GetVersionEntry, Effects
  <2>4. CASE DeleteObjectFromStorage(c)
    <3>1. MotrEffect
      BY <2>4, <2>w DEF DeleteObjectFromStorage, MotrEffect
    <3>2. BackgroundEffect
      BY <2>4, <2>w, <2>f
      DEF DeleteObjectFromStorage, BackgroundEffect, LeakOid
    <3> QED
      BY <1>2, <3>1, <3>2 DEF Effects
  <2>5. CASE DeleteVersionEntry(c)
    <3>1. MotrEffect
      BY <2>5, <2>w DEF DeleteVersionEntry, MotrEffect, IInv, TypeOK, MotrType
    <3>2. BackgroundEffect
      BY <2>5, <2>w, <2>f
      DEF DeleteVersionEntry, BdGoTo, BackgroundEffect, LeakOid
    <3> QED
      BY <1>2, <3>1, <3>2 DEF Effects
  <2>6. CASE DeleteLeakRecord(c)
    <3>1. MotrEffect
      BY <2>6 DEF DeleteLeakRecord, DeleteRecs, MotrEffect
    <3>2. BackgroundEffect
      BY <2>6, <2>f DEF DeleteLeakRecord, BackgroundEffect, IdleWorker
    <3> QED
      BY <1>2, <3>1, <3>2 DEF Effects
  <2>7. CASE ProcessingFails(c) \/ ConsumerRestarts(c)
    <3>1. BackgroundEffect
      BY <2>7, <2>w, <2>f
      DEF ProcessingFails, ConsumerRestarts, BackgroundEffect, IdleWorker,
          LeakOid
    <3> QED
      BY <1>2, <2>7, <3>1, NoEffect
      DEF ProcessingFails, ConsumerRestarts, Effects
  <2> QED
    BY <1>4, <2>1, <2>2, <2>3, <2>4, <2>5, <2>6, <2>7 DEF Process
<1> QED
  BY <1>3, <1>4 DEF BackgroundDeleteStep

-----------------------------------------------------------------------------
(* The inductive invariant, and what it implies. *)

LEMMA StepEffects ==
    ASSUME SafeSetting, IInv, Next
    PROVE  Effects
BY PutEffects, DeleteEffects, StopEffects, BackgroundEffects
DEF Next, RequestStep

\* The inductive invariant holds before the first request.
LEMMA InitInv == Init => IInv
<1> SUFFICES ASSUME Init PROVE IInv
  OBVIOUS
<1>1. LiveInv /\ VersionInv /\ RecordInv
  BY DEF Init, LiveInv, VersionInv, RecordInv
<1>2. UploadInv
  BY DEF Init, UploadInv, Req
<1>3. TargetInv
  BY DEF Init, TargetInv, Req, HasOld, OldCleanup
<1>4. QueueInv
  BY DEF Init, QueueInv, IdleWorker
<1> QED
  BY <1>1, <1>2, <1>3, <1>4, InitType DEF IInv

\* The invariant is inductive.
LEMMA NextInv ==
    ASSUME SafeSetting, IInv, [Next]_vars
    PROVE  IInv'
<1>1. CASE UNCHANGED vars
  BY <1>1 DEF IInv, TypeOK, MotrType, RequestType, BackgroundType, LiveInv,
      UploadInv, TargetInv, RecordInv, QueueInv, VersionInv, HasOld, Dead,
      Live, Settled, LeakOid, vars, motr, reqs, bdel
<1>2. CASE Next
  <2>1. TypeOK'
    BY NextType DEF IInv
  <2>2. Effects
    BY <1>2, StepEffects
  <2> QED
    BY <2>1, <2>2, LivePreserved, UploadPreserved, TargetPreserved,
       RecordPreserved, QueuePreserved, VersionPreserved DEF IInv
<1> QED
  BY <1>1, <1>2

\* The inductive invariant holds in every reachable state of PUT, DELETE and
\* background delete, for any number of requests, consumers, failures and
\* server stops, in a safe setting.
THEOREM InvariantHolds ==
    ASSUME SafeSetting
    PROVE  Spec => []IInv
BY InitInv, NextInv, PTL DEF Spec

\* Whatever fails, wherever servers stop and however late a message is
\* processed, an object that the object list names is in Motr.
THEOREM LiveObjectsHaveData ==
    ASSUME SafeSetting
    PROVE  Spec => []LiveHasData
<1>1. IInv => LiveHasData
  BY DEF IInv, LiveInv, LiveHasData
<1> QED
  BY <1>1, InvariantHolds, PTL

\* ... and it has its entry in the version list.
THEOREM LiveObjectsAreVersioned ==
    ASSUME SafeSetting
    PROVE  Spec => []LiveIsVersioned
<1>1. IInv => LiveIsVersioned
  BY DEF IInv, LiveInv, LiveIsVersioned
<1> QED
  BY <1>1, InvariantHolds, PTL

\* force_delete is never set, in the index, in a message or in a consumer,
\* for an object that is or can become live.
THEOREM ForcedRecordsAreDead ==
    ASSUME SafeSetting
    PROVE  Spec => []ForcedIsDead
<1>1. IInv => ForcedIsDead
  BY DEF IInv, RecordInv, QueueInv, ForcedIsDead
<1> QED
  BY <1>1, InvariantHolds, PTL

\* Background delete does not delete the object of a running upload.
THEOREM UploadsAreLeftAlone ==
    ASSUME SafeSetting
    PROVE  Spec => []UploadIsLeftAlone
<1>1. IInv => UploadIsLeftAlone
  BY DEF IInv, UploadInv, UploadIsLeftAlone, InFlight
<1> QED
  BY <1>1, InvariantHolds, PTL

-----------------------------------------------------------------------------
(* S3ObjectLifecycle implements ObjectStore. *)

\* The refinement mapping.
AbsPhase == [o \in Put |-> Phase(o)]

\* Where an object is in its life, read off the invariant.
LEMMA PhaseFacts ==
    ASSUME IInv, NEW o \in Put
    PROVE  /\ Live(o) => Phase(o) = "live"
           /\ o \in stored /\ Dead(o) => Phase(o) = "garbage"
           /\ o \in stored /\ ~Settled(o) => Phase(o) = "uploading"
           /\ o \notin stored /\ Unborn(o) => Phase(o) = "unborn"
           /\ o \notin stored /\ ~Unborn(o) => Phase(o) = "gone"
<1>1. Live(o) => o \in stored /\ Settled(o)
  BY ConstantAssumption DEF IInv, LiveInv, Live, Settled, Unsettled, Req
<1> QED
  BY <1>1 DEF Phase, Dead

\* The same, after a step.
LEMMA NextPhaseFacts ==
    ASSUME IInv', NEW o \in Put
    PROVE  /\ Live(o)' => Phase(o)' = "live"
           /\ o \in stored' /\ Dead(o)' => Phase(o)' = "garbage"
           /\ o \in stored' /\ ~(Settled(o)') => Phase(o)' = "uploading"
           /\ o \notin stored' /\ Unborn(o)' => Phase(o)' = "unborn"
           /\ o \notin stored' /\ ~(Unborn(o)') => Phase(o)' = "gone"
<1>1. Live(o)' => o \in stored' /\ Settled(o)'
  BY ConstantAssumption DEF IInv, LiveInv, Live, Settled, Unsettled, Req
<1> QED
  BY <1>1 DEF Phase, Dead

\* An object whose place does not change keeps its phase.
LEMMA SamePhase ==
    ASSUME NEW o \in Put, o \in stored <=> o \in stored',
           Live(o) <=> Live(o)', Settled(o) <=> Settled(o)',
           Unborn(o) <=> Unborn(o)'
    PROVE  Phase(o)' = Phase(o)
BY DEF Phase, Dead

\* Before the first request the store is empty.
LEMMA InitRefines == Init => Store!StoreInit
<1> SUFFICES ASSUME Init PROVE Store!StoreInit
  OBVIOUS
<1>1. IInv
  BY InitInv
<1>2. \A o \in Put : Phase(o) = "unborn"
  BY <1>1, PhaseFacts DEF Init, Unborn, Req
<1> QED
  BY <1>2 DEF Init, Store!StoreInit

StoreStep == Store!StoreNext \/ UNCHANGED <<objList, AbsPhase>>

\* Nothing happens to any object.
LEMMA NoMove ==
    ASSUME UNCHANGED <<stored, objList>>,
           \A o \in Put : /\ Settled(o) <=> Settled(o)'
                          /\ Unborn(o) <=> Unborn(o)'
    PROVE  StoreStep
<1>1. \A o \in Put : Phase(o)' = Phase(o)
  <2> SUFFICES ASSUME NEW o \in Put PROVE Phase(o)' = Phase(o)
    OBVIOUS
  <2>1. Live(o) <=> Live(o)'
    BY DEF Live
  <2> QED
    BY <2>1, SamePhase
<1> QED
  BY <1>1 DEF StoreStep, AbsPhase

\* A step that changes the place of one object and no entry of the object
\* list is a move of that object, or none.
LEMMA OneMove ==
    ASSUME IInv, IInv', Effects, UNCHANGED objList,
           UNCHANGED stopped \/ UNCHANGED stored,
           NEW p \in Put,
           \A o \in Put \ {p} : /\ o \in stored <=> o \in stored'
                                /\ Settled(o) <=> Settled(o)'
                                /\ Unborn(o) <=> Unborn(o)'
    PROVE  StoreStep
<1>l. \A o \in Put : Live(o) <=> Live(o)'
  BY DEF Live
<1>1. \A o \in Put \ {p} : Phase(o)' = Phase(o)
  <2> SUFFICES ASSUME NEW o \in Put \ {p} PROVE Phase(o)' = Phase(o)
    OBVIOUS
  <2> QED
    BY <1>l, SamePhase
<1>2. AbsPhase' = [AbsPhase EXCEPT ![p] = Phase(p)']
  BY <1>1 DEF AbsPhase
<1>3. AbsPhase[p] = Phase(p)
  BY DEF AbsPhase
<1>4. \/ Phase(p)' = Phase(p)
      \/ Phase(p) = "unborn" /\ Phase(p)' \in {"uploading", "gone"}
      \/ Phase(p) = "uploading" /\ Phase(p)' = "garbage"
      \/ Phase(p) = "garbage" /\ Phase(p)' = "gone"
  <2>f. /\ Live(p)' => Phase(p)' = "live"
        /\ p \in stored' /\ Dead(p)' => Phase(p)' = "garbage"
        /\ p \in stored' /\ ~(Settled(p)') => Phase(p)' = "uploading"
        /\ p \notin stored' /\ Unborn(p)' => Phase(p)' = "unborn"
        /\ p \notin stored' /\ ~(Unborn(p)') => Phase(p)' = "gone"
    BY NextPhaseFacts
  <2>s. Settled(p) => Settled(p)'
    BY DeadStable DEF IInv
  <2>u. Unborn(p)' => Unborn(p)
    BY DEF Unborn, Effects, PutEffect, RequestEffect, Req
  <2>c. p \in stored' => p \in stored \/ (Unborn(p) /\ ~(Settled(p)'))
    BY DEF Effects, MotrEffect, Unborn, Settled
  <2>d. p \in stored => p \in stored' \/ Dead(p)
    BY DEF Effects, MotrEffect
  <2>b. Unborn(p) => p \notin stored /\ ~Settled(p)
    BY DEF IInv, UploadInv, Unborn, Settled
  <2>1. CASE Live(p)
    BY <1>l, <2>1, <2>f, PhaseFacts
  <2>2. CASE Unborn(p)
    BY <1>l, <2>2, <2>f, <2>b, <2>c, PhaseFacts
  <2>3. CASE p \in stored /\ ~Live(p) /\ ~Settled(p)
    BY <1>l, <2>3, <2>f, <2>d, PhaseFacts DEF Dead
  <2>4. CASE p \in stored /\ Dead(p)
    BY <1>l, <2>4, <2>f, <2>s, <2>u, <2>b, PhaseFacts DEF Dead
  <2>5. CASE p \notin stored /\ ~Unborn(p)
    BY <2>5, <2>f, <2>u, <2>c, PhaseFacts
  <2> QED
    BY <2>1, <2>2, <2>3, <2>4, <2>5 DEF Dead
<1> QED
  BY <1>2, <1>3, <1>4
  DEF StoreStep, AbsPhase, Store!StoreNext, Store!BeginUpload, Store!GiveUp,
      Store!Abandon, Store!Reclaim, Store!Move

\* A PUT that saves its metadata publishes its object.
LEMMA PublishRefines ==
    ASSUME IInv, IInv', NEW p \in Put, p \notin stopped, SaveMetadata(p),
           objList' # objList
    PROVE  StoreStep
<1> DEFINE n == ObjName[p]
<1>0. n \in Name /\ NoOid \notin Put
  BY ConstantAssumption DEF Req
<1>1. /\ objList' = [objList EXCEPT ![n] = p]
      /\ pc' = [pc EXCEPT ![p] = "respond"]
      /\ pc[p] = "save_object"
      /\ UNCHANGED <<stored, stopped>>
  BY DEF SaveMetadata, StartCleanup, GoTo
<1>2. Phase(p) = "uploading"
  BY <1>1, PhaseFacts DEF IInv, UploadInv, Settled
<1>3. Phase(p)' = "live"
  BY <1>0, <1>1, NextPhaseFacts DEF Live, IInv, TypeOK, MotrType
<1>4. ASSUME NEW q \in Put, q # p, q = objList[n]
      PROVE  Phase(q)' = "garbage"
  <2>1. ObjName[q] = n /\ q \in stored /\ pc[q] \notin Unsettled
    BY <1>0, <1>4 DEF IInv, LiveInv
  <2>2. pc'[q] = pc[q] /\ objList'[n] = p
    BY <1>0, <1>1, <1>4 DEF IInv, TypeOK, MotrType, RequestType, Req
  <2>3. Dead(q)'
    BY <1>4, <2>1, <2>2 DEF Dead, Live, Settled, Unsettled
  <2> QED
    BY <1>1, <2>1, <2>3, NextPhaseFacts
<1>5. ASSUME NEW q \in Put, q # p, q # objList[n]
      PROVE  Phase(q)' = Phase(q)
  <2>1. Live(q) <=> Live(q)'
    BY <1>0, <1>1, <1>5, ConstantAssumption
    DEF Live, IInv, TypeOK, MotrType, Req
  <2>2. pc'[q] = pc[q]
    BY <1>1, <1>5 DEF IInv, TypeOK, RequestType, Req
  <2> QED
    BY <1>1, <2>1, <2>2, SamePhase DEF Settled, Unborn
<1>6. AbsPhase' = [q \in Put |-> IF q = p THEN "live"
                                 ELSE IF q = objList[n] THEN "garbage"
                                 ELSE AbsPhase[q]]
  BY <1>3, <1>4, <1>5 DEF AbsPhase
<1>7. Store!Publish(p)
  BY <1>1, <1>2, <1>6 DEF Store!Publish, AbsPhase
<1> QED
  BY <1>7 DEF StoreStep, Store!StoreNext

\* A DELETE that removes the object list entry removes the live object.
LEMMA RemoveRefines ==
    ASSUME IInv, IInv', NEW d \in Delete, RemoveObjectMetadata(d),
           objList' # objList
    PROVE  StoreStep
<1> DEFINE n == ObjName[d]
<1>0. n \in Name /\ NoOid \notin Put /\ d \notin Put
  BY ConstantAssumption DEF Req
<1>1. /\ objList[n] # NoOid
      /\ objList' = [objList EXCEPT ![n] = NoOid]
      /\ UNCHANGED <<stored, stopped>>
      /\ \A q \in Put : pc'[q] = pc[q]
  BY <1>0 DEF RemoveObjectMetadata, GoTo, IInv, TypeOK, RequestType, Req
<1>2. PICK o \in Put : objList[n] = o
  BY <1>0, <1>1 DEF IInv, TypeOK, MotrType
<1>3. Phase(o)' = "garbage"
  <2>1. ObjName[o] = n /\ o \in stored /\ pc[o] \notin Unsettled
    BY <1>0, <1>1, <1>2 DEF IInv, LiveInv
  <2>2. objList'[n] = NoOid
    BY <1>0, <1>1 DEF IInv, TypeOK, MotrType
  <2>3. Dead(o)'
    BY <1>0, <1>1, <2>1, <2>2 DEF Dead, Live, Settled, Unsettled
  <2> QED
    BY <1>1, <2>1, <2>3, NextPhaseFacts
<1>4. ASSUME NEW q \in Put, q # o
      PROVE  Phase(q)' = Phase(q)
  <2>1. Live(q) <=> Live(q)'
    BY <1>0, <1>1, <1>2, <1>4, ConstantAssumption
    DEF Live, IInv, TypeOK, MotrType, Req
  <2> QED
    BY <1>1, <2>1, SamePhase DEF Settled, Unborn
<1>5. AbsPhase' = [AbsPhase EXCEPT ![objList[n]] = "garbage"]
  BY <1>2, <1>3, <1>4 DEF AbsPhase
<1>6. Store!Remove(n)
  BY <1>1, <1>5 DEF Store!Remove, AbsPhase
<1> QED
  BY <1>0, <1>6 DEF StoreStep, Store!StoreNext

\* Every step of S3PutObjectAction is one step of the abstract store or none.
LEMMA PutRefines ==
    ASSUME IInv, IInv', Effects, NEW p \in Put, p \notin stopped, PutStep(p)
    PROVE  StoreStep
<1>1. CASE objList' # objList
  <2>1. SaveMetadata(p)
    BY <1>1 DEF PutStep, FetchObjectInfo, RejectPut, CreateObject,
        AddObjectOidToProbableDeadOidList, StreamData, SaveVersionMetadata,
        SendResponse, PutClientGone, MarkOldOidForDeletion,
        AddOidForParallelLeakCheck, RemoveNewOidProbableRecord,
        DeleteOldObject, RemoveOldObjectVersionMetadata,
        RemoveOldOidProbableRecord, MarkNewOidForDeletion,
        RollbackOldOidProbableRecord, DeleteNewObject,
        RollbackNewOidProbableRecord, CleanupStep, motr
  <2> QED
    BY <1>1, <2>1, PublishRefines
<1>2. CASE objList' = objList
  <2>1. /\ \A q \in Put \ {p} : pc'[q] = pc[q]
        /\ UNCHANGED stopped
    BY PutFrame DEF IInv, Req
  <2>2. CASE DeleteOldObject(p)
    <3>1. tgt[p] \in Put /\ tgt[p] # p
      BY <2>2, ConstantAssumption DEF DeleteOldObject, IInv, TargetInv,
          HasOld, TypeOK, RequestType, Req
    <3>2. pc[p] = "delete_old" /\ pc'[p] \in {"remove_old_version", "done"}
      BY <2>2 DEF DeleteOldObject, GoTo, IInv, TypeOK, RequestType, Req
    <3>3. \A q \in Put \ {tgt[p]} : q \in stored <=> q \in stored'
      BY <2>2 DEF DeleteOldObject
    <3>4. \A q \in Put : /\ Settled(q) <=> Settled(q)'
                         /\ Unborn(q) <=> Unborn(q)'
      BY <2>1, <3>2 DEF Settled, Unborn
    <3> QED
      BY <1>2, <2>1, <3>1, <3>3, <3>4, OneMove
  <2>3. CASE ~DeleteOldObject(p)
    <3>1. \A q \in Put \ {p} : q \in stored <=> q \in stored'
      BY <2>3 DEF PutStep, FetchObjectInfo, RejectPut, CreateObject,
          AddObjectOidToProbableDeadOidList, StreamData,
          SaveVersionMetadata, SaveMetadata, SendResponse, PutClientGone,
          MarkOldOidForDeletion, AddOidForParallelLeakCheck,
          RemoveNewOidProbableRecord, RemoveOldObjectVersionMetadata,
          RemoveOldOidProbableRecord, MarkNewOidForDeletion,
          RollbackOldOidProbableRecord, DeleteNewObject,
          RollbackNewOidProbableRecord, CleanupStep, motr
    <3>2. \A q \in Put \ {p} : /\ Settled(q) <=> Settled(q)'
                               /\ Unborn(q) <=> Unborn(q)'
      BY <2>1 DEF Settled, Unborn
    <3> QED
      BY <1>2, <2>1, <3>1, <3>2, OneMove
  <2> QED
    BY <2>2, <2>3
<1> QED
  BY <1>1, <1>2

\* Every step of S3DeleteObjectAction is a step of the abstract store or none.
LEMMA DeleteRefines ==
    ASSUME IInv, IInv', Effects, NEW d \in Delete, d \notin stopped,
           DeleteStep(d)
    PROVE  StoreStep
<1>0. d \notin Put /\ d \in Req
  BY ConstantAssumption DEF Req
<1>1. CASE objList' # objList
  <2>1. RemoveObjectMetadata(d)
    BY <1>1 DEF DeleteStep, FetchObjectToDelete, RejectDelete,
        PopulateProbableDeadOidList, RemoveVersionMetadata,
        MarkOidForDeletion, DeleteObject, RemoveProbableRecord,
        DeleteClientGone, motr
  <2> QED
    BY <1>1, <2>1, RemoveRefines
<1>2. CASE objList' = objList
  <2>1. /\ \A q \in Put : pc'[q] = pc[q]
        /\ UNCHANGED stopped
    BY <1>0 DEF IInv, TypeOK, RequestType, Req, GoTo, StartRequest, Finish,
        DeleteStep, FetchObjectToDelete, RejectDelete,
        PopulateProbableDeadOidList, RemoveObjectMetadata,
        RemoveVersionMetadata, MarkOidForDeletion, DeleteObject,
        RemoveProbableRecord, DeleteClientGone
  <2>2. \A q \in Put : /\ Settled(q) <=> Settled(q)'
                       /\ Unborn(q) <=> Unborn(q)'
    BY <2>1 DEF Settled, Unborn
  <2>3. CASE UNCHANGED stored
    BY <1>2, <2>2, <2>3, NoMove
  <2>4. CASE DeleteObject(d)
    <3>1. tgt[d] \in Put
      BY <1>0, <2>4 DEF DeleteObject, IInv, TargetInv, TypeOK, RequestType
    <3>2. \A q \in Put \ {tgt[d]} : q \in stored <=> q \in stored'
      BY <2>4 DEF DeleteObject
    <3> QED
      BY <1>2, <2>1, <2>2, <3>1, <3>2, OneMove
  <2> QED
    BY <2>3, <2>4 DEF DeleteStep, FetchObjectToDelete, RejectDelete,
        PopulateProbableDeadOidList, RemoveObjectMetadata,
        RemoveVersionMetadata, MarkOidForDeletion, RemoveProbableRecord,
        DeleteClientGone, motr
<1> QED
  BY <1>1, <1>2

\* A server that stops abandons the upload of its request, or changes nothing.
LEMMA StopRefines ==
    ASSUME IInv, IInv', Effects, NEW r \in Req, ServerStops(r)
    PROVE  StoreStep
<1>1. UNCHANGED <<stored, objList, pc>> /\ stopped' = stopped \cup {r}
  BY DEF ServerStops, motr
<1>2. \A q \in Put \ {r} : /\ Settled(q) <=> Settled(q)'
                           /\ Unborn(q) <=> Unborn(q)'
  BY <1>1 DEF Settled, Unborn
<1>3. CASE r \in Put
  BY <1>1, <1>2, <1>3, OneMove
<1>4. CASE r \notin Put
  BY <1>1, <1>2, <1>4, NoMove
<1> QED
  BY <1>3, <1>4

\* Every step of background delete reclaims garbage, or changes nothing.
LEMMA BackgroundRefines ==
    ASSUME IInv, IInv', Effects, BackgroundDeleteStep
    PROVE  StoreStep
<1>1. UNCHANGED <<objList, pc, stopped>>
  BY DEF BackgroundDeleteStep, AddKvToMsgbus, Process,
      ReceiveData, GetObjectMetadata, GetVersionEntry,
      DeleteObjectFromStorage, DeleteVersionEntry, DeleteLeakRecord,
      ProcessingFails, ConsumerRestarts, motr, reqs
<1>2. \A q \in Put : /\ Settled(q) <=> Settled(q)'
                     /\ Unborn(q) <=> Unborn(q)'
  BY <1>1 DEF Settled, Unborn
<1>3. CASE UNCHANGED stored
  BY <1>1, <1>2, <1>3, NoMove
<1>4. ASSUME NEW c \in Consumer, DeleteObjectFromStorage(c)
      PROVE  StoreStep
  <2>1. \/ bd[c].oid \in Put
        \/ UNCHANGED stored
    BY <1>4 DEF DeleteObjectFromStorage, IInv, TypeOK, MotrType
  <2>2. \A q \in Put \ {bd[c].oid} : q \in stored <=> q \in stored'
    BY <1>4 DEF DeleteObjectFromStorage
  <2> QED
    BY <1>1, <1>2, <1>3, <2>1, <2>2, OneMove
<1> QED
  BY <1>3, <1>4 DEF BackgroundDeleteStep, AddKvToMsgbus, Process,
      ReceiveData, GetObjectMetadata, GetVersionEntry, DeleteVersionEntry,
      DeleteLeakRecord, ProcessingFails, ConsumerRestarts, motr

\* Every step maps to a step of the store or to none.
LEMMA NextRefines ==
    ASSUME SafeSetting, IInv, [Next]_vars
    PROVE  [Store!StoreNext]_<<objList, AbsPhase>>
<1>1. CASE UNCHANGED vars
  BY <1>1, NoMove DEF vars, motr, reqs, Settled, Unborn, StoreStep
<1>2. CASE Next
  <2>1. IInv' /\ Effects
    BY <1>2, NextInv, StepEffects
  <2> QED
    BY <1>2, <2>1, PutRefines, DeleteRefines, StopRefines, BackgroundRefines
    DEF Next, RequestStep, StoreStep
<1> QED
  BY <1>1, <1>2

\* PUT, DELETE, stopping servers and background delete together implement
\* the abstract store: an object becomes live at most once and in one step,
\* and its data goes away only when it is garbage, for good.
THEOREM LifecycleImplementsStore ==
    ASSUME SafeSetting
    PROVE  Spec => ImplementsStore
<1>1. IInv /\ [Next]_vars => [Store!StoreNext]_<<objList, AbsPhase>>
  BY NextRefines
<1> QED
  BY <1>1, InitRefines, InvariantHolds, PTL
  DEF Spec, ImplementsStore, Store!StoreSpec, AbsPhase

-----------------------------------------------------------------------------
(* Keys and their owners.                                                  *)

\* A key names the PUT that writes its record; the records about the PUT's own
\* object are told from the ones about the object it replaces.
LEMMA OwnerFacts ==
    ASSUME ZeroSize = {}
    PROVE  /\ \A k \in RecKey : KeyOwner(k) \in Put
           /\ \A k \in RecKey : IsOwn(k) =>
                 KeyOwner(k) = KeyOid(k) /\ k \in {ObjKey(KeyOid(k)), ChkKey(KeyOid(k))}
           /\ \A k \in RecKey : ~IsOwn(k) => k = OldKey(KeyOid(k), KeyOwner(k))
           /\ \A o \in Put : IsOwn(ObjKey(o)) /\ KeyOwner(ObjKey(o)) = o
           /\ \A o \in Put : IsOwn(ChkKey(o)) /\ KeyOwner(ChkKey(o)) = o
           /\ \A o, p \in Put : ~IsOwn(OldKey(o, p)) /\ KeyOwner(OldKey(o, p)) = p
           /\ \A o, p \in Put : ObjKey(o) # ChkKey(p)
<1> USE DEF KeyOwner, IsOwn, KeyOid, ObjKey, ChkKey, OldKey
<1>1. \A k \in RecKey : \/ \E o, p \in Put : k = <<"old", o, p>>
                        \/ \E o \in Put : k = <<"obj", o, o>>
                        \/ \E o \in Put : k = <<"chk", o, o>>
  BY DEF RecKey
<1>2. \A o \in Put : ChkKey(o) = <<"chk", o, o>>
  OBVIOUS
<1>3. /\ \A k \in RecKey : KeyOwner(k) \in Put
      /\ \A k \in RecKey : ~IsOwn(k) => k = OldKey(KeyOid(k), KeyOwner(k))
  BY <1>1
<1>4. \A k \in RecKey : IsOwn(k) =>
        KeyOwner(k) = KeyOid(k) /\ k \in {ObjKey(KeyOid(k)), ChkKey(KeyOid(k))}
  BY <1>1, <1>2
<1> QED
  BY <1>2, <1>3, <1>4

-----------------------------------------------------------------------------
(***************************************************************************)
(* What a step can do to records and to those who depend on them.          *)
(***************************************************************************)

\* A PUT writes records about its own object and about the one it replaces.
Written(k) ==
    /\ \E f \in BOOLEAN : pdi'[k] = NewRecord(f)
    /\ KeyOwner(k) \in Running
    /\ IsOwn(k) \/ tgt[KeyOwner(k)] = KeyOid(k)

\* A record goes when its object is gone or named by somebody else, or when
\* the PUT that wrote it has not replaced the object.
Dropped(k) ==
    /\ pdi'[k] = NoRec
    /\ k = ChkKey(KeyOid(k)) => Ended(KeyOwner(k))
    /\ ~IsOwn(k) => ~Publishing(KeyOwner(k))
    /\ \/ KeyOid(k) \notin stored'
       \/ IsOwn(k) /\ InOtherHands(KeyOid(k))
       \/ ~IsOwn(k) /\ ~Published(KeyOwner(k))
       \/ k = ObjKey(KeyOid(k)) /\ Published(KeyOid(k)) /\ pdi'[ChkKey(KeyOid(k))] # NoRec

RecordEffect == \A k \in RecKey : pdi'[k] = pdi[k] \/ Written(k) \/ Dropped(k)

\* The object list changes only when a PUT publishes its object.
PublishEffect ==
    \A n \in Name :
        \/ objList'[n] = objList[n]
        \/ \E p \in Put : /\ Publishing(p) /\ ObjName[p] = n /\ objList'[n] = p
                          /\ Published(p)'

\* A PUT reads its target when it starts.
Starts(p) ==
    /\ pc[p] = "idle" /\ tgt'[p] = objList[ObjName[p]] /\ overlap'[p] = Running

\* How a PUT moves.
StageEffect(p) ==
    /\ UNCHANGED <<tgt[p], overlap[p]>> \/ Starts(p)
    /\ Publishing(p)' => Publishing(p) \/ Starts(p)
    /\ Ended(p) => Ended(p)'
    /\ Published(p) => Published(p)'
    /\ Published(p)' => Published(p) \/ (Publishing(p) /\ objList'[ObjName[p]] = p
                                           /\ pc[p] = "save_object")
    /\ pc'[p] \in OldCleanup => Published(p)'
    /\ Published(p)' => pc'[p] \in OldCleanup \cup {"done"}

\* What a PUT has done before it goes on.
NamedEffect(p) ==
    /\ Unrecorded(p) => Unrecorded(p)' \/ pdi'[ObjKey(p)] # NoRec
    /\ p \in stored' => p \in stored \/ Unrecorded(p)'
    /\ pc'[p] = "remove_new" /\ p \notin stopped' =>
          (pc[p] = "remove_new" /\ p \notin stopped) \/ pdi'[ChkKey(p)] # NoRec
    /\ pc'[p] \in {"stream", "save_version", "save_object"} /\ p \notin stopped' =>
          /\ UNCHANGED tgt[p]
          /\ \/ pc[p] \in {"stream", "save_version", "save_object"} /\ p \notin stopped
             \/ HasOld(p) => pdi'[OldKey(tgt[p], p)] # NoRec
    /\ pc'[p] \in {"remove_old_version", "remove_old"} =>
          /\ UNCHANGED tgt[p]
          /\ pc[p] \in {"remove_old_version", "remove_old"} \/ tgt[p] \notin stored'
    /\ pc'[p] = "rollback_new" => pc[p] = "rollback_new" \/ p \notin stored'
    /\ st'[p] = "probableEntryRecordFailed" => pc'[p] = "done"

\* What enters the message bus and the consumers.
QueueEffect ==
    /\ \A m \in queue' :
          \/ m \in queue
          \/ m.key \in RecKey /\ Named(m.key) /\ Aged(m.key)
          \/ \E c \in Consumer : bd[c].pc # "idle" /\ m = bd[c].msg
    /\ \A c \in Consumer :
          \/ bd'[c].pc = "idle"
          \/ UNCHANGED bd[c]
          \/ bd'[c].msg \in queue /\ bd'[c].pc \in {"get_version", "get_metadata"}
          \/ /\ bd[c].pc # "idle" /\ bd'[c].msg = bd[c].msg
             /\ bd'[c].pc = "delete_version" => LeakOid(c) \notin stored'
             /\ bd'[c].pc = "delete_record" =>
                   \/ bd[c].pc = "delete_version"
                   \/ Live(LeakOid(c))

LeakEffects ==
    /\ RecordEffect /\ PublishEffect /\ QueueEffect
    /\ \A p \in Put : StageEffect(p) /\ NamedEffect(p)

-----------------------------------------------------------------------------
(***************************************************************************)
(* The parts of the invariant are preserved by any step with such effects. *)
(***************************************************************************)

\* A PUT that may still publish is not settled, and one that has published is.
LEMMA StageFacts ==
    ASSUME IInv, PublishedInv, NEW p \in Put
    PROVE  /\ Publishing(p) => ~Settled(p) /\ ~Published(p) /\ InFlight(p)
           /\ Published(p) => Settled(p) /\ pc[p] # "idle"
           /\ Settled(p) => pc[p] # "idle" \/ p \in stopped
BY DEF Publishing, Settled, Published, PublishedInv, InFlight, OldCleanup, Unsettled

\* Once an object can no longer become live, either all who may replace it
\* know of it, or it is dead; and that stays so.
LEMMA AwareStable ==
    ASSUME LeakSetting, LeakIInv, Effects, LeakEffects, TypeOK',
           NEW o \in Put, Settled(o), Aware(o) \/ Dead(o)
    PROVE  Aware(o)' \/ Dead(o)'
<1>1. IInv /\ PublishedInv /\ (Dead(o) => Dead(o)') /\ Settled(o)'
  BY DeadStable DEF LeakIInv, LeakInv
<1>2. SUFFICES ASSUME Live(o), Aware(o), Live(o)' PROVE Aware(o)'
  BY <1>1 DEF Dead
<1>3. SUFFICES ASSUME NEW r \in Put, Publishing(r)', ObjName[r] = ObjName[o], r # o
               PROVE  tgt'[r] = o
  BY DEF Aware
<1>4. CASE Starts(r)
  BY <1>2, <1>3, <1>4 DEF Starts, Live
<1>5. CASE ~Starts(r)
  BY <1>2, <1>3, <1>5 DEF Aware, LeakEffects, StageEffect
<1> QED
  BY <1>4, <1>5

\* An object that others name stays in their hands.
LEMMA HandsStable ==
    ASSUME LeakSetting, LeakIInv, Effects, LeakEffects, TypeOK',
           NEW o \in Put, InOtherHands(o)
    PROVE  InOtherHands(o)'
<1>1. IInv /\ PublishedInv
  BY DEF LeakIInv, LeakInv
<1>2. CASE \E p \in Put : Published(p) /\ tgt[p] = o
  <2>1. PICK p \in Put : Published(p) /\ tgt[p] = o
    BY <1>2
  <2>2. pc[p] # "idle"
    BY <1>1, <2>1, StageFacts
  <2>3. Published(p)' /\ tgt'[p] = o
    BY <2>1, <2>2 DEF LeakEffects, StageEffect, Starts
  <2> QED
    BY <2>3 DEF InOtherHands
<1>3. CASE Live(o) /\ Aware(o)
  <2>1. Settled(o)
    BY <1>1, <1>3, StageFacts DEF PublishedInv
  <2>2. CASE Live(o)'
    <3>1. Aware(o)'
      BY <1>3, <2>1, <2>2, AwareStable DEF Dead
    <3> QED
      BY <2>2, <3>1 DEF InOtherHands
  <2>3. CASE ~Live(o)'
    <3>1. ObjName[o] \in Name
      BY ConstantAssumption DEF Req
    <3>2. PICK p \in Put : /\ Publishing(p) /\ ObjName[p] = ObjName[o]
                           /\ objList'[ObjName[o]] = p /\ Published(p)'
      BY <1>3, <2>3, <3>1 DEF LeakEffects, PublishEffect, Live
    <3>3. tgt[p] = o
      BY <1>3, <2>3, <3>2 DEF Aware, Live
    <3>4. pc[p] # "idle"
      BY <3>2 DEF Publishing
    <3>5. tgt'[p] = o
      BY <3>3, <3>4 DEF LeakEffects, StageEffect, Starts
    <3> QED
      BY <3>2, <3>5 DEF InOtherHands
  <2> QED
    BY <2>2, <2>3
<1> QED
  BY <1>2, <1>3 DEF InOtherHands

\* Who is live or was replaced has been published.
LEMMA PublishedPreserved ==
    ASSUME LeakSetting, LeakIInv, Effects, LeakEffects, TypeOK'
    PROVE  PublishedInv'
<1>1. IInv /\ PublishedInv
  BY DEF LeakIInv, LeakInv
<1> SUFFICES ASSUME NEW p \in Put
             PROVE  /\ Live(p)' => Published(p)'
                    /\ HasOld(p)' => Published(tgt[p])'
                    /\ HasOld(p)' /\ Published(p)' => ~Live(tgt[p])'
  BY DEF PublishedInv, LeakEffects, StageEffect
<1>2. ObjName[p] \in Name /\ p # NoOid
  BY ConstantAssumption DEF Req
<1>3. Live(p)' => Published(p)'
  BY <1>1, <1>2 DEF Live, PublishedInv, LeakEffects, PublishEffect, StageEffect
<1>4. ASSUME HasOld(p)'
      PROVE  /\ tgt'[p] \in Put /\ Published(tgt'[p])
             /\ UNCHANGED tgt[p] \/ ~Published(p)'
  <2>1. tgt'[p] \in Put
    BY <1>4 DEF HasOld, TypeOK, RequestType, Req
  <2>2. CASE UNCHANGED tgt[p]
    BY <1>1, <1>4, <2>1, <2>2 DEF HasOld, PublishedInv
  <2>3. CASE Starts(p)
    <3>1. objList[ObjName[tgt'[p]]] = tgt'[p]
      BY <1>1, <1>2, <1>4, <2>1, <2>3 DEF Starts, HasOld, IInv, LiveInv
    <3>2. ~Published(p)'
      BY <1>1, <2>3, StageFacts DEF Starts, LeakEffects, StageEffect
    <3> QED
      BY <1>1, <2>1, <3>1, <3>2 DEF PublishedInv, Live
  <2> QED
    BY <2>2, <2>3 DEF LeakEffects, StageEffect
<1>5. ASSUME HasOld(p)', Published(p)', Live(tgt[p])'
      PROVE  FALSE
  <2>1. tgt'[p] = tgt[p] /\ tgt[p] \in Put /\ Published(tgt[p]) /\ HasOld(p)
    BY <1>4, <1>5 DEF HasOld
  <2>2. Live(tgt[p])
    <3>1. Settled(tgt[p]) /\ (Dead(tgt[p]) => Dead(tgt[p])')
      BY <1>1, <2>1, StageFacts, DeadStable
    <3> QED
      BY <1>5, <2>1, <3>1 DEF Dead
  <2>3. ~Published(p)
    BY <1>1, <2>1, <2>2 DEF PublishedInv
  <2>4. objList'[ObjName[p]] = p
    BY <1>5, <2>3 DEF LeakEffects, StageEffect
  <2>5. ObjName[tgt[p]] = ObjName[p] /\ tgt[p] # p
    BY <1>1, <2>1 DEF IInv, TargetInv, HasOld, Req
  <2> QED
    BY <1>5, <2>1, <2>4, <2>5 DEF Live
<1> QED
  BY <1>3, <1>4, <1>5, StageFacts DEF LeakEffects, StageEffect

\* The owner of a key that is named, sent or worked on has started, so its
\* target stays.
LEMMA TargetStays ==
    ASSUME LeakIInv, LeakEffects, NEW p \in Put, pc[p] # "idle"
    PROVE  tgt'[p] = tgt[p]
BY DEF LeakEffects, StageEffect, Starts

LEMMA OwnerPreserved ==
    ASSUME LeakSetting, LeakIInv, Effects, LeakEffects, TypeOK'
    PROVE  OwnerInv'
<1>1. IInv /\ OwnerInv /\ ZeroSize = {} /\ DelayCovers >= 1
  BY DEF LeakIInv, LeakInv, LeakSetting, SafeSetting
<1> DEFINE Good(k) == IsOwn(k) \/ tgt[KeyOwner(k)] = KeyOid(k)
<1>3. ASSUME NEW k \in RecKey, Named(k)
      PROVE  /\ KeyOwner(k) \in pdi[k].since /\ KeyOwner(k) \in Put
             /\ pc[KeyOwner(k)] # "idle" /\ Good(k)
  BY <1>1, <1>3, OwnerFacts DEF OwnerInv, IInv, RecordInv, Named
<1>4. ASSUME NEW k \in RecKey, Named(k)'
      PROVE  KeyOwner(k) \in pdi'[k].since /\ Good(k)'
  <2>1. CASE pdi'[k] = pdi[k]
    BY <1>3, <1>4, <2>1, TargetStays DEF Named
  <2>2. CASE Written(k)
    <3>1. KeyOwner(k) \in Put /\ pc[KeyOwner(k)] # "idle"
      BY <1>1, <2>2, OwnerFacts DEF Written, Running, InFlight
    <3> QED
      BY <2>2, <3>1, TargetStays DEF Written, NewRecord
  <2>3. CASE Dropped(k)
    BY <1>4, <2>3 DEF Named, Dropped
  <2> QED
    BY <2>1, <2>2, <2>3 DEF LeakEffects, RecordEffect
<1> DEFINE Late(k) == k \in RecKey /\ Ended(KeyOwner(k)) /\ Good(k)
           Later(k) == /\ \/ pc'[KeyOwner(k)] = "done"
                          \/ KeyOwner(k) \in stopped' /\ pc'[KeyOwner(k)] # "idle"
                       /\ IsOwn(k) \/ tgt'[KeyOwner(k)] = KeyOid(k)
<1>5. \A k : Late(k) => Later(k)
  <2> SUFFICES ASSUME NEW k, Late(k) PROVE Later(k)
    OBVIOUS
  <2>1. KeyOwner(k) \in Put
    BY <1>1, OwnerFacts
  <2> QED
    BY <2>1, TargetStays DEF Ended, LeakEffects, StageEffect
<1>6. \A m \in queue : Late(m.key)
  BY <1>1 DEF OwnerInv, IInv, TypeOK, BackgroundType, Message
<1>7. \A c \in Consumer : bd[c].pc # "idle" => Late(bd[c].msg.key)
  BY <1>1 DEF OwnerInv, IInv, TypeOK, BackgroundType, Message, Worker, IdleWorker
<1>8. ASSUME NEW k \in RecKey, Named(k), Aged(k)
      PROVE  Late(k)
  <2>1. KeyOwner(k) \in Put /\ KeyOwner(k) \notin Running /\ pc[KeyOwner(k)] # "idle" /\ Good(k)
    BY <1>1, <1>3, <1>8 DEF Aged
  <2> QED
    BY <2>1 DEF Running, InFlight, Ended, Req
<1>9. \A m \in queue' : Late(m.key)
  BY <1>6, <1>7, <1>8 DEF LeakEffects, QueueEffect
<1>10. ASSUME NEW c \in Consumer, bd'[c].pc # "idle"
       PROVE  Late(bd'[c].msg.key)
  <2> HIDE DEF Late
  <2> QED
    BY <1>6, <1>7, <1>10 DEF LeakEffects, QueueEffect
<1> HIDE DEF Late
<1>11. /\ \A m \in queue' : Later(m.key)
       /\ \A c \in Consumer : bd'[c].pc # "idle" => Later(bd'[c].msg.key)
  BY <1>5, <1>9, <1>10
<1> QED
  BY <1>4, <1>11 DEF OwnerInv, Ended, Named

\* A PUT that does not know of an object overlaps with the object's own PUT.
LEMMA YoungPreserved ==
    ASSUME LeakSetting, LeakIInv, Effects, LeakEffects, TypeOK'
    PROVE  YoungInv'
<1>1. IInv /\ OwnerInv /\ YoungInv /\ PublishedInv /\ ZeroSize = {}
  BY DEF LeakIInv, LeakInv, LeakSetting
<1> SUFFICES ASSUME NEW k \in RecKey, NEW r \in Put, NEW o \in Put, o = KeyOid(k),
                    Named(k)', IsOwn(k), Publishing(r)', ObjName[r] = ObjName[o], r # o
             PROVE  \/ o \in overlap'[r] \/ r \in pdi'[k].since
                    \/ tgt'[r] = o \/ Dead(o)'
  BY KeyFacts DEF YoungInv
<1>2. Dead(o) => Dead(o)'
  BY <1>1, DeadStable
<1>3. KeyOwner(k) = o
  BY <1>1, OwnerFacts
<1>4. CASE Written(k)
  <2>1. Publishing(r) => r \in Running
    BY DEF Publishing, Running, InFlight, Req
  <2>2. CASE Publishing(r)
    BY <1>4, <2>1, <2>2 DEF Written, NewRecord
  <2>3. CASE Starts(r)
    BY <1>3, <1>4, <2>3 DEF Starts, Written
  <2> QED
    BY <2>2, <2>3 DEF LeakEffects, StageEffect
<1>5. CASE pdi'[k] = pdi[k]
  <2>1. CASE Starts(r)
    <3>1. o \in pdi[k].since /\ pc[o] # "idle"
      BY <1>1, <1>3, <1>5 DEF OwnerInv, Named, IInv, RecordInv
    <3>2. CASE o \in Running
      BY <2>1, <3>2 DEF Starts
    <3>3. CASE o \notin Running
      <4>1. Settled(o)
        BY <3>1, <3>3 DEF Settled, Running, InFlight, Req
      <4> QED
        BY <1>2, <2>1, <4>1 DEF Starts, Dead, Live
    <3> QED
      BY <3>2, <3>3
  <2>2. CASE ~Starts(r)
    <3>1. Publishing(r) /\ overlap'[r] = overlap[r] /\ tgt'[r] = tgt[r]
      BY <2>2 DEF LeakEffects, StageEffect
    <3> QED
      BY <1>1, <1>2, <1>5, <3>1 DEF YoungInv, Named
  <2> QED
    BY <2>1, <2>2
<1> QED
  BY <1>4, <1>5 DEF LeakEffects, RecordEffect, Dropped, Named

\* What is gone and settled stays gone, and a PUT that has ended without
\* publishing its object never publishes it.
LEMMA EndedStable ==
    ASSUME LeakIInv, Effects, LeakEffects, NEW o \in Put
    PROVE  /\ Settled(o) /\ o \notin stored => o \notin stored'
           /\ Ended(o) /\ ~Published(o) => ~Published(o)'
<1>1. Settled(o) /\ o \notin stored => o \notin stored'
  BY DEF Effects, MotrEffect, Settled
<1>2. Ended(o) => ~Publishing(o)
  BY DEF Ended, Publishing
<1> QED
  BY <1>1, <1>2 DEF LeakEffects, StageEffect

\* A record that is old enough has no PUT left that could replace its object
\* without knowing of it.
LEMMA AgedIsKnown ==
    ASSUME LeakSetting, LeakIInv, NEW k \in RecKey, Named(k), Aged(k), IsOwn(k)
    PROVE  Settled(KeyOid(k)) /\ (Aware(KeyOid(k)) \/ Dead(KeyOid(k)))
<1> DEFINE o == KeyOid(k)
<1>1. o \in Put /\ KeyOwner(k) = o /\ o \in pdi[k].since /\ pc[o] # "idle"
  BY OwnerFacts, KeyFacts
  DEF LeakIInv, LeakInv, LeakSetting, OwnerInv, IInv, RecordInv, Named
<1> HIDE DEF o
<1>2. \A r \in Running : r \notin pdi[k].since /\ overlap[r] \cap pdi[k].since = {}
  BY DEF Aged, LeakSetting
<1>3. Settled(o)
  BY <1>1, <1>2 DEF Settled, Running, InFlight, Req
<1>4. ASSUME ~Dead(o), NEW r \in Put, Publishing(r), ObjName[r] = ObjName[o], r # o
      PROVE  tgt[r] = o
  <2>1. r \in Running
    BY <1>4 DEF Publishing, Running, InFlight, Req
  <2> QED
    BY <1>1, <1>2, <1>4, <2>1 DEF LeakIInv, LeakInv, YoungInv, o
<1> QED
  BY <1>3, <1>4 DEF Aware, o

\* Background delete keeps what it has found out.
LEMMA HandsPreserved ==
    ASSUME LeakSetting, LeakIInv, Effects, LeakEffects, TypeOK'
    PROVE  HandsInv'
<1>1. IInv /\ PublishedInv /\ OwnerInv /\ HandsInv /\ ZeroSize = {}
  BY DEF LeakIInv, LeakInv, LeakSetting
<1> DEFINE Known(k) ==
      k \in RecKey /\ (IsOwn(k) => Settled(KeyOid(k)) /\ (Aware(KeyOid(k)) \/ Dead(KeyOid(k))))
<1>2. \A m \in queue : Known(m.key)
  BY <1>1 DEF HandsInv, IInv, QueueInv, TypeOK, BackgroundType, Message
<1>3. ASSUME NEW c \in Consumer, bd[c].pc # "idle"
      PROVE  Known(bd[c].msg.key) /\ Settled(KeyOid(bd[c].msg.key))
  BY <1>1, <1>3 DEF HandsInv, IInv, QueueInv, TypeOK, BackgroundType, Message, Worker,
     IdleWorker, LeakOid
<1>4. ASSUME NEW k, Known(k), IsOwn(k)
      PROVE  Aware(KeyOid(k))' \/ Dead(KeyOid(k))'
  <2>1. KeyOid(k) \in Put
    BY <1>4, KeyFacts
  <2> QED
    BY <1>4, <2>1, AwareStable
<1>5. ASSUME NEW m \in queue', IsOwn(m.key)
      PROVE  Aware(KeyOid(m.key))' \/ Dead(KeyOid(m.key))'
  <2>1. Known(m.key)
    BY <1>2, <1>3, AgedIsKnown DEF LeakEffects, QueueEffect
  <2> QED
    BY <1>4, <1>5, <2>1
<1>6. ASSUME NEW c \in Consumer, NEW k, NEW o, k = bd'[c].msg.key, o = KeyOid(k),
             bd'[c].pc # "idle"
      PROVE  /\ IsOwn(k) => Aware(o)' \/ Dead(o)'
             /\ bd'[c].pc = "delete_version" => o \notin stored'
             /\ bd'[c].pc = "delete_record" =>
                   \/ o \notin stored'
                   \/ IsOwn(k) /\ InOtherHands(o)'
                   \/ ~IsOwn(k) /\ ~Published(KeyOwner(k))'
  <2>1. CASE bd'[c].msg \in queue /\ bd'[c].pc \in {"get_version", "get_metadata"}
    BY <1>2, <1>4, <1>6, <2>1
  <2>2. CASE bd[c].pc # "idle" /\ bd'[c].msg = bd[c].msg
    <3>1. k = bd[c].msg.key /\ Known(k) /\ k \in RecKey /\ Settled(o) /\ LeakOid(c) = o
      BY <1>3, <1>6, <2>2 DEF LeakOid
    <3>2. o \in Put /\ KeyOwner(k) \in Put
      BY <1>1, <1>6, <3>1, KeyFacts, OwnerFacts
    <3>3. Ended(KeyOwner(k)) /\ (IsOwn(k) \/ tgt[KeyOwner(k)] = o)
      BY <1>1, <1>6, <2>2, <3>1 DEF OwnerInv
    <3>4. IsOwn(k) => Aware(o)' \/ Dead(o)'
      BY <1>4, <1>6, <3>1
    <3>5. /\ o \notin stored => o \notin stored'
          /\ ~Published(KeyOwner(k)) => ~Published(KeyOwner(k))'
          /\ InOtherHands(o) => InOtherHands(o)'
      BY <3>1, <3>2, <3>3, EndedStable, HandsStable
    <3>6. /\ bd[c].pc = "delete_version" => o \notin stored
          /\ bd[c].pc = "delete_record" =>
                   \/ o \notin stored
                   \/ IsOwn(k) /\ InOtherHands(o)
                   \/ ~IsOwn(k) /\ ~Published(KeyOwner(k))
      BY <1>1, <2>2, <3>1 DEF HandsInv
    <3>7. Live(o) => \/ IsOwn(k) /\ InOtherHands(o)
                     \/ ~IsOwn(k) /\ ~Published(KeyOwner(k))
      <4>1. IsOwn(k) /\ Live(o) => InOtherHands(o)
        BY <1>6, <3>1 DEF InOtherHands, Dead
      <4>2. ~IsOwn(k) /\ Live(o) => ~Published(KeyOwner(k))
        BY <1>1, <3>2, <3>3, ConstantAssumption DEF PublishedInv, HasOld
      <4> QED
        BY <4>1, <4>2
    <3>8. CASE UNCHANGED bd[c]
      BY <3>4, <3>5, <3>6, <3>8
    <3>9. CASE /\ bd'[c].pc = "delete_version" => LeakOid(c) \notin stored'
               /\ bd'[c].pc = "delete_record" =>
                     bd[c].pc = "delete_version" \/ Live(LeakOid(c))
      BY <3>1, <3>4, <3>5, <3>6, <3>7, <3>9
    <3> QED
      BY <1>6, <2>1, <2>2, <3>8, <3>9 DEF LeakEffects, QueueEffect
  <2> QED
    BY <1>6, <2>1, <2>2 DEF LeakEffects, QueueEffect
<1>7. ASSUME NEW c \in Consumer, bd'[c].pc # "idle"
      PROVE  LET k == bd'[c].msg.key
             IN  /\ IsOwn(k) => Aware(LeakOid(c))' \/ Dead(LeakOid(c))'
                 /\ bd'[c].pc = "delete_version" => LeakOid(c)' \notin stored'
                 /\ bd'[c].pc = "delete_record" =>
                       \/ LeakOid(c)' \notin stored'
                       \/ IsOwn(k) /\ InOtherHands(LeakOid(c))'
                       \/ ~IsOwn(k) /\ st'[KeyOwner(k)] \notin {"metadataSaved", "completed"}
  <2>1. PICK k : k = bd'[c].msg.key
    OBVIOUS
  <2>2. PICK o : o = KeyOid(k)
    OBVIOUS
  <2>3. LeakOid(c)' = o
    BY <2>1, <2>2 DEF LeakOid
  <2>4. /\ Aware(LeakOid(c))' <=> Aware(o)'
        /\ Dead(LeakOid(c))' <=> Dead(o)'
        /\ InOtherHands(LeakOid(c))' <=> InOtherHands(o)'
    BY <2>3 DEF Aware, Dead, Live, Settled, InOtherHands
  <2> QED
    BY <1>6, <1>7, <2>1, <2>2, <2>3, <2>4 DEF Published
<1> QED
  BY <1>5, <1>7 DEF HandsInv, Published

\* An object in other hands has been published.
LEMMA HandsArePublished ==
    ASSUME PublishedInv, TypeOK, NEW o \in Put, InOtherHands(o)
    PROVE  Published(o)
BY ConstantAssumption DEF InOtherHands, PublishedInv, HasOld

\* A record stays, unless it is dropped.
LEMMA RecordStays ==
    ASSUME RecordEffect, NEW k \in RecKey, Named(k), ~Named(k)'
    PROVE  Dropped(k)
BY NewRecordType, ConstantAssumption DEF RecordEffect, Named, Written, Record

\* Every object keeps its name.
LEMMA NamedPreserved ==
    ASSUME LeakSetting, LeakIInv, Effects, LeakEffects, TypeOK'
    PROVE  NamedInv'
<1>1. IInv /\ PublishedInv /\ NamedInv /\ ZeroSize = {} /\ TypeOK
  BY DEF LeakIInv, LeakInv, LeakSetting, IInv
<1>2. SUFFICES ASSUME NEW p \in Put
               PROVE  /\ p \in stored' /\ ~Published(p)' => Unrecorded(p)' \/ Named(ObjKey(p))'
                      /\ p \in stored' /\ Published(p)' =>
                            Named(ObjKey(p))' \/ Named(ChkKey(p))' \/ InOtherHands(p)'
                      /\ pc'[p] = "remove_new" /\ p \notin stopped' => Named(ChkKey(p))'
                      /\ HasOld(p)' /\ p \notin stopped'
                           /\ pc'[p] \in {"stream", "save_version", "save_object"} =>
                            Named(OldKey(tgt[p], p))'
                      /\ HasOld(p)' /\ Published(p)' /\ tgt'[p] \in stored' =>
                            Named(OldKey(tgt[p], p))'
                      /\ pc'[p] \in {"remove_old_version", "remove_old"} => tgt'[p] \notin stored'
                      /\ pc'[p] = "rollback_new" => p \notin stored'
                      /\ st'[p] = "probableEntryRecordFailed" => pc'[p] = "done"
  BY DEF NamedInv
<1>3. /\ RecordEffect /\ StageEffect(p) /\ NamedEffect(p)
      /\ ObjKey(p) \in RecKey /\ ChkKey(p) \in RecKey /\ ObjKey(p) # ChkKey(p)
      /\ KeyOid(ObjKey(p)) = p /\ KeyOid(ChkKey(p)) = p
      /\ IsOwn(ObjKey(p)) /\ IsOwn(ChkKey(p))
      /\ KeyOwner(ObjKey(p)) = p /\ KeyOwner(ChkKey(p)) = p
  BY <1>1, KeyFacts, OwnerFacts DEF LeakEffects
<1>4. Published(p)' => ~Unrecorded(p)'
  BY <1>3 DEF StageEffect, Published, Unrecorded, OldCleanup
<1>5. InOtherHands(p) => Published(p) /\ InOtherHands(p)'
  BY <1>1, HandsArePublished, HandsStable
<1>6. p \in stored' =>
         \/ Unrecorded(p)'
         \/ Named(ObjKey(p))'
         \/ Published(p) /\ (Named(ChkKey(p))' \/ InOtherHands(p)')
  <2>1. CASE p \notin stored
    BY <1>3, <2>1 DEF NamedEffect
  <2>2. CASE Unrecorded(p)
    BY <1>3, <2>2 DEF NamedEffect, Named
  <2>3. ASSUME p \in stored', Named(ObjKey(p)), ~Named(ObjKey(p))'
        PROVE  Published(p) /\ (Named(ChkKey(p))' \/ InOtherHands(p)')
    <3>1. Dropped(ObjKey(p))
      BY <1>3, <2>3, RecordStays
    <3> QED
      BY <1>3, <1>5, <2>3, <3>1 DEF Dropped, Named
  <2>4. ASSUME p \in stored', Named(ChkKey(p)), ~Named(ChkKey(p))'
        PROVE  InOtherHands(p)'
    <3>1. Dropped(ChkKey(p))
      BY <1>3, <2>4, RecordStays
    <3> QED
      BY <1>3, <1>5, <2>4, <3>1 DEF Dropped
  <2>5. CASE p \in stored /\ ~Published(p) /\ Named(ObjKey(p))
    BY <2>3, <2>5
  <2>6. CASE p \in stored /\ Published(p)
    BY <1>1, <1>5, <2>3, <2>4, <2>6 DEF NamedInv
  <2> QED
    BY <1>1, <2>1, <2>2, <2>5, <2>6 DEF NamedInv
<1>7. ASSUME pc'[p] = "remove_new", p \notin stopped'
      PROVE  Named(ChkKey(p))'
  <2>1. SUFFICES ASSUME pc[p] = "remove_new", p \notin stopped, ~Named(ChkKey(p))' PROVE FALSE
    BY <1>3, <1>7 DEF NamedEffect, Named
  <2>2. Dropped(ChkKey(p))
    BY <1>1, <1>3, <2>1, RecordStays DEF NamedInv
  <2> QED
    BY <1>3, <2>1, <2>2 DEF Dropped, Ended
<1>8. ASSUME HasOld(p), tgt'[p] = tgt[p], Named(OldKey(tgt[p], p)),
             \/ Publishing(p)
             \/ Published(p) /\ tgt[p] \in stored'
      PROVE  Named(OldKey(tgt[p], p))'
  <2>1. PICK k : k = OldKey(tgt[p], p)
    OBVIOUS
  <2>2. tgt[p] \in Put
    BY <1>1, <1>8 DEF HasOld, TypeOK, RequestType, Req
  <2>3. k \in RecKey /\ KeyOid(k) = tgt[p] /\ KeyOwner(k) = p /\ ~IsOwn(k)
    BY <1>1, <2>1, <2>2, KeyFacts, OwnerFacts
  <2>4. ~Dropped(k)
    BY <1>1, <1>8, <2>2, <2>3, OwnerFacts, StageFacts DEF Dropped
  <2>5. Named(k)'
    BY <1>3, <1>8, <2>1, <2>3, <2>4, RecordStays
  <2> QED
    BY <1>8, <2>1, <2>5 DEF Named, OldKey
<1>9. ASSUME HasOld(p)', p \notin stopped',
             pc'[p] \in {"stream", "save_version", "save_object"}
      PROVE  Named(OldKey(tgt[p], p))'
  <2>1. tgt'[p] = tgt[p] /\ HasOld(p)
    BY <1>3, <1>9 DEF NamedEffect, HasOld
  <2>2. CASE pdi'[OldKey(tgt[p], p)] # NoRec
    BY <2>1, <2>2 DEF Named, OldKey
  <2>3. CASE pc[p] \in {"stream", "save_version", "save_object"} /\ p \notin stopped
    <3>1. Named(OldKey(tgt[p], p)) /\ Publishing(p)
      BY <1>1, <2>1, <2>3 DEF NamedInv, Publishing
    <3> QED
      BY <1>8, <2>1, <3>1
  <2> QED
    BY <1>3, <1>9, <2>1, <2>2, <2>3 DEF NamedEffect
<1>10. HasOld(p) => tgt[p] \in Put /\ Settled(tgt[p])
  BY <1>1 DEF HasOld, IInv, TargetInv, TypeOK, RequestType, Req
<1>11. ASSUME HasOld(p)', Published(p)', tgt'[p] \in stored'
       PROVE  Named(OldKey(tgt[p], p))'
  <2>1. tgt'[p] = tgt[p] /\ HasOld(p)
    BY <1>1, <1>3, <1>11, StageFacts DEF StageEffect, Starts, HasOld, Publishing
  <2>2. tgt[p] \in stored
    BY <1>10, <1>11, <2>1, EndedStable
  <2>3. CASE Published(p)
    BY <1>1, <1>8, <1>11, <2>1, <2>2, <2>3 DEF NamedInv
  <2>4. CASE ~Published(p)
    <3>1. Publishing(p) /\ pc[p] = "save_object"
      BY <1>3, <1>11, <2>4 DEF StageEffect
    <3>2. Named(OldKey(tgt[p], p))
      BY <1>1, <2>1, <3>1 DEF NamedInv, Publishing
    <3> QED
      BY <1>8, <2>1, <3>1, <3>2
  <2> QED
    BY <2>3, <2>4
<1>12. ASSUME pc'[p] \in {"remove_old_version", "remove_old"}
       PROVE  tgt'[p] \notin stored'
  <2>1. tgt[p] \notin stored => tgt[p] \notin stored'
    BY <1>10, EndedStable, ConstantAssumption DEF TypeOK, MotrType, HasOld
  <2> QED
    BY <1>1, <1>3, <1>12, <2>1 DEF NamedEffect, NamedInv
<1>13. ASSUME pc'[p] = "rollback_new"
       PROVE  p \notin stored'
  <2>1. pc[p] = "rollback_new" => Settled(p)
    BY DEF Settled
  <2> QED
    BY <1>1, <1>3, <1>13, <2>1, EndedStable DEF NamedEffect, NamedInv
<1>14. Published(p) => Published(p)'
  BY <1>3 DEF StageEffect
<1> QED
  BY <1>3, <1>4, <1>6, <1>7, <1>9, <1>11, <1>12, <1>13, <1>14 DEF NamedEffect

-----------------------------------------------------------------------------
(* Every action has these effects.                                         *)

\* A PUT that does not move, and whose object is not created, has no effect.
LEMMA QuietPut ==
    ASSUME PublishedInv, NamedInv, NEW q \in Put,
           UNCHANGED <<pc[q], st[q], tgt[q], overlap[q]>>,
           stopped \subseteq stopped', q \in stored' => q \in stored
    PROVE  StageEffect(q) /\ NamedEffect(q)
<1>1. StageEffect(q)
  BY DEF StageEffect, Publishing, Ended, Published, PublishedInv
<1>2. NamedEffect(q)
  BY DEF NamedEffect, Unrecorded, NamedInv
<1> QED
  BY <1>1, <1>2

\* A PUT leaves the objects and the start of others alone.
LEMMA PutLeakFrame ==
    ASSUME TypeOK, NEW p \in Put, PutStep(p), NEW q \in Put, q # p
    PROVE  UNCHANGED overlap[q] /\ (q \in stored' => q \in stored)
<1> USE DEF TypeOK, RequestType, Req, StartCleanup, StartRequest, CleanupStep, motr
<1> QED
  BY DEF PutStep, FetchObjectInfo, RejectPut, CreateObject,
      AddObjectOidToProbableDeadOidList, StreamData, SaveVersionMetadata,
      SaveMetadata, SendResponse, PutClientGone, MarkOldOidForDeletion,
      AddOidForParallelLeakCheck, RemoveNewOidProbableRecord,
      DeleteOldObject, RemoveOldObjectVersionMetadata,
      RemoveOldOidProbableRecord, MarkNewOidForDeletion,
      RollbackOldOidProbableRecord, DeleteNewObject,
      RollbackNewOidProbableRecord

\* What a PUT does to the object list: nothing, or it publishes its object.
LEMMA PutPublish ==
    ASSUME TypeOK, NEW p \in Put, p \notin stopped, PutStep(p)
    PROVE  PublishEffect
<1>1. CASE SaveMetadata(p)
  BY <1>1 DEF SaveMetadata, PublishEffect, Publishing, Published, SetState, TypeOK,
      MotrType, RequestType, Req
<1>2. CASE UNCHANGED objList
  BY <1>2 DEF PublishEffect
<1> QED
  BY <1>1, <1>2 DEF PutStep, FetchObjectInfo, RejectPut, CreateObject,
      AddObjectOidToProbableDeadOidList, StreamData, SaveVersionMetadata,
      SendResponse, PutClientGone, MarkOldOidForDeletion,
      AddOidForParallelLeakCheck, RemoveNewOidProbableRecord,
      DeleteOldObject, RemoveOldObjectVersionMetadata,
      RemoveOldOidProbableRecord, MarkNewOidForDeletion,
      RollbackOldOidProbableRecord, DeleteNewObject,
      RollbackNewOidProbableRecord, CleanupStep, motr

\* The records of a PUT: about its own object, and about the one it replaces.
LEMMA OldKeysFacts ==
    ASSUME TypeOK, NEW p \in Put, NEW k \in OldKeys(p)
    PROVE  k = OldKey(tgt[p], p) /\ HasOld(p) /\ tgt[p] \in Put
BY DEF OldKeys, HasOld, TypeOK, RequestType, Req

\* What a PUT does to records, action by action.
LEMMA PutRecordEffect ==
    ASSUME LeakSetting, LeakIInv, NEW p \in Put, p \notin stopped, PutStep(p)
    PROVE  RecordEffect
<1>1. IInv /\ PublishedInv /\ NamedInv /\ ZeroSize = {} /\ TypeOK
  BY DEF LeakIInv, LeakInv, LeakSetting, IInv
<1>2. /\ ObjKey(p) \in RecKey /\ ChkKey(p) \in RecKey /\ ObjKey(p) # ChkKey(p)
      /\ KeyOid(ObjKey(p)) = p /\ KeyOid(ChkKey(p)) = p
      /\ IsOwn(ObjKey(p)) /\ IsOwn(ChkKey(p))
      /\ KeyOwner(ObjKey(p)) = p /\ KeyOwner(ChkKey(p)) = p
  BY <1>1, KeyFacts, OwnerFacts
<1>3. \A k \in OldKeys(p) : /\ k \in RecKey /\ KeyOid(k) = tgt[p] /\ KeyOwner(k) = p
                            /\ ~IsOwn(k) /\ tgt[p] \in Put
                            /\ k # ChkKey(tgt[p]) /\ k # ObjKey(tgt[p])
  BY <1>1, OldKeysFacts, KeyFacts, OwnerFacts
<1>4. ASSUME NEW keys, NEW f \in BOOLEAN, PutRecs(keys, f), InFlight(p),
             keys \subseteq OldKeys(p) \cup {ObjKey(p), ChkKey(p)}
      PROVE  RecordEffect
  <2>1. p \in Running
    BY <1>4 DEF Running, Req
  <2>2. ASSUME NEW k \in RecKey, k \in keys
        PROVE  Written(k)
    <3>1. pdi'[k] = NewRecord(f)
      BY <1>4, <2>2 DEF PutRecs
    <3> QED
      BY <1>2, <1>3, <1>4, <2>1, <2>2, <3>1 DEF Written
  <2>3. ASSUME NEW k \in RecKey, k \notin keys
        PROVE  pdi'[k] = pdi[k]
    BY <1>4, <2>3 DEF PutRecs
  <2> QED
    BY <2>2, <2>3 DEF RecordEffect
<1>5. CASE UNCHANGED pdi
  BY <1>5 DEF RecordEffect
<1>6. CASE AddObjectOidToProbableDeadOidList(p)
  <2>1. InFlight(p)
    BY <1>6 DEF AddObjectOidToProbableDeadOidList, InFlight
  <2> QED
    BY <1>4, <1>5, <1>6, <2>1 DEF AddObjectOidToProbableDeadOidList
<1>7. CASE MarkOldOidForDeletion(p) \/ AddOidForParallelLeakCheck(p) \/ MarkNewOidForDeletion(p)
  <2>1. InFlight(p)
    BY <1>7 DEF MarkOldOidForDeletion, AddOidForParallelLeakCheck, MarkNewOidForDeletion,
        CleanupStep, InFlight
  <2> QED
    BY <1>4, <1>5, <1>7, <2>1 DEF MarkOldOidForDeletion, AddOidForParallelLeakCheck,
        MarkNewOidForDeletion, CleanupStep
<1>8. CASE RemoveNewOidProbableRecord(p)
  <2>1. CASE DeleteRecs({ObjKey(p)})
    <3>1. \A k \in RecKey \ {ObjKey(p)} : pdi'[k] = pdi[k]
      BY <2>1 DEF DeleteRecs
    <3>2. pdi'[ObjKey(p)] = NoRec
      BY <1>2, <2>1 DEF DeleteRecs
    <3>3. Published(p) /\ pdi[ChkKey(p)] # NoRec
      BY <1>1, <1>8 DEF RemoveNewOidProbableRecord, CleanupStep, PublishedInv, OldCleanup,
          NamedInv, Named
    <3>4. Dropped(ObjKey(p))
      BY <1>2, <3>1, <3>2, <3>3 DEF Dropped
    <3> QED
      BY <3>1, <3>4 DEF RecordEffect
  <2> QED
    BY <1>5, <1>8, <2>1 DEF RemoveNewOidProbableRecord, CleanupStep
<1>9. CASE RollbackNewOidProbableRecord(p)
  <2>1. CASE DeleteRecs({ObjKey(p)})
    <3>1. \A k \in RecKey \ {ObjKey(p)} : pdi'[k] = pdi[k]
      BY <2>1 DEF DeleteRecs
    <3>2. pdi'[ObjKey(p)] = NoRec
      BY <1>2, <2>1 DEF DeleteRecs
    <3>3. p \notin stored'
      BY <1>1, <1>9 DEF RollbackNewOidProbableRecord, CleanupStep, NamedInv
    <3>4. Dropped(ObjKey(p))
      BY <1>2, <3>2, <3>3 DEF Dropped
    <3> QED
      BY <3>1, <3>4 DEF RecordEffect
  <2> QED
    BY <1>5, <1>9, <2>1 DEF RollbackNewOidProbableRecord, CleanupStep
<1>10. CASE RemoveOldOidProbableRecord(p) \/ RollbackOldOidProbableRecord(p)
  <2>1. CASE DeleteRecs(OldKeys(p))
    <3>1. \A k \in RecKey \ OldKeys(p) : pdi'[k] = pdi[k]
      BY <2>1 DEF DeleteRecs
    <3>2. ~Publishing(p)
      BY <1>10 DEF RemoveOldOidProbableRecord, RollbackOldOidProbableRecord, CleanupStep,
          Publishing
    <3>3. tgt[p] \notin stored' \/ ~Published(p)
      BY <1>1, <1>10 DEF RemoveOldOidProbableRecord, RollbackOldOidProbableRecord, CleanupStep,
          NamedInv, PublishedInv, OldCleanup
    <3>4. ASSUME NEW k \in OldKeys(p)
          PROVE  Dropped(k)
      <4>1. pdi'[k] = NoRec
        BY <1>3, <2>1 DEF DeleteRecs
      <4> QED
        BY <1>3, <3>2, <3>3, <4>1 DEF Dropped
    <3> QED
      BY <3>1, <3>4 DEF RecordEffect
  <2> QED
    BY <1>5, <1>10, <2>1 DEF RemoveOldOidProbableRecord, RollbackOldOidProbableRecord,
        CleanupStep
<1> QED
  BY <1>5, <1>6, <1>7, <1>8, <1>9, <1>10 DEF PutStep, FetchObjectInfo, RejectPut,
      CreateObject, StreamData, SaveVersionMetadata, SaveMetadata, SendResponse,
      PutClientGone, DeleteOldObject, RemoveOldObjectVersionMetadata, DeleteNewObject,
      CleanupStep, motr

\* How a PUT moves on and what it has recorded by then, action by action.
LEMMA PutStages ==
    ASSUME LeakSetting, LeakIInv, NEW p \in Put, p \notin stopped, PutStep(p)
    PROVE  StageEffect(p) /\ NamedEffect(p)
<1>1. IInv /\ PublishedInv /\ NamedInv /\ ZeroSize = {}
  BY DEF LeakIInv, LeakInv, LeakSetting, IInv
<1>2. /\ ObjKey(p) \in RecKey /\ ChkKey(p) \in RecKey
      /\ HasOld(p) => OldKey(tgt[p], p) \in RecKey
      /\ \A f \in BOOLEAN : NewRecord(f) # NoRec
  BY <1>1, KeyFacts, NewRecordType, ConstantAssumption
  DEF IInv, TypeOK, RequestType, Req, HasOld, Record
<1>3. /\ pc[p] \in {"idle", "create_object", "add_probable", "stream", "save_version",
                    "save_object"} => ~Published(p) /\ st[p] # "completed"
      /\ pc[p] = "respond" => st[p] = "metadataSaved"
      /\ Published(p) => pc[p] \in OldCleanup \cup {"done"}
      /\ pc[p] \in OldCleanup => Published(p)
      /\ pc[p] # "done" => st[p] # "probableEntryRecordFailed"
  BY <1>1 DEF IInv, UploadInv, Unsettled, PublishedInv, NamedInv, OldCleanup, Published
<1>4. /\ pc \in [Req -> PutLabels \cup DeleteLabels] /\ st \in [Req -> PutStates \cup DeleteStates]
      /\ tgt \in [Req -> Put \cup {NoOid}] /\ overlap \in [Req -> SUBSET Req] /\ p \in Req
      /\ objList \in [Name -> Put \cup {NoOid}] /\ ObjName[p] \in Name
  BY <1>1, ConstantAssumption DEF IInv, TypeOK, MotrType, RequestType, Req
<1>5. \A s : /\ s = "completed" => CleanupTask(p, s) \in {"mark_old", "leak_check"}
             /\ s \in RollbackStates => CleanupTask(p, s) = "mark_new"
             /\ s \notin RollbackStates \cup {"completed"} => CleanupTask(p, s) = "done"
  BY DEF CleanupTask, RollbackStates
<1> USE DEF StageEffect, NamedEffect, Publishing, Ended, Published, Unrecorded, OldCleanup,
            GoTo, SetState
<1>6. CASE FetchObjectInfo(p)
  <2>1. Starts(p)
    BY <1>4, <1>6 DEF FetchObjectInfo, StartRequest, Starts
  <2> QED
    BY <1>3, <1>4, <1>6, <2>1 DEF FetchObjectInfo, StartRequest, motr
<1>7. CASE RejectPut(p) \/ SendResponse(p) \/ PutClientGone(p)
  <2>1. PICK s : StartCleanup(p, s) /\ s # "probableEntryRecordFailed"
                 /\ (pc[p] = "idle" => s \in {"empty", "validationFailed"})
                 /\ (pc[p] = "respond" => s \in {"completed", "metadataSaved"})
                 /\ (pc[p] \notin {"idle", "respond"} => s = st[p])
    BY <1>3, <1>7 DEF RejectPut, SendResponse, PutClientGone
  <2>2. UNCHANGED motr
    BY <1>7 DEF RejectPut, SendResponse, PutClientGone
  <2>3. pc[p] \in {"idle", "create_object", "stream", "save_version", "respond"}
    BY <1>7 DEF RejectPut, SendResponse, PutClientGone
  <2>4. pc'[p] = CleanupTask(p, s) /\ st'[p] = s /\ UNCHANGED <<tgt, overlap, stopped>>
    BY <1>4, <2>1 DEF StartCleanup
  <2>5. pc'[p] \in {"mark_old", "leak_check", "mark_new", "done"}
    BY <1>5, <2>4
  <2>6. pc[p] = "respond" => Published(p) /\ Published(p)' /\ pc'[p] # "mark_new"
    BY <1>3, <1>5, <2>1, <2>4 DEF RollbackStates
  <2>7. pc[p] # "respond" => ~Published(p) /\ ~Published(p)' /\ pc'[p] \in {"mark_new", "done"}
    BY <1>3, <1>5, <2>1, <2>3, <2>4
  <2> QED
    BY <1>3, <2>1, <2>2, <2>3, <2>4, <2>5, <2>6, <2>7 DEF motr
<1>8. CASE CreateObject(p)
  BY <1>3, <1>4, <1>5, <1>8 DEF CreateObject, StartCleanup, RollbackStates
<1>9. CASE AddObjectOidToProbableDeadOidList(p)
  <2>1. CASE /\ PutRecs(OldKeys(p) \cup {ObjKey(p)}, FALSE)
             /\ GoTo(p, "stream") /\ UNCHANGED <<st, tgt, overlap, stopped>>
    <3>1. pdi'[ObjKey(p)] # NoRec /\ (HasOld(p) => pdi'[OldKey(tgt[p], p)] # NoRec)
      BY <1>2, <2>1 DEF PutRecs, OldKeys
    <3> QED
      BY <1>3, <1>4, <1>9, <2>1, <3>1 DEF AddObjectOidToProbableDeadOidList
  <2>2. CASE StartCleanup(p, "probableEntryRecordFailed")
    BY <1>3, <1>4, <1>5, <1>9, <2>2
    DEF AddObjectOidToProbableDeadOidList, StartCleanup, RollbackStates
  <2> QED
    BY <1>9, <2>1, <2>2 DEF AddObjectOidToProbableDeadOidList
<1>10. CASE StreamData(p)
  BY <1>1, <1>3, <1>4, <1>5, <1>10 DEF StreamData, StartCleanup, RollbackStates, motr
<1>11. CASE SaveVersionMetadata(p)
  BY <1>3, <1>4, <1>5, <1>11 DEF SaveVersionMetadata, StartCleanup, RollbackStates
<1>12. CASE SaveMetadata(p)
  BY <1>3, <1>4, <1>5, <1>12 DEF SaveMetadata, StartCleanup, RollbackStates
<1>13. CASE AddOidForParallelLeakCheck(p)
  <2>1. PutRecs({ChkKey(p)}, FALSE)
    BY <1>13 DEF AddOidForParallelLeakCheck, CleanupStep, MayFail, LeakSetting
  <2>2. pdi'[ChkKey(p)] # NoRec
    BY <1>2, <2>1 DEF PutRecs
  <2> QED
    BY <1>3, <1>4, <1>13, <2>2 DEF AddOidForParallelLeakCheck, CleanupStep
<1>14. CASE MarkOldOidForDeletion(p) \/ RemoveNewOidProbableRecord(p)
              \/ RemoveOldObjectVersionMetadata(p) \/ RemoveOldOidProbableRecord(p)
  BY <1>3, <1>4, <1>14 DEF MarkOldOidForDeletion, RemoveNewOidProbableRecord,
      RemoveOldObjectVersionMetadata, RemoveOldOidProbableRecord, CleanupStep
<1>15. CASE DeleteOldObject(p)
  BY <1>3, <1>4, <1>15 DEF DeleteOldObject
<1>16. CASE MarkNewOidForDeletion(p) \/ RollbackOldOidProbableRecord(p)
              \/ RollbackNewOidProbableRecord(p)
  BY <1>3, <1>4, <1>16 DEF MarkNewOidForDeletion, RollbackOldOidProbableRecord,
      RollbackNewOidProbableRecord, CleanupStep
<1>17. CASE DeleteNewObject(p)
  BY <1>3, <1>4, <1>17 DEF DeleteNewObject
<1> QED
  BY <1>6, <1>7, <1>8, <1>9, <1>10, <1>11, <1>12, <1>13, <1>14, <1>15, <1>16, <1>17
  DEF PutStep

\* A step of a PUT.
LEMMA PutLeakEffects ==
    ASSUME LeakSetting, LeakIInv, NEW p \in Put, p \notin stopped, PutStep(p)
    PROVE  LeakEffects
<1>1. IInv /\ PublishedInv /\ NamedInv /\ TypeOK
  BY DEF LeakIInv, LeakInv, IInv
<1>2. UNCHANGED <<stopped, bdel>>
  BY <1>1, PutFrame
<1>3. QueueEffect
  BY <1>2 DEF QueueEffect, bdel
<1>4. ASSUME NEW q \in Put, q # p
      PROVE  StageEffect(q) /\ NamedEffect(q)
  BY <1>1, <1>2, <1>4, PutFrame, PutLeakFrame, QuietPut DEF Req
<1> QED
  BY <1>1, <1>3, <1>4, PutRecordEffect, PutPublish, PutStages DEF LeakEffects

\* A server that stops.
LEMMA StopLeakEffects ==
    ASSUME LeakSetting, LeakIInv, NEW r \in Req, ServerStops(r)
    PROVE  LeakEffects
<1>1. PublishedInv /\ NamedInv
  BY DEF LeakIInv, LeakInv
<1>2. /\ UNCHANGED <<stored, objList, pdi, pc, st, tgt, overlap, queue, bd>>
      /\ stopped \subseteq stopped'
  BY DEF ServerStops, motr, bdel
<1>3. \A q \in Put : StageEffect(q) /\ NamedEffect(q)
  BY <1>1, <1>2, QuietPut
<1> QED
  BY <1>2, <1>3 DEF LeakEffects, RecordEffect, PublishEffect, QueueEffect

\* A step of background delete.
LEMMA BackgroundLeakEffects ==
    ASSUME LeakSetting, LeakIInv, BackgroundDeleteStep
    PROVE  LeakEffects
<1>1. IInv /\ PublishedInv /\ NamedInv /\ OwnerInv /\ HandsInv /\ ZeroSize = {}
  BY DEF LeakIInv, LeakInv, LeakSetting
<1>2. UNCHANGED <<objList, reqs>> /\ stored' \subseteq stored
  BY DEF BackgroundDeleteStep, AddKvToMsgbus, Process, ReceiveData, GetObjectMetadata,
      GetVersionEntry, DeleteObjectFromStorage, DeleteVersionEntry, DeleteLeakRecord,
      ProcessingFails, ConsumerRestarts, motr
<1>3. PublishEffect /\ \A q \in Put : StageEffect(q) /\ NamedEffect(q)
  BY <1>1, <1>2, QuietPut DEF PublishEffect, reqs
<1>4. CASE AddKvToMsgbus
  <2>1. ASSUME NEW m \in queue'
        PROVE  m.key \in RecKey /\ Named(m.key) /\ Aged(m.key)
    <3>1. PICK k \in RecKey : /\ pdi[k] # NoRec
                              /\ Aged(k)
                              /\ m = [key |-> k, forced |-> pdi[k].forced]
      BY <1>4, Sent
    <3>2. m.key = k
      BY <3>1
    <3> QED
      BY <3>1, <3>2 DEF Named
  <2>2. UNCHANGED <<pdi, bd>>
    BY <1>4 DEF AddKvToMsgbus, motr
  <2> QED
    BY <1>3, <2>1, <2>2 DEF LeakEffects, QueueEffect, RecordEffect
<1>5. ASSUME NEW c \in Consumer, Process(c) \/ ProcessingFails(c) \/ ConsumerRestarts(c)
      PROVE  LeakEffects
  <2>1. bd \in [Consumer -> Worker]
    BY <1>1 DEF IInv, TypeOK, BackgroundType
  <2>2. \A d \in Consumer : d # c => UNCHANGED bd[d]
    BY <1>5, <2>1 DEF Process, ReceiveData, GetObjectMetadata, GetVersionEntry,
        DeleteObjectFromStorage, DeleteVersionEntry, DeleteLeakRecord, ProcessingFails,
        ConsumerRestarts, BdGoTo
  <2>3. ASSUME NEW m \in queue'
        PROVE  m \in queue \/ (bd[c].pc # "idle" /\ m = bd[c].msg)
    BY <1>5, <2>3 DEF Process, ReceiveData, GetObjectMetadata, GetVersionEntry,
        DeleteObjectFromStorage, DeleteVersionEntry, DeleteLeakRecord, ProcessingFails,
        ConsumerRestarts
  <2> DEFINE Moved ==
        \/ bd'[c].pc = "idle"
        \/ bd'[c].msg \in queue /\ bd'[c].pc \in {"get_version", "get_metadata"}
        \/ /\ bd[c].pc # "idle" /\ bd'[c].msg = bd[c].msg
           /\ bd'[c].pc = "delete_version" => LeakOid(c) \notin stored'
           /\ bd'[c].pc = "delete_record" =>
                 bd[c].pc = "delete_version" \/ Live(LeakOid(c))
  <2>4. Moved
    <3>1. CASE ReceiveData(c)
      <4>1. PICK m \in queue : bd' = [bd EXCEPT ![c] = [pc  |-> IF m.forced THEN "get_version"
                                                                           ELSE "get_metadata",
                                                       msg |-> m, oid |-> NoOid]]
        BY <3>1 DEF ReceiveData
      <4> QED
        BY <2>1, <4>1
    <3>2. CASE GetObjectMetadata(c)
      BY <2>1, <3>2 DEF GetObjectMetadata, BdGoTo, Live, Worker, IdleWorker
    <3>3. CASE GetVersionEntry(c)
      <4>1. PICK e : bd' = [bd EXCEPT ![c].pc = "delete_object", ![c].oid = e]
        BY <3>3 DEF GetVersionEntry
      <4> QED
        BY <2>1, <3>3, <4>1 DEF GetVersionEntry, Worker, IdleWorker
    <3>4. CASE DeleteObjectFromStorage(c)
      <4>1. bd[c].oid = LeakOid(c)
        BY <1>1, <3>4 DEF DeleteObjectFromStorage, IInv, QueueInv
      <4> QED
        BY <2>1, <3>4, <4>1 DEF DeleteObjectFromStorage, Worker, IdleWorker
    <3>5. CASE DeleteVersionEntry(c)
      BY <2>1, <3>5 DEF DeleteVersionEntry, BdGoTo, Worker, IdleWorker
    <3>6. CASE DeleteLeakRecord(c) \/ ProcessingFails(c) \/ ConsumerRestarts(c)
      BY <2>1, <3>6 DEF DeleteLeakRecord, ProcessingFails, ConsumerRestarts, IdleWorker
    <3> QED
      BY <1>5, <3>1, <3>2, <3>3, <3>4, <3>5, <3>6 DEF Process
  <2> HIDE DEF Moved
  <2>5. QueueEffect
    BY <2>2, <2>3, <2>4 DEF QueueEffect, Moved
  <2>6. RecordEffect
    <3>1. CASE UNCHANGED pdi
      BY <3>1 DEF RecordEffect
    <3>2. CASE DeleteLeakRecord(c)
      <4>1. PICK k : k = bd[c].msg.key
        OBVIOUS
      <4>2. /\ bd[c].pc = "delete_record" /\ k \in RecKey /\ LeakOid(c) = KeyOid(k)
            /\ UNCHANGED stored
        BY <1>1, <3>2, <4>1 DEF DeleteLeakRecord, IInv, TypeOK, BackgroundType, Worker,
            IdleWorker, Message, LeakOid
      <4>3. Ended(KeyOwner(k)) /\ ~Publishing(KeyOwner(k))
        BY <1>1, <4>1, <4>2 DEF OwnerInv, Ended, Publishing
      <4>4. \/ KeyOid(k) \notin stored'
            \/ IsOwn(k) /\ InOtherHands(KeyOid(k))
            \/ ~IsOwn(k) /\ ~Published(KeyOwner(k))
        BY <1>1, <4>1, <4>2 DEF HandsInv
      <4>5. pdi'[k] = NoRec /\ \A j \in RecKey : j # k => pdi'[j] = pdi[j]
        BY <3>2, <4>1, <4>2 DEF DeleteLeakRecord, DeleteRecs
      <4>6. Dropped(k)
        BY <4>3, <4>4, <4>5 DEF Dropped
      <4> QED
        BY <4>5, <4>6 DEF RecordEffect
    <3> QED
      BY <1>5, <3>1, <3>2 DEF Process, ReceiveData, GetObjectMetadata, GetVersionEntry,
          DeleteObjectFromStorage, DeleteVersionEntry, ProcessingFails, ConsumerRestarts, motr
  <2> QED
    BY <1>3, <2>5, <2>6 DEF LeakEffects
<1> QED
  BY <1>4, <1>5 DEF BackgroundDeleteStep

-----------------------------------------------------------------------------
(* The inductive invariant, and what it implies.                           *)

\* A system without objects has nothing to name.
LEMMA LeakInit == Init => LeakIInv
<1> SUFFICES ASSUME Init PROVE LeakInv
  BY InitInv DEF LeakIInv
<1>1. PublishedInv
  BY ConstantAssumption DEF Init, PublishedInv, Live, Published, HasOld, OldCleanup, Req
<1>2. OwnerInv /\ YoungInv /\ HandsInv
  BY DEF Init, OwnerInv, YoungInv, HandsInv, Named, IdleWorker
<1>3. NamedInv
  BY DEF Init, NamedInv, HasOld, Req
<1> QED
  BY <1>1, <1>2, <1>3 DEF LeakInv

\* Every step keeps the invariant.
LEMMA LeakNext ==
    ASSUME LeakSetting, LeakIInv, [Next]_vars
    PROVE  LeakIInv'
<1>1. IInv' /\ TypeOK'
  BY NextInv DEF LeakIInv, LeakSetting, IInv
<1>2. CASE UNCHANGED vars
  BY <1>1, <1>2 DEF LeakIInv, LeakInv, PublishedInv, OwnerInv, YoungInv, HandsInv, NamedInv,
      Published, Publishing, Ended, Named, Aware, InOtherHands, HasOld, Dead, Live, Settled,
      LeakOid, Unrecorded, vars, motr, reqs, bdel
<1>3. CASE Next
  <2>1. Effects
    BY <1>3, StepEffects DEF LeakIInv, LeakSetting
  <2>2. LeakEffects
    BY <1>3, PutLeakEffects, StopLeakEffects, BackgroundLeakEffects
    DEF Next, RequestStep, LeakSetting
  <2> QED
    BY <1>1, <2>1, <2>2, PublishedPreserved, OwnerPreserved, YoungPreserved, HandsPreserved,
       NamedPreserved DEF LeakIInv, LeakInv
<1> QED
  BY <1>2, <1>3

\* Any number of PUTs and consumers keep the invariant, whichever of their
\* operations but the write of the leak check record fail and whichever
\* servers stop.
THEOREM LeakInvariantHolds ==
    ASSUME LeakSetting
    PROVE  Spec => []LeakIInv
BY LeakInit, LeakNext, PTL DEF Spec

\* Parallel overwrites, failed uploads, servers that stop and a background
\* delete that runs all the while leave no object in Motr that is neither
\* live nor named by a record of the probable dead object list.
THEOREM GarbageIsNamed ==
    ASSUME LeakSetting
    PROVE  Spec => []GarbageIsRecorded
<1>1. ASSUME LeakIInv
      PROVE  GarbageIsRecorded
  <2>1. IInv /\ PublishedInv /\ NamedInv /\ ZeroSize = {} /\ TypeOK
    BY <1>1 DEF LeakIInv, LeakInv, LeakSetting, IInv
  <2>2. SUFFICES ASSUME NEW o \in stored, ~Live(o), ~Unrecorded(o) PROVE Recorded(o)
    BY DEF GarbageIsRecorded
  <2>3. o \in Put
    BY <2>1 DEF TypeOK, MotrType
  <2>4. Named(ObjKey(o)) \/ Named(ChkKey(o)) => Recorded(o)
    BY <2>3, KeyFacts DEF Named, Recorded
  <2>5. CASE InOtherHands(o)
    <3>1. PICK p \in Put : Published(p) /\ tgt[p] = o
      BY <2>2, <2>5 DEF InOtherHands
    <3>2. Named(OldKey(o, p))
      BY <2>1, <2>2, <2>3, <3>1, ConstantAssumption DEF NamedInv, HasOld
    <3> QED
      BY <2>3, <3>2, KeyFacts DEF Named, Recorded
  <2> QED
    BY <2>1, <2>2, <2>3, <2>4, <2>5 DEF NamedInv
<1> QED
  BY <1>1, LeakInvariantHolds, PTL
=============================================================================
