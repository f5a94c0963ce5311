-------------------------- MODULE BackgroundDelete --------------------------
(***************************************************************************)
(* The background delete service: the scheduler that posts records of the  *)
(* probable dead object list to the message bus, and the consumers that    *)
(* run ObjectRecoveryValidator.process_object_leak on them.  Only records  *)
(* of simple objects occur here.                                           *)
(***************************************************************************)
EXTENDS S3Store

BdLabels == {"idle", "get_metadata", "get_version", "delete_object",
             "delete_version", "delete_record"}

\* A consumer: its step, the message it works on, the oid it will delete.
IdleWorker == [pc |-> "idle", msg |-> NoRec, oid |-> NoOid]
Worker == {IdleWorker} \cup [pc : BdLabels \ {"idle"}, msg : Message,
                             oid : Put \cup {NoOid}]

LeakOid(c) == KeyOid(bd[c].msg.key)   \* object_leak_id

BdGoTo(c, label) == bd' = [bd EXCEPT ![c].pc = label]

(***************************************************************************)
(* add_kv_to_msgbus: purge the topic, list the index and send the records  *)
(* that are old enough.  The list is cut off after MaxKeys keys and starts *)
(* at the first one every time.  A message holds the record as it was when *)
(* it was listed.                                                          *)
(***************************************************************************)
Present == {k \in RecKey : pdi[k] # NoRec}

Listings ==
    IF Cardinality(Present) <= MaxKeys
    THEN {Present}
    ELSE {page \in SUBSET Present : Cardinality(page) = MaxKeys}

\* Mutant: a message names the object in the place of the key of its record.
LeakMessages_Oid(page) ==
    {[key |-> KeyOid(k), forced |-> pdi[k].forced] :
        k \in {j \in page : Aged(j)}}

LeakMessages(page) ==
    {[key |-> k, forced |-> pdi[k].forced] : k \in {j \in page : Aged(j)}}

AddKvToMsgbus ==
    /\ \E page \in Listings :
          \/ queue' = LeakMessages(page)
          \/ /\ MayFail("send_data")
             /\ queue' \in SUBSET LeakMessages(page)
    /\ UNCHANGED <<motr, reqs, bd>>

(***************************************************************************)
(* A consumer.  A record with force_delete set is acted on at once, for    *)
(* any other the current metadata of the object is read first.             *)
(***************************************************************************)
ReceiveData(c) ==
    /\ bd[c].pc = "idle"
    /\ \E m \in queue :
          /\ queue' = queue \ {m}
          /\ bd' = [bd EXCEPT ![c] =
                       [pc  |-> IF m.forced THEN "get_version"
                                            ELSE "get_metadata",
                        msg |-> m,
                        oid |-> NoOid]]
    /\ UNCHANGED <<motr, reqs>>

\* Mutant: the object to delete is not compared with the live one.
GetObjectMetadata_NoCompare(c) ==
    /\ bd[c].pc = "get_metadata"
    /\ BdGoTo(c, "get_version")
    /\ UNCHANGED <<motr, reqs, queue>>

GetObjectMetadata(c) ==
    /\ bd[c].pc = "get_metadata"
    /\ BdGoTo(c, IF objList[ObjName[LeakOid(c)]] = LeakOid(c)
                 THEN "delete_record"    \* no leak, the object is live
                 ELSE "get_version")
    /\ UNCHANGED <<motr, reqs, queue>>

\* The object to delete is the one the version entry names, if there is one.
GetVersionEntry(c) ==
    /\ bd[c].pc = "get_version"
    /\ LET entry == verList[VersionKey[LeakOid(c)]] IN
       bd' = [bd EXCEPT ![c].pc = "delete_object",
                        ![c].oid = IF entry = NoOid THEN LeakOid(c)
                                                    ELSE entry]
    /\ UNCHANGED <<motr, reqs, queue>>

\* An object that does not exist counts as deleted.
DeleteObjectFromStorage(c) ==
    /\ bd[c].pc = "delete_object"
    /\ stored' = stored \ {bd[c].oid}
    /\ bd' = [bd EXCEPT ![c].pc = "delete_version", ![c].oid = NoOid]
    /\ UNCHANGED <<objList, verList, pdi, reqs, queue>>

DeleteVersionEntry(c) ==
    /\ bd[c].pc = "delete_version"
    /\ verList' = [verList EXCEPT ![VersionKey[LeakOid(c)]] = NoOid]
    /\ BdGoTo(c, "delete_record")
    /\ UNCHANGED <<stored, objList, pdi, reqs, queue>>

\* Mutant: the record of a processed leak is not deleted.
DeleteLeakRecord_Keeps(c) ==
    /\ bd[c].pc = "delete_record"
    /\ bd' = [bd EXCEPT ![c] = IdleWorker]
    /\ UNCHANGED <<motr, reqs, queue>>

DeleteLeakRecord(c) ==
    /\ bd[c].pc = "delete_record"
    /\ DeleteRecs({bd[c].msg.key})
    /\ bd' = [bd EXCEPT ![c] = IdleWorker]
    /\ UNCHANGED <<stored, objList, verList, reqs, queue>>

\* A failed request to Motr ends the processing; the message is acknowledged.
ProcessingFails(c) ==
    /\ MayFail("background_delete")
    /\ bd[c].pc # "idle"
    /\ bd' = [bd EXCEPT ![c] = IdleWorker]
    /\ UNCHANGED <<motr, reqs, queue>>

\* The consumer dies before it acknowledges: the message is delivered again.
ConsumerRestarts(c) ==
    /\ MayFail("consumer")
    /\ bd[c].pc # "idle"
    /\ queue' = queue \cup {bd[c].msg}
    /\ bd' = [bd EXCEPT ![c] = IdleWorker]
    /\ UNCHANGED <<motr, reqs>>

Process(c) ==
    \/ ReceiveData(c) \/ GetObjectMetadata(c) \/ GetVersionEntry(c)
    \/ DeleteObjectFromStorage(c) \/ DeleteVersionEntry(c)
    \/ DeleteLeakRecord(c)

BackgroundDeleteStep ==
    \/ AddKvToMsgbus
    \/ \E c \in Consumer : Process(c) \/ ProcessingFails(c)
                                      \/ ConsumerRestarts(c)
=============================================================================
