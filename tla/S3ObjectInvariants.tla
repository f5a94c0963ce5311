------------------------- MODULE S3ObjectInvariants -------------------------
(***************************************************************************)
(* The inductive invariant of S3ObjectLifecycle, from which the proofs     *)
(* derive that live objects keep their data, whatever fails or stops.      *)
(***************************************************************************)
EXTENDS S3ObjectLifecycle

(***************************************************************************)
(* What the deployment must provide: a request ends within the leak        *)
(* processing delay, and no two PUTs of a name get the same version key.   *)
(***************************************************************************)
SafeSetting ==
    /\ DelayCovers >= 1
    /\ \A p, q \in Put : VersionKey[p] = VersionKey[q] => p = q

Unsettled == {"idle", "create_object", "add_probable", "stream",
              "save_version", "save_object"}
Rollback == {"mark_new", "rollback_old", "delete_new", "rollback_new"}
OldCleanup == {"respond", "mark_old", "leak_check", "remove_new",
               "delete_old", "remove_old_version", "remove_old"}

\* A live object is in Motr, has its version entry, and its PUT has passed
\* the point where it could still roll the object back.
LiveInv ==
    \A n \in Name :
        objList[n] # NoOid =>
            /\ ObjName[objList[n]] = n
            /\ pc[objList[n]] \notin Unsettled \cup Rollback
            /\ objList[n] \in stored
            /\ verList[VersionKey[objList[n]]] = objList[n]

\* An upload in progress has what it is about to publish.
UploadInv ==
    \A p \in Put :
        /\ pc[p] \in {"idle", "create_object"} => p \notin stored
        /\ pc[p] \in {"add_probable", "stream", "save_version", "save_object"}
             /\ p \notin stopped => p \in stored
        /\ pc[p] = "save_object" /\ p \notin stopped =>
             verList[VersionKey[p]] = p
        /\ pc[p] = "respond" => st[p] = "metadataSaved"
        /\ pc[p] \in Unsettled => st[p] # "completed"

\* What a request remembers of the object it replaces or deletes.
TargetInv ==
    /\ \A r \in Req :
          /\ tgt[r] # NoOid =>
                /\ ObjName[tgt[r]] = ObjName[r]
                /\ Settled(tgt[r])
                /\ tgt[r] # r
    /\ \A p \in Put :
          /\ pc[p] \in OldCleanup /\ HasOld(p) => ~Live(tgt[p])
          /\ pc[p] \in {"delete_old", "remove_old_version"} => HasOld(p)
    /\ \A d \in Delete :
          /\ pc[d] \notin {"idle", "done"} => tgt[d] # NoOid
          /\ pc[d] \in {"remove_version", "mark_oid", "delete_object"} =>
                ~Live(tgt[d])

\* A record is written when its object can no longer become live, or while
\* the request that could still publish the object is running.
RecordInv ==
    \A k \in RecKey :
        pdi[k] # NoRec =>
            /\ pdi[k].forced => Dead(KeyOid(k))
            /\ Settled(KeyOid(k)) \/ KeyOid(k) \in pdi[k].since
            /\ \A r \in pdi[k].since : pc[r] # "idle"

\* A message and a consumer are about objects that no PUT will publish, and
\* past its look at the metadata a consumer works on a dead object only.
QueueInv ==
    /\ \A m \in queue :
          /\ Settled(KeyOid(m.key))
          /\ m.forced => Dead(KeyOid(m.key))
    /\ \A c \in Consumer :
          bd[c].pc # "idle" =>
             /\ Settled(LeakOid(c))
             /\ bd[c].msg.forced => Dead(LeakOid(c))
             /\ bd[c].pc \in {"get_version", "delete_object",
                              "delete_version"} => Dead(LeakOid(c))
             /\ bd[c].pc = "delete_object" => bd[c].oid = LeakOid(c)

\* Version entries are stored under the key of their object.
VersionInv ==
    \A v \in VKey : verList[v] # NoOid => VersionKey[verList[v]] = v

\* The inductive invariant.
IInv == TypeOK /\ LiveInv /\ UploadInv /\ TargetInv /\ RecordInv
               /\ QueueInv /\ VersionInv

-----------------------------------------------------------------------------
(***************************************************************************)
(* What the deployment must provide for GarbageIsRecorded while background *)
(* delete is at work: the delay covers two requests that overlap, the leak *)
(* check record of a PUT is written under a key of its own, and no DELETE  *)
(* writes and removes records under the key of the PUT's own record.       *)
(***************************************************************************)
LeakSetting ==
    /\ SafeSetting /\ DelayCovers = 2
    /\ ZeroSize = {} /\ Delete = {} /\ "leak_check" \notin Fallible

\* The PUT has published its object.
Published(p) == st[p] \in {"metadataSaved", "completed"}
\* A PUT that may still publish its object.
Publishing(p) ==
    p \notin stopped /\ pc[p] \in {"create_object", "add_probable", "stream",
                                   "save_version", "save_object"}
Ended(p) == pc[p] = "done" \/ (p \in stopped /\ pc[p] # "idle")
Named(k) == pdi[k] # NoRec
\* Records are written by one PUT, about its own object or the one it replaces.
KeyOwner(k) == k[3]
IsOwn(k) == k[1] \in {"obj", "chk"}

\* Whoever may still replace o knows that it does.
Aware(o) ==
    \A r \in Put : Publishing(r) /\ ObjName[r] = ObjName[o] /\ r # o => tgt[r] = o
\* The object needs no record of its own any more: who replaces it, or has
\* replaced it, names it.
InOtherHands(o) ==
    \/ Live(o) /\ Aware(o)
    \/ \E p \in Put : Published(p) /\ tgt[p] = o

PublishedInv ==
    \A p \in Put :
        /\ Live(p) => Published(p)
        /\ pc[p] \in OldCleanup => Published(p)
        /\ Published(p) => pc[p] \in OldCleanup \cup {"done"}
        /\ HasOld(p) => Published(tgt[p])
        /\ HasOld(p) /\ Published(p) => ~Live(tgt[p])

\* A record, message or consumer keeps the PUT that has written it, and is
\* looked at by background delete when that PUT has ended.
OwnerInv ==
    /\ \A k \in RecKey : Named(k) =>
          /\ KeyOwner(k) \in pdi[k].since
          /\ IsOwn(k) \/ tgt[KeyOwner(k)] = KeyOid(k)
    /\ \A m \in queue :
          Ended(KeyOwner(m.key)) /\ (IsOwn(m.key) \/ tgt[KeyOwner(m.key)] = KeyOid(m.key))
    /\ \A c \in Consumer : bd[c].pc # "idle" =>
          LET k == bd[c].msg.key
          IN  Ended(KeyOwner(k)) /\ (IsOwn(k) \/ tgt[KeyOwner(k)] = KeyOid(k))

\* A PUT that may replace an object without knowing of it overlaps with the
\* PUT of that object, and so keeps its records young.
YoungInv ==
    \A k \in RecKey, r \in Put :
        Named(k) /\ IsOwn(k) /\ Publishing(r) /\ ObjName[r] = ObjName[KeyOid(k)]
            /\ r # KeyOid(k) =>
          \/ KeyOid(k) \in overlap[r] \/ r \in pdi[k].since
          \/ tgt[r] = KeyOid(k) \/ Dead(KeyOid(k))

\* Hence, when background delete gets a record, nobody is left who does not
\* know of the object; and what it deletes the record of is gone, or named by
\* somebody else.
HandsInv ==
    /\ \A m \in queue : IsOwn(m.key) => Aware(KeyOid(m.key)) \/ Dead(KeyOid(m.key))
    /\ \A c \in Consumer : bd[c].pc # "idle" =>
          LET k == bd[c].msg.key
          IN  /\ IsOwn(k) => Aware(LeakOid(c)) \/ Dead(LeakOid(c))
              /\ bd[c].pc = "delete_version" => LeakOid(c) \notin stored
              /\ bd[c].pc = "delete_record" =>
                    \/ LeakOid(c) \notin stored
                    \/ IsOwn(k) /\ InOtherHands(LeakOid(c))
                    \/ ~IsOwn(k) /\ ~Published(KeyOwner(k))

\* Who names an object, at every stage of the PUT that made it and of the PUT
\* that replaces it.
NamedInv ==
    \A p \in Put :
        /\ p \in stored /\ ~Published(p) => Unrecorded(p) \/ Named(ObjKey(p))
        /\ p \in stored /\ Published(p) =>
              Named(ObjKey(p)) \/ Named(ChkKey(p)) \/ InOtherHands(p)
        /\ pc[p] = "remove_new" /\ p \notin stopped => Named(ChkKey(p))
        /\ HasOld(p) /\ p \notin stopped /\ pc[p] \in {"stream", "save_version", "save_object"} =>
              Named(OldKey(tgt[p], p))
        /\ HasOld(p) /\ Published(p) /\ tgt[p] \in stored => Named(OldKey(tgt[p], p))
        /\ pc[p] \in {"remove_old_version", "remove_old"} => tgt[p] \notin stored
        /\ pc[p] = "rollback_new" => p \notin stored
        /\ st[p] = "probableEntryRecordFailed" => pc[p] = "done"

LeakInv == PublishedInv /\ OwnerInv /\ YoungInv /\ HandsInv /\ NamedInv

\* The inductive invariant behind GarbageIsRecorded.
LeakIInv == IInv /\ LeakInv
=============================================================================
