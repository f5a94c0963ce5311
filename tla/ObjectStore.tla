---------------------------- MODULE ObjectStore ----------------------------
(***************************************************************************)
(* What PUT, DELETE and background delete together promise about the data  *)
(* of objects, whoever fails or stops: an object is uploaded, becomes live *)
(* at one instant or never, stops being live when it is overwritten or     *)
(* deleted, and only then may its data go away, for good.                  *)
(***************************************************************************)
CONSTANTS
    Oid,       \* objects
    Name,      \* object keys
    NameOf,    \* the key an object is uploaded to: [Oid -> Name]
    NoOid

VARIABLES
    current,   \* the live object of a key, or NoOid
    phase      \* where each object is in its life

Phases == {"unborn", "uploading", "live", "garbage", "gone"}

StoreInit ==
    /\ current = [n \in Name |-> NoOid]
    /\ phase = [o \in Oid |-> "unborn"]

Move(o, from, to) ==
    /\ phase[o] = from
    /\ phase' = [phase EXCEPT ![o] = to]
    /\ UNCHANGED current

\* The data of a new object begins to exist; or it never will.
BeginUpload(o) == Move(o, "unborn", "uploading")
GiveUp(o) == Move(o, "unborn", "gone")

\* The upload fails or its server stops.
Abandon(o) == Move(o, "uploading", "garbage")

\* The data of an object that nobody can reach any more is deleted.
Reclaim(o) == Move(o, "garbage", "gone")

\* A completed upload replaces the live object of its key, in one step.
Publish(o) ==
    /\ phase[o] = "uploading"
    /\ phase' = [q \in Oid |-> IF q = o THEN "live"
                               ELSE IF q = current[NameOf[o]] THEN "garbage"
                               ELSE phase[q]]
    /\ current' = [current EXCEPT ![NameOf[o]] = o]

\* The live object of a key is deleted.
Remove(n) ==
    /\ current[n] # NoOid
    /\ phase' = [phase EXCEPT ![current[n]] = "garbage"]
    /\ current' = [current EXCEPT ![n] = NoOid]

StoreNext ==
    \/ \E o \in Oid : \/ BeginUpload(o) \/ GiveUp(o) \/ Abandon(o)
                      \/ Reclaim(o) \/ Publish(o)
    \/ \E n \in Name : Remove(n)

StoreSpec == StoreInit /\ [][StoreNext]_<<current, phase>>
=============================================================================
