------------------------- MODULE MCObjectLifecycle -------------------------
(* Constants for model checking S3ObjectLifecycle. *)
EXTENDS S3ObjectInvariants, TLC

CONSTANTS k1

\* Every request addresses the same key: requests for different keys share
\* nothing but the probable dead object list.
OneName == [r \in Req |-> k1]

\* Every PUT has a version key of its own.
OwnVersion == [p \in Put |-> p]

PutSymmetry == Permutations(Put)

(***************************************************************************)
(* Two states with the same view take the same steps and satisfy the same  *)
(* invariants: nothing depends on the memory of a request that has ended,  *)
(* beyond whether its object was recorded, nor on the requests a record    *)
(* has waited for.                                                         *)
(***************************************************************************)
\* The requests that keep a record young for as long as r runs.
Awaited(r) == IF DelayCovers = 2 THEN overlap[r] ELSE {}

RequestView(r) ==
    IF pc[r] = "idle" \/ InFlight(r) THEN <<pc[r], st[r], tgt[r],
                                             Awaited(r)>>
                                     ELSE <<"ended", Unrecorded(r)>>

RecordView(k) ==
    IF pdi[k] = NoRec THEN NoRec
    ELSE <<pdi[k].forced,
           {q \in pdi[k].since : InFlight(q)
                \/ \E r \in Running : q \in Awaited(r)}>>

View == <<stored, objList, verList, [k \in RecKey |-> RecordView(k)],
          [r \in Req |-> RequestView(r)], queue, bd>>

\* The steps whose failure leaves the clean up to background delete.
AllSteps ==
    (PutLabels \cup DeleteLabels \cup {"content_md5", "delete_add_probable",
     "background_delete", "consumer", "send_data"}) \ {"idle", "done", "respond"}

\* The record for the parallel leak check is the only one of an object that
\* is overwritten while its PUT is still running: it must be written.
RecordedSteps == AllSteps \ {"leak_check", "remove_object"}
=============================================================================
