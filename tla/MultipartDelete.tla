-------------------------- MODULE MultipartDelete --------------------------
(***************************************************************************)
(* S3DeleteObjectAction for an object of parts.  Unlike the DELETE of a    *)
(* simple object (S3DeleteObject) it writes no record before it removes    *)
(* the object's metadata: the records of the parts and of their parent     *)
(* are only built then, and are written, in batches, once the client was   *)
(* answered.  After that the data go part by part, the version entry, the  *)
(* extended entries and last the records; with delayed deletion the data   *)
(* and the records are left to the background delete.                      *)
(***************************************************************************)
EXTENDS Naturals, FiniteSets

CONSTANTS XdObjects,  \* sets of part numbers: the objects that may be deleted
          XdBatch,    \* MAX_OIDS_FOR_DELETION
          XdFault     \* subset of {"load", "ext", "remove", "version", "mark", "keys",
                      \* "data", "entries", "records", "leave", "stop"}

ASSUME XdAssumption ==
    /\ XdBatch \in Nat \ {0}
    /\ \A o \in XdObjects : o # {} /\ IsFiniteSet(o) /\ o \subseteq Nat \ {0}

VARIABLES xd,  \* the request
          xs   \* what is in Motr of the object: [parts, listed, version, data, ext, recs]

xdVars == <<xd, xs>>

Parent == 0
XdKeys == xs.parts \cup {Parent}
\* Complete accepts a list that leaves out stored parts.  The metadata of such
\* an object counts fewer fragments than its last part's number, which from_json
\* takes for no extended object: its entries are never loaded.
Gapped == \E n \in xs.parts : \E m \in 1 .. n : m \notin xs.parts

NewXd(delayed) ==
    [pc |-> "load",  \* load remove version mark data versionAgain entries records done
     reply |-> "none", connected |-> TRUE, delayed |-> delayed, left |-> {}, marked |-> {},
     unmarked |-> {}]

XdReply(q, r) == [q EXCEPT !.reply = IF q.connected THEN r ELSE "none"]
XdCrash(q) == [q EXCEPT !.pc = "crashed"]

-----------------------------------------------------------------------------
\* fetch_object_info, then the extended entries, populate_probable_dead_oid_list
\* and delete_metadata in the same call.  startcleanup has an assertion for a
\* request whose state is still empty: entries that were not read, a client
\* that has left.
LoadObject ==
    /\ xd.pc = "load" /\ UNCHANGED xs
    /\ \/ "load" \in XdFault /\ xd' = XdReply([xd EXCEPT !.pc = "done"], "InternalError")
       \/ "ext" \in XdFault /\ ~Gapped /\ xd' = XdCrash(XdReply(xd, "InternalError"))
       \/ /\ xd' = IF Gapped \/ ~xd.connected THEN XdCrash(xd)
                   ELSE [xd EXCEPT !.pc = "remove", !.left = xs.parts]

\* remove_object_metadata.  After a failure remove_probable_record asserts a
\* key that only the DELETE of a simple object sets.
RemoveListed ==
    /\ xd.pc = "remove"
    /\ \/ xs' = [xs EXCEPT !.listed = FALSE] /\ xd' = [xd EXCEPT !.pc = "version"]
       \/ "remove" \in XdFault /\ xd' = XdCrash(XdReply(xd, "InternalError")) /\ UNCHANGED xs

\* remove_version_metadata: a failure counts as success; then the client is
\* answered.
RemoveVersion ==
    /\ xd.pc = "version" /\ xd' = XdReply([xd EXCEPT !.pc = "mark"], "deleted")
    /\ \/ xs' = [xs EXCEPT !.version = FALSE]
       \/ "version" \in XdFault /\ UNCHANGED xs

\* mark_oids_for_deletion: how many of the records are written at once; the
\* last batch may be twice the size of the others.
HowMany(all, todo) == IF all > XdBatch /\ todo > 2 * XdBatch THEN XdBatch ELSE todo
\* save_partial_extended_metadata_successful: the next batch, or the next task.
\* Mutant: one batch is all.
BatchIsWritten_First(q) == [q EXCEPT !.pc = "data"]
BatchIsWritten(q) == IF q.marked = XdKeys THEN [q EXCEPT !.pc = "data"] ELSE q
\* put_partial_keyval_failed: the task counts as done.
MarkFails(q) == [q EXCEPT !.pc = "data", !.unmarked = @ \cup (XdKeys \ q.marked)]
\* put_partial_keyval, put_keyval: the results of the keys are not looked at,
\* so a record may be missing.
MarkOids ==
    LET todo == XdKeys \ xd.marked
    IN  /\ xd.pc = "mark"
        /\ \/ \E batch \in SUBSET todo, slipped \in SUBSET XdKeys :
                 /\ Cardinality(batch) = HowMany(Cardinality(XdKeys), Cardinality(todo))
                 /\ slipped \subseteq batch /\ (slipped # {} => "keys" \in XdFault)
                 /\ xs' = [xs EXCEPT !.recs = @ \cup (batch \ slipped)]
                 /\ xd' = BatchIsWritten([xd EXCEPT !.marked = @ \cup batch, !.unmarked = @ \cup slipped])
           \/ "mark" \in XdFault /\ UNCHANGED xs /\ xd' = MarkFails(xd)

\* delete_objects: the last part first; a part that cannot be deleted ends the
\* clean up.
\* Mutant: it goes on to the version entry and the records.
DataFails_GoesOn(q) == [q EXCEPT !.pc = "versionAgain"]
DataFails(q) == [q EXCEPT !.pc = "done"]
DeletePart ==
    /\ xd.pc = "data"
    /\ \/ xd.delayed /\ xd' = [xd EXCEPT !.pc = "versionAgain"] /\ UNCHANGED xs
       \/ /\ ~xd.delayed
          /\ \E n \in xd.left :
                /\ \A m \in xd.left : m <= n
                /\ xs' = [xs EXCEPT !.data = @ \ {n}]
                /\ xd' = [xd EXCEPT !.left = @ \ {n}, !.pc = IF xd.left = {n} THEN "versionAgain" ELSE "data"]
       \/ ~xd.delayed /\ "data" \in XdFault /\ xd' = DataFails(xd) /\ UNCHANGED xs

\* remove_version_metadata once more; whatever it returns, the entries follow.
RemoveVersionAgain ==
    /\ xd.pc = "versionAgain" /\ xd' = [xd EXCEPT !.pc = "entries"]
    /\ \/ xs' = [xs EXCEPT !.version = FALSE]
       \/ "version" \in XdFault /\ UNCHANGED xs

\* remove_fragments_keyval with delayed deletion, remove_fragments without.
\* Both go on whatever becomes of the entries.
AfterEntries(q) == [q EXCEPT !.pc = IF q.delayed THEN "done" ELSE "records"]
RemoveEntries ==
    /\ xd.pc = "entries" /\ xd' = AfterEntries(xd)
    /\ \/ xs' = [xs EXCEPT !.ext = {}]
       \/ "entries" \in XdFault /\ \E stay \in SUBSET xs.ext : xs' = [xs EXCEPT !.ext = stay]

\* remove_oids_from_probable_record_index.
RemoveRecords ==
    /\ xd.pc = "records" /\ xd' = [xd EXCEPT !.pc = "done"]
    /\ \/ xs' = [xs EXCEPT !.recs = @ \ XdKeys]
       \/ "records" \in XdFault /\ \E stay \in SUBSET xs.recs : xs' = [xs EXCEPT !.recs = stay]

XdClientLeaves ==
    /\ "leave" \in XdFault /\ xd.connected /\ xd.pc \notin {"done", "crashed", "stopped"}
    /\ xd' = [xd EXCEPT !.connected = FALSE] /\ UNCHANGED xs
XdServerStops ==
    /\ "stop" \in XdFault /\ xd.pc \notin {"done", "crashed", "stopped"}
    /\ xd' = [xd EXCEPT !.pc = "stopped",
                        !.unmarked = IF xd.pc \in {"version", "mark"} THEN @ \cup (XdKeys \ xd.marked) ELSE @]
    /\ UNCHANGED xs

XdInit ==
    /\ \E o \in XdObjects :
          xs = [parts |-> o, listed |-> TRUE, version |-> TRUE, data |-> o, ext |-> o, recs |-> {}]
    /\ \E delayed \in BOOLEAN : xd = NewXd(delayed)
XdNext ==
    \/ LoadObject \/ RemoveListed \/ RemoveVersion \/ MarkOids \/ DeletePart
    \/ RemoveVersionAgain \/ RemoveEntries \/ RemoveRecords
    \/ XdClientLeaves \/ XdServerStops

-----------------------------------------------------------------------------
\* An object that is listed has all its parts and entries, and no record that
\* would have them deleted.  Once it is not, a part still in Motr is named by
\* a record from the moment the records are written until it is deleted, over
\* batches, a deletion that fails half way and a server that stops; without a
\* record are only the parts whose record was never written (unmarked: the
\* write failed, or the server stopped between the removal of the metadata and
\* the write).  The client is told that the object is deleted only when it is,
\* and that it is not only when it is not (S3DeleteObjectAction).
PartsAreNamed ==
    /\ xs.listed => xs.data = xs.parts /\ xs.ext = xs.parts /\ xs.recs = {}
    /\ ~xs.listed /\ xd.pc \notin {"version", "mark"} =>
          xs.data \ xs.recs \subseteq xd.unmarked
    /\ xd.reply = "deleted" => ~xs.listed
    /\ xd.reply = "InternalError" => xs.listed
    /\ xd.pc = "done" => xd.reply # "none" \/ ~xd.connected
=============================================================================
