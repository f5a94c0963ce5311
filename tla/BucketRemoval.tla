---------------------------- MODULE BucketRemoval ----------------------------
(***************************************************************************)
(* S3DeleteBucketAction.  A bucket without objects may hold open uploads;  *)
(* the action reads them, removes the part index of each, then the indexes *)
(* of the bucket one after the other, and the bucket's metadata last.  Any *)
(* step may fail, and the client then sends the request again: it meets    *)
(* what the attempts before have left.                                     *)
(***************************************************************************)
EXTENDS Naturals, FiniteSets, Sequences

CONSTANTS BrBuckets,   \* [objects, uploads, corrupt]: buckets a client may remove, and
                       \* the uploads whose metadata cannot be parsed
          BrFetch,     \* uploads one read returns, S3_MOTR_MAX_IDX_FETCH_COUNT
          BrFault,     \* subset of {"load", "read", "launch", "write", "remove", "uploads",
                       \* "partIndex", "leave", "put", "race"}
          MaxFailures  \* bound: faults that happen

ASSUME BrAssumption ==
    /\ BrFetch \in Nat \ {0} /\ MaxFailures \in Nat
    /\ BrBuckets \subseteq
         [objects : BOOLEAN, uploads : SUBSET (Nat \ {0}), corrupt : SUBSET Nat]
    /\ \A b \in BrBuckets : IsFiniteSet(b.uploads)

VARIABLES br,      \* the request
          bucket   \* what is in Motr of the bucket

brVars == <<br, bucket>>

Indexes == <<"multipart", "objects", "versions", "extended">>
AllIndexes == {"multipart", "objects", "versions", "extended"}

NewRemoval(failures) ==
    [pc |-> "load",  \* load first uploads parts index remove done
     lastKey |-> 0, found |-> {}, at |-> 1, reply |-> "none", failures |-> failures,
     connected |-> TRUE]

-----------------------------------------------------------------------------
BrReply(q, e) == [q EXCEPT !.pc = "done", !.reply = IF q.connected THEN e ELSE "none"]
\* Action::next; the action is constructed with check_shutdown off.
BrNextStep(q, pc) == IF q.connected THEN [q EXCEPT !.pc = pc] ELSE BrReply(q, "none")
BrMay(f) == f \in BrFault /\ br.failures < MaxFailures
BrFails(f, e) ==
    /\ BrMay(f) /\ br' = BrReply([br EXCEPT !.failures = @ + 1], e) /\ UNCHANGED bucket

\* fetch_bucket_info.
LoadBucket ==
    /\ br.pc = "load"
    /\ \/ /\ br' = IF bucket.present THEN BrNextStep(br, "first") ELSE BrReply(br, "NoSuchBucket")
          /\ UNCHANGED bucket
       \/ BrFails("load", "InternalError")

\* fetch_first_object_metadata: a read that fails is taken for a bucket that
\* is not empty; an index that an earlier attempt has removed is empty.
FirstObject ==
    /\ br.pc = "first"
    /\ \/ /\ br' = IF bucket.objects THEN BrReply(br, "BucketNotEmpty") ELSE BrNextStep(br, "uploads")
          /\ UNCHANGED bucket
       \/ BrFails("read", "BucketNotEmpty")
       \/ BrFails("launch", "ServiceUnavailable")

\* The uploads one read returns: the BrFetch smallest keys after the last one.
NextUploads(uploads, lastKey) ==
    LET rest == {u \in uploads : u > lastKey}
    IN  {u \in rest : Cardinality({v \in rest : v <= u}) <= BrFetch}

\* fetch_multipart_objects: page after page; a read that fails ends it, and an
\* upload whose metadata cannot be parsed is passed over.
\* Mutant: one page is all.
UploadsRead_OnePage(q, page, last) ==
    BrNextStep([q EXCEPT !.found = @ \cup (page \ bucket.corrupt)], "parts")
UploadsRead(q, page, last) ==
    LET t == [q EXCEPT !.found = @ \cup (page \ bucket.corrupt), !.lastKey = last]
    IN  IF Cardinality(page) < BrFetch THEN BrNextStep(t, "parts") ELSE [t EXCEPT !.pc = "uploads"]
FetchUploads ==
    LET page == NextUploads(bucket.uploads, br.lastKey)
    IN  /\ br.pc = "uploads"
        /\ \/ page = {} /\ br' = BrNextStep(br, "parts") /\ UNCHANGED bucket
           \/ \E last \in page :
                /\ \A u \in page : u <= last
                /\ br' = UploadsRead(br, page, last)
                /\ bucket' = [bucket EXCEPT !.lost = @ \cup (page \cap bucket.corrupt)]
           \/ /\ BrMay("uploads") /\ br' = BrNextStep([br EXCEPT !.failures = @ + 1], "parts")
              /\ bucket' = [bucket EXCEPT !.lost = @ \cup (bucket.uploads \ br.found)]

\* remove_part_indexes; a failure other than to launch is passed over.
RemovePartIndexes ==
    /\ br.pc = "parts"
    /\ \/ /\ br' = BrNextStep([br EXCEPT !.at = 1], "index")
          /\ bucket' = [bucket EXCEPT !.partIndexes = @ \ br.found]
       \/ BrFails("launch", "ServiceUnavailable")
       \/ /\ BrMay("partIndex") /\ bucket' = [bucket EXCEPT !.lost = @ \cup br.found]
          /\ br' = BrNextStep([br EXCEPT !.at = 1, !.failures = @ + 1], "index")

\* remove_multipart_index .. remove_extended_metadata_index: an index that is
\* not there is passed over, a failure is answered.
RemoveIndex ==
    LET i == Indexes[br.at]
        next == BrNextStep([br EXCEPT !.at = @ + 1],
                           IF br.at = Len(Indexes) THEN "remove" ELSE "index")
    IN  /\ br.pc = "index"
        /\ \/ /\ bucket' = [bucket EXCEPT !.indexes = @ \ {i},
                                          !.uploads = IF i = "multipart" THEN {} ELSE @,
                                          !.objects = IF i = "objects" THEN FALSE ELSE @]
              /\ br' = next
           \/ BrFails("launch", "ServiceUnavailable")
           \/ BrFails("write", "InternalError")

\* delete_bucket.
RemoveBucket ==
    /\ br.pc = "remove"
    /\ \/ bucket' = [bucket EXCEPT !.present = FALSE] /\ br' = BrReply(br, "deleted")
       \/ BrFails("remove", "InternalError")

\* The client sends the request again unless it was told that the bucket is
\* gone; the object it may have left is removed by the client first.
Retry ==
    /\ br.pc = "done" /\ br.reply \notin {"deleted", "NoSuchBucket"}
    /\ br.reply = "BucketNotEmpty" => ~bucket.objects
    /\ br' = NewRemoval(br.failures) /\ UNCHANGED bucket
BrClientLeaves ==
    /\ BrMay("leave") /\ br.connected /\ br.pc # "done"
    /\ br' = [br EXCEPT !.connected = FALSE, !.failures = @ + 1] /\ UNCHANGED bucket
\* Another client stores an object; "race": after the bucket was found empty.
PutMeanwhile ==
    /\ BrMay("put") /\ (br.pc \in {"load", "first", "done"} \/ BrMay("race"))
    /\ bucket.present /\ "objects" \in bucket.indexes /\ ~bucket.objects
    /\ bucket' = [bucket EXCEPT !.objects = TRUE, !.put = TRUE]
    /\ br' = [br EXCEPT !.failures = @ + 1]

BrInit ==
    /\ \E b \in BrBuckets :
        bucket = [present |-> TRUE, objects |-> b.objects, uploads |-> b.uploads,
                  partIndexes |-> b.uploads, indexes |-> AllIndexes, put |-> b.objects,
                  corrupt |-> b.corrupt, lost |-> {}]
    /\ br = NewRemoval(0)
BrStep ==
    \/ LoadBucket \/ FirstObject \/ FetchUploads \/ RemovePartIndexes \/ RemoveIndex \/ RemoveBucket
BrNext == BrStep \/ Retry \/ BrClientLeaves \/ PutMeanwhile
\* Motr answers, and the client insists.
BrFairness == WF_brVars(BrStep) /\ WF_brVars(Retry)

-----------------------------------------------------------------------------
(* Properties.                                                             *)

\* An object that is stored in a bucket stays, however often and with whatever
\* failures clients try to remove the bucket.
ObjectsAreKept == bucket.put => bucket.objects

\* A bucket that is gone leaves none of its indexes behind, nor the part index
\* of an upload, whichever attempt has removed what, unless the uploads could
\* not be read, or the one's metadata not parsed, or a part index not be removed.
NothingIsLeft ==
    ~bucket.present => bucket.indexes = {} /\ bucket.partIndexes \subseteq bucket.lost

\* Attempts to remove a bucket, failed or not, take nothing that is in use and
\* forget nothing that is not.
RemovalIsSafe == ObjectsAreKept /\ NothingIsLeft

\* A client that insists removes an empty bucket, even if an earlier attempt
\* stopped between two of the indexes.
RemovalConverges == <>(br.pc = "done" /\ (~bucket.present \/ bucket.objects))
=============================================================================
