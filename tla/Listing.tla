------------------------------- MODULE Listing -------------------------------
(***************************************************************************)
(* The listing requests: the objects of a bucket (versions 1 and 2), its   *)
(* multipart uploads, the parts of an upload, the buckets of an account,   *)
(* and the keys of an index, which background delete asks for.  All of     *)
(* them walk an index of Motr a fetch at a time while other requests       *)
(* change it, fill one page, and give the client a marker to come back     *)
(* with.  Here one client lists an index to its end, page after page.      *)
(*                                                                         *)
(* Names are positions in the order of the index; 0 is the empty name.  A  *)
(* view says what the request's prefix and delimiter make of them: the     *)
(* positions from lo to hi start with the prefix (lo is the prefix         *)
(* itself), the keys in "within" contain it, group[k] is the common prefix *)
(* key k is rolled up into (0: none) and end[g] is the last position of a  *)
(* group, the name g followed by the byte 0xFF.  No key holds that byte,   *)
(* so that the roll-up always skips its whole group.                       *)
(***************************************************************************)
EXTENDS Naturals, FiniteSets, Sequences, SequencesExt

CONSTANTS Keys,        \* positions that are names of keys
          Requests,    \* [kind, view, max, start, fetch]: what a client asks for,
                       \* and the number of keys a read asks the index for
                       \* (S3_MOTR_MAX_IDX_FETCH_COUNT, BUCKET_KVS_FETCH_COUNT)
          Corrupt,     \* keys whose value does not parse
          BigKinds,    \* the kinds whose fetch may exceed an RPC message
          MaxBig,      \* bound: fetches that do
          MaxChanges,  \* bound: what happens to the index, the client and the
                       \* server while the client lists
          ListFault    \* subset of {"fail", "leave", "shutdown"}

ASSUME ListingAssumption ==
    /\ Keys \subseteq Nat \ {0} /\ IsFiniteSet(Keys) /\ Corrupt \subseteq Keys
    /\ \A r \in Requests : r.fetch \in Nat \ {0}

VARIABLES index,    \* the keys in the index
          ls,       \* the request for a page
          listing,  \* the client: what its pages held; the index meanwhile
          slips     \* what the reads have met that the code does not allow for:
                    \* "stuck", "cut"

listVars == <<index, ls, listing, slips>>

MaxRetryCount == 5

-----------------------------------------------------------------------------
(* The index: next_keyval gives the first n keys after, or from, a name.   *)

NextKeys(from, included, n) ==
    LET after == {k \in index : k > from \/ (included /\ k = from)}
        found == IF Cardinality(after) < n THEN Cardinality(after) ELSE n
    IN  [i \in 1 .. found |-> CHOOSE k \in after : Cardinality({j \in after : j <= k}) = i]

Starts(v, k) == v.lo = 0 \/ k \in v.lo .. v.hi
PastPrefix(v, k) == v.lo # 0 /\ k > v.hi
Holds(v, k) == v.lo = 0 \/ k \in v.within

-----------------------------------------------------------------------------
(* One page.                                                               *)

NewPage(r, marker) ==
    [kind |-> r.kind, view |-> r.view, max |-> r.max, marker |-> marker,
     pc |-> "start",           \* start lookup fetch fetched answered failed gone
     last |-> marker, first |-> TRUE, included |-> FALSE, checkMore |-> FALSE, saved |-> 0,
     fetch |-> r.fetch, count |-> r.fetch, retries |-> 0, big |-> FALSE, size |-> 0,
     found |-> <<>>, contents |-> <<>>, common |-> {}, truncated |-> FALSE, next |-> 0,
     reading |-> FALSE, connected |-> TRUE, down |-> FALSE]

Paged(l) == l.kind # "buckets"
Listed(l) == Len(l.contents) + IF l.kind = "objects" THEN Cardinality(l.common) ELSE 0

\* send_response_to_s3_client; a server that shuts down turns every answer
\* into an error.
Fail(l) == [l EXCEPT !.pc = "failed"]
Answer(l) == IF l.down THEN Fail(l) ELSE [l EXCEPT !.pc = "answered"]
Truncate(l, marker) == Answer([l EXCEPT !.truncated = TRUE, !.next = marker])

\* get_next_objects and its likes.  An index that was never created, which
\* has the zero id, lists like an empty one.
Leaves(l) == l.kind = "objects" /\ ~l.connected
Leave(l) == [l EXCEPT !.pc = "gone"]

RecordCount(l) ==
    CASE l.big /\ l.retries > MaxRetryCount -> 1
      [] l.big /\ l.retries <= MaxRetryCount -> l.count \div 2
      [] OTHER -> l.fetch

FromPrefix(l) == l.kind = "objects" /\ l.view.lo # 0 /\ l.marker = 0 /\ l.first

Launch(l) ==
    [l EXCEPT !.pc = "fetch", !.reading = TRUE, !.count = RecordCount(l),
              !.first = @ /\ ~FromPrefix(l), !.included = FromPrefix(l),
              !.last = IF FromPrefix(l) THEN l.view.lo ELSE @]

GetNextObjects(l) ==
    CASE Leaves(l) -> Leave(l)
      [] ~Leaves(l) /\ l.max = 0 -> Answer(l)
      [] OTHER -> Launch(l)
GetNextUploads(l) == IF l.down THEN Fail(l) ELSE Launch(l)
GetNextParts(l)   == IF l.down THEN Fail(l) ELSE Launch(l)
GetNextBuckets(l) == IF l.down THEN Fail(l) ELSE Launch(l)
GetNextKeyValue(l) == IF l.max = 0 THEN Answer(l) ELSE Launch(l)

-----------------------------------------------------------------------------
(* The loop over what a fetch returned: a holds the page, the number of    *)
(* keys left and why the loop ended.                                       *)

Loop(l, keys) == [l |-> l, left |-> Len(keys), stop |-> FALSE, skip |-> FALSE, past |-> FALSE]

Add(l, k) == IF k \in Corrupt THEN l ELSE [l EXCEPT !.contents = Append(@, k)]


\* The last key of the fetch, or of the page, is where the next one starts.
EndOfKey(a, l, k) ==
    LET ends == a.left = 1 \/ Listed(l) = l.max
    IN  [a EXCEPT !.left = @ - 1, !.stop = ends,
                  !.l = IF ends THEN [l EXCEPT !.last = k] ELSE l]




\* A common prefix is added once and its other keys are skipped.
RollUp(a, g) ==
    [a EXCEPT !.stop = TRUE, !.skip = TRUE,
              !.l = [a.l EXCEPT !.common = IF g = a.l.marker THEN a.l.common ELSE a.l.common \cup {g},
                                !.saved = IF g = a.l.marker THEN a.l.saved ELSE g,
                                !.last = a.l.view.end[g]]]


ObjectKey(a, k) ==
    LET v == a.l.view
    IN  CASE PastPrefix(v, k) -> [a EXCEPT !.stop = TRUE, !.past = TRUE, !.left = 0]
          [] Starts(v, k) /\ v.group[k] # 0 -> RollUp(a, v.group[k])
          [] Starts(v, k) /\ v.group[k] = 0 -> EndOfKey(a, Add(a.l, k), k)
          [] OTHER -> EndOfKey(a, a.l, k)

\* Uploads and the keys of an index are filtered and rolled up, but a common
\* prefix neither counts nor skips; a corrupt upload is passed over before
\* the end of the fetch is looked at.
FilteredKey(a, k) ==
    LET v == a.l.view
        l == CASE Starts(v, k) /\ v.group[k] # 0 -> [a.l EXCEPT !.common = @ \cup {v.group[k]}]
               [] Starts(v, k) /\ v.group[k] = 0 -> [a.l EXCEPT !.contents = Append(@, k)]
               [] OTHER -> a.l
    IN  EndOfKey(a, l, k)
UploadKey(a, k) == IF k \in Corrupt THEN [a EXCEPT !.left = @ - 1] ELSE FilteredKey(a, k)

PartKey(a, k) ==
    LET l == [Add(a.l, k) EXCEPT !.size = @ + IF k \in Corrupt THEN 0 ELSE 1]
        ends == a.left = 1 \/ l.size = l.max
    IN  [a EXCEPT !.left = @ - 1, !.stop = ends,
                  !.l = IF ends THEN [l EXCEPT !.last = k] ELSE l]

BucketKey(a, k) ==
    IF ~Holds(a.l.view, k)
    THEN [a EXCEPT !.stop = TRUE, !.past = TRUE]
    ELSE [a EXCEPT !.left = @ - 1,
                   !.l = IF a.left = 1 THEN [Add(@, k) EXCEPT !.last = k] ELSE Add(@, k)]

VisitKey(a, k) ==
    CASE a.stop -> a
      [] ~a.stop /\ a.l.kind = "objects" -> ObjectKey(a, k)
      [] ~a.stop /\ a.l.kind = "uploads" -> UploadKey(a, k)
      [] ~a.stop /\ a.l.kind = "kvs" -> FilteredKey(a, k)
      [] ~a.stop /\ a.l.kind = "parts" -> PartKey(a, k)
      [] ~a.stop /\ a.l.kind = "buckets" -> BucketKey(a, k)

Visited(l, keys) == FoldLeft(VisitKey, Loop(l, keys), keys)

-----------------------------------------------------------------------------
(* get_next_objects_successful and its likes.                              *)

Full(l) == Listed(l) = l.max

\* The page is full and its last entry a common prefix: one more read shows
\* whether anything follows.
CheckMore(l) == GetNextObjects([l EXCEPT !.checkMore = TRUE])

\* Mutant: no look for more keys behind a common prefix.
ObjectsPage_NoLook(a, n) ==
    CASE Full(a.l) /\ a.left # 0 /\ ~a.skip -> Truncate(a.l, a.l.last)
      [] ~Full(a.l) /\ (a.skip \/ n = a.l.count) /\ ~a.past -> GetNextObjects(a.l)
      [] OTHER -> Answer(a.l)

ObjectsPage(a, n) ==
    CASE Full(a.l) /\ a.left # 0 /\ a.skip -> CheckMore(a.l)
      [] Full(a.l) /\ a.left # 0 /\ ~a.skip -> Truncate(a.l, a.l.last)
      [] ~Full(a.l) /\ (a.skip \/ n = a.l.count) /\ ~a.past -> GetNextObjects(a.l)
      [] OTHER -> Answer(a.l)

UploadsPage(a, n) ==
    CASE Full(a.l) -> Truncate(a.l, a.l.last)
      [] ~Full(a.l) /\ n = a.l.count -> GetNextUploads(a.l)
      [] OTHER -> Answer(a.l)
PartsPage(a, n) ==
    CASE a.l.size = a.l.max -> Truncate(a.l, a.l.last)
      [] a.l.size # a.l.max /\ n = a.l.count -> GetNextParts(a.l)
      [] OTHER -> Answer(a.l)
BucketsPage(a, n) == IF n = a.l.count /\ ~a.past THEN GetNextBuckets(a.l) ELSE Answer(a.l)
KeysPage(a, n) ==
    CASE Full(a.l) -> Truncate(a.l, a.l.last)
      [] ~Full(a.l) /\ n = a.l.count -> GetNextKeyValue(a.l)
      [] OTHER -> Answer(a.l)

MoreFound(l, keys) ==
    IF Holds(l.view, keys[1]) THEN Truncate(l, l.saved) ELSE Answer(l)

Page(a, n) ==
    CASE a.l.kind = "objects" -> ObjectsPage(a, n)
      [] a.l.kind = "uploads" -> UploadsPage(a, n)
      [] a.l.kind = "parts"   -> PartsPage(a, n)
      [] a.l.kind = "buckets" -> BucketsPage(a, n)
      [] a.l.kind = "kvs"     -> KeysPage(a, n)

Read(l) == [l EXCEPT !.reading = FALSE, !.found = <<>>, !.big = FALSE, !.retries = 0]
Fetched(l, keys) ==
    CASE l.down -> Fail(Read(l))
      [] ~l.down /\ l.checkMore -> MoreFound(Read(l), keys)
      [] ~l.down /\ ~l.checkMore -> Page(Visited(Read(l), keys), Len(keys))

\* A read that finds as many keys as it asked for may end where the code does
\* not look for more.  The loop over uploads does not remember its last key when
\* that one does not parse, and the next read begins where this one did; and a
\* page of objects that is full with the last key is answered as the last page.
FullRead(l) == l.found # <<>> /\ Len(l.found) = l.count
Stuck(l) == FullRead(l) /\ l.kind = "uploads" /\ l.found[Len(l.found)] \in Corrupt
Cut(l) ==
    /\ FullRead(l) /\ l.kind = "objects" /\ ~l.checkMore
    /\ LET a == Visited(Read(l), l.found) IN Full(a.l) /\ a.left = 0
SlipsOf(l) == {s \in {"stuck", "cut"} : IF s = "stuck" THEN Stuck(l) ELSE Cut(l)}

\* get_next_objects_failed: nothing left is the end of the listing; a fetch
\* that is too big is repeated for fewer keys.  Listing an index goes on to
\* answer after it has repeated the fetch.
NothingLeft(l) == Answer([l EXCEPT !.reading = FALSE])
FetchFails(l) == Fail([l EXCEPT !.reading = FALSE])
Again(l) == [l EXCEPT !.retries = @ + 1, !.big = TRUE, !.reading = FALSE]


ObjectsTooBig(l) == IF l.count <= 1 THEN FetchFails(l) ELSE GetNextObjects(Again(l))
KeysTooBig(l) == IF l.count <= 1 THEN FetchFails(l) ELSE Fail(GetNextKeyValue(Again(l)))
TooBig(l) ==
    CASE l.kind = "objects" -> ObjectsTooBig(l)
      [] l.kind = "kvs" -> KeysTooBig(l)
      [] OTHER -> FetchFails(l)

-----------------------------------------------------------------------------
(* Steps of the request, of its client and of the rest of the world.       *)

\* What the client has of a page once it is answered.
Seen(l) ==
    IF l.pc # "answered" THEN listing
    ELSE [listing EXCEPT !.keys = @ \o l.contents,
                         !.groups = IF l.common = {} THEN @ ELSE Append(@, l.common)]

Becomes(l) == ls' = l /\ listing' = Seen(l) /\ UNCHANGED index

\* The bucket is loaded and the request validated; for parts, the upload is
\* loaded and the marker looked up before the parts behind it are.
LoadUpload(l) == IF l.down THEN Fail(l) ELSE [l EXCEPT !.pc = "lookup", !.reading = TRUE]
Begin(l) ==
    CASE l.kind = "objects" -> GetNextObjects(l)
      [] l.kind = "uploads" -> GetNextUploads(l)
      [] l.kind = "parts"   -> LoadUpload(l)
      [] l.kind = "buckets" -> GetNextBuckets(l)
      [] l.kind = "kvs"     -> GetNextKeyValue(l)
BucketInfoFails(l) == Fail(l)
ListStart ==
    /\ ls.pc = "start"
    /\ \/ "fail" \in ListFault /\ Becomes(BucketInfoFails(ls))
       \/ Becomes(Begin(ls))

\* get_key_object_successful counts the marker as an entry of the page.
MarkerFound(l) ==
    LET q == [l EXCEPT !.reading = FALSE, !.size = IF l.last \in Corrupt THEN 0 ELSE 1]
    IN  CASE q.down -> Fail(q)
          [] ~q.down /\ q.size = q.max -> Truncate(q, q.last)
          [] OTHER -> GetNextParts(q)
MarkerMissing(l) == GetNextParts([l EXCEPT !.reading = FALSE])
LookupMarker ==
    /\ ls.pc = "lookup" /\ ls.reading
    /\ \/ "fail" \in ListFault /\ Becomes(FetchFails(ls))
       \/ Becomes(IF ls.last \in index THEN MarkerFound(ls) ELSE MarkerMissing(ls))

\* Motr reads the index, and calls the request back later.
ListFetch ==
    /\ ls.pc = "fetch" /\ ls.reading
    /\ \/ "fail" \in ListFault /\ Becomes(FetchFails(ls))
       \/ /\ ls.kind \in BigKinds /\ listing.big < MaxBig
          /\ ls' = TooBig(ls) /\ UNCHANGED index
          /\ listing' = [listing EXCEPT !.big = @ + 1]
       \/ Becomes([ls EXCEPT !.pc = "fetched", !.found = NextKeys(ls.last, ls.included, ls.count)])

ListFetched ==
    /\ ls.pc = "fetched"
    /\ Becomes(IF ls.found = <<>> THEN NothingLeft(ls) ELSE Fetched(ls, ls.found))
    /\ slips' = slips \cup SlipsOf(ls)

\* A client goes on with the marker of a truncated page.
NextPage ==
    /\ ls.pc = "answered" /\ ls.truncated /\ ls.connected /\ ~ls.down
    /\ ls' = NewPage(listing.asked, ls.next)
    /\ UNCHANGED <<index, listing>>

\* Another request adds an object, an upload or a part, or removes one.
Busy == ls.pc \in {"start", "lookup", "fetch", "fetched"} \/ (ls.pc = "answered" /\ ls.truncated)
Disturb(i) ==
    /\ Busy /\ listing.changes < MaxChanges
    /\ index' = i
    /\ listing' = [listing EXCEPT !.changes = @ + 1, !.stable = @ \cap i, !.ever = @ \cup i]

ChangeIndex == (\E k \in Keys : Disturb(IF k \in index THEN index \ {k} ELSE index \cup {k}))
               /\ UNCHANGED ls
ClientLeaves == "leave" \in ListFault /\ Disturb(index) /\ ls' = [ls EXCEPT !.connected = FALSE]
ListShutdown == "shutdown" \in ListFault /\ Disturb(index) /\ ls' = [ls EXCEPT !.down = TRUE]

ListInit ==
    /\ index \in SUBSET Keys
    /\ \E r \in Requests :
        /\ ls = NewPage(r, r.start)
        /\ listing = [asked |-> r, keys |-> <<>>, groups |-> <<>>, changes |-> 0,
                      big |-> 0, stable |-> index, ever |-> index]
    /\ slips = {}

ListNext ==
    \/ ListFetched
    \/ /\ ListStart \/ LookupMarker \/ ListFetch \/ NextPage \/ ChangeIndex \/ ClientLeaves \/ ListShutdown
       /\ UNCHANGED slips

\* The reads of Motr end, a client asks for its next page, and a call-back
\* that is due runs (ListFetched is enabled as long as one is, and ends it,
\* so the last conjunct is its weak fairness).
ListFairness ==
    /\ WF_listVars((ListStart \/ LookupMarker \/ ListFetch \/ NextPage) /\ UNCHANGED slips)
    /\ []<>(ls.pc # "fetched")

-----------------------------------------------------------------------------
(* Properties.                                                             *)

LastPage == ls.pc = "answered" /\ ~ls.truncated
View == listing.asked.view
ListedGroups == UNION Range(listing.groups)

\* A client that has followed the markers to the last page has been told of
\* every key that was in the index all the time, itself or by its common
\* prefix (the bucket's listing, s3_get_bucket_action.cc, and its likes).
ListingIsComplete ==
    LastPage /\ ls.max # 0 =>
        \A k \in listing.stable \ Corrupt :
            Starts(View, k) /\ k > listing.asked.start =>
                IF View.group[k] = 0 THEN k \in Range(listing.keys)
                ELSE View.group[k] \in ListedGroups \cup {listing.asked.start}

\* No key is listed twice, on one page or on two, and no common prefix of
\* the objects' listing is: fetches and pages do not overlap.
EachListedOnce ==
    /\ \A i, j \in DOMAIN listing.keys : i < j => listing.keys[i] < listing.keys[j]
    /\ ls.kind = "objects" =>
        \A i, j \in DOMAIN listing.groups : i < j => listing.groups[i] \cap listing.groups[j] = {}

\* What is listed was there: a key of the prefix that was in the index at
\* some time since the listing began.
ListedExists ==
    /\ \A k \in Range(listing.keys) : k \in listing.ever /\ Holds(View, k)
    /\ \A g \in ListedGroups : \E k \in listing.ever : View.group[k] = g /\ Starts(View, k)

\* A page never holds more than the client asked for.
PageIsBounded == Paged(ls) => Listed(ls) <= ls.max

\* A request that has answered waits for no read of the index: the reader's
\* call-back would find an action that is gone.
AnsweredReadsNothing == ls.reading => ls.pc \in {"lookup", "fetch", "fetched"}

\* What a client learns that follows the markers is right although other
\* requests change the index between the reads of it: all of what stays there,
\* nothing twice, nothing else, and each page as long as it may be.  Two cases
\* are excepted: after a read of uploads that ends with one that does not parse
\* the same uploads are listed again, and a page of objects that ends together
\* with a read is taken for the last one.
ListingIsRight ==
    /\ slips = {} => ListingIsComplete
    /\ "stuck" \notin slips =>
          EachListedOnce /\ ListedExists /\ PageIsBounded /\ AnsweredReadsNothing

\* A client that asks for one part a page is given the page of its marker, which
\* counts as an entry, over and over.
SamePageAgain == ls.kind = "parts" /\ ls.max = 1 /\ ls.truncated /\ ls.next = ls.marker
\* Every listing comes to its end, however its pages are cut and although
\* other requests change the index meanwhile; the listing of uploads may not
\* once a read ended with one that does not parse.
ListingEnds ==
    <>(\/ ls.pc \in {"failed", "gone"} \/ (ls.pc = "answered" /\ ~ENABLED NextPage)
       \/ "stuck" \in slips \/ SamePageAgain)
=============================================================================
