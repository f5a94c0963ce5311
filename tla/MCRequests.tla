----------------------------- MODULE MCRequests -----------------------------
EXTENDS Listing, MultiDelete, MetadataRequest, BucketRemoval, AuthRequest, MemoryPool, PostQueue,
        MultipartDelete, ChunkParser, TLC

\* Positions: 1 and 8 are plain keys, 2 is the name of a group ("d/") that
\* holds 3 and 4 and ends at 5, 6 the name of a group ("e/") that holds 7.
MCKeys == {1, 3, 4, 7, 9}
NoGroup == [k \in MCKeys |-> 0]
Ends == 2 :> 5 @@ 6 :> 8
Plain == [lo |-> 0, hi |-> 0, within |-> {}, group |-> NoGroup, end |-> Ends]
Rolled == [Plain EXCEPT !.group = (3 :> 2 @@ 4 :> 2 @@ 7 :> 6) @@ NoGroup]
\* A prefix that 3, 4 and 7 start with and that 9 holds further on.
Prefixed == [Plain EXCEPT !.lo = 2, !.hi = 8, !.within = {3, 4, 7, 9}]
Later == [Plain EXCEPT !.lo = 6, !.hi = 8, !.within = {7}]
Both == [Prefixed EXCEPT !.group = (3 :> 2 @@ 4 :> 2) @@ NoGroup]
R(k, v, m, s, n) == [kind |-> k, view |-> v, max |-> m, start |-> s, fetch |-> n]
MCListings ==
    {R("objects", v, 2, s, 8) : v \in {Plain, Rolled, Prefixed, Both}, s \in {0, 3}} \cup
    {R("objects", Later, 2, 2, 8), R("objects", Rolled, 1, 0, 8), R("objects", Plain, 0, 0, 8), R("uploads", Rolled, 2, 0, 8),
     R("uploads", Both, 1, 0, 8), R("kvs", Prefixed, 2, 0, 2), R("parts", Plain, 2, 0, 3),
     R("buckets", Prefixed, 1, 2, 2),
     R("objects", Plain, 2, 0, 2), R("objects", Rolled, 2, 0, 3), R("uploads", Plain, 3, 0, 2), R("uploads", Plain, 2, 0, 1), R("parts", Plain, 1, 0, 3)}

\* An object, one of two parts, keys with nothing, and key 4, which is corrupt.
O(own, parts) == [own |-> own, parts |-> parts]
MCContents ==
    {1 :> O(11, {}) @@ 2 :> O(0, {21, 22}) @@ 3 :> None @@ 4 :> O(14, {}),
     1 :> None @@ 2 :> None @@ 3 :> O(13, {}) @@ 4 :> O(0, {21}),
     [k \in 1..4 |-> None]}
MCDeletes == {<<1, 2, 3>>, <<3, 1, 4>>, <<4>>, <<1, 2, 3, 4>>, <<3>>}
MCNew == O(31, {})

\* A request that reads, or two that change the same metadata.
Changing == {{"putObjectAcl", "putObjectTags"}, {"putObjectTags", "deleteObjectTags"},
             {"putBucketAcl", "deleteBucketTags"}, {"putBucketTags", "deleteBucketPolicy"},
             {"putBucketPolicy", "deleteBucketPolicy"}}
MCMeta ==
    {"a" :> k : k \in Reading} \cup
    UNION {{"a" :> j @@ "b" :> k : j \in p, k \in p} : p \in Changing}
B(v, n) == [valid |-> v, nodes |-> n]
MCBodies ==
    {B(TRUE, <<>>), B(TRUE, <<"tag">>), B(TRUE, <<"tag", "tag">>),
     B(TRUE, <<"longTag">>), B(TRUE, <<"tag", "badTag">>), B(TRUE, <<"blank">>), B(FALSE, <<>>)}

MCBuckets ==
    {[objects |-> o, uploads |-> 1 .. n, corrupt |-> c] : o \in BOOLEAN, n \in 0 .. 3, c \in {{}, {2}}}

\* An object of one part, one of three, one whose list of parts left out part 2.
MCObjects == {{1}, {1, 2, 3}, {1, 3}}

\* Bodies of chunks: data with a CR in it, a size of two digits, no data at all.
Chunk(n, s, d) == [size |-> n, sig |-> s, data |-> d]
LastChunk == Chunk(<<"0">>, <<"v">>, <<>>)
MCChunks ==
    {<<Chunk(<<"3">>, <<"s">>, <<"a", "b", "CR">>), Chunk(<<"0", "2">>, <<"t", "u">>, <<"c", "d">>), LastChunk>>,
     <<Chunk(<<"1">>, <<"s">>, <<"a">>), LastChunk>>, <<LastChunk>>}

\* One component at a time; the others are over.
restVars == <<au, poolVars, pqVars, xdVars, cpVars>>
vars == <<listVars, mdVars, mqVars, brVars, restVars>>
NoListing ==
    LET r == CHOOSE r \in Requests : TRUE
    IN  /\ index = {} /\ ls = [NewPage(r, 0) EXCEPT !.pc = "gone"]
        /\ listing = [asked |-> r, keys |-> <<>>, groups |-> <<>>, changes |-> MaxChanges,
                      big |-> 0, stable |-> {}, ever |-> {}]
        /\ slips = {}
NoDelete ==
    /\ contents = [k \in {1} |-> None] /\ stored = {} /\ mdRecs = {}
    /\ mdSlips = [stayed |-> {}, forgot |-> {}]
    /\ md = [NewMultiDelete(<<>>, TRUE) EXCEPT !.pc = "done", !.reply = "result"]
NoMeta == mq = <<>> /\ meta = <<>> /\ mqShutdown = TRUE
NoRemoval ==
    /\ br = [NewRemoval(MaxFailures) EXCEPT !.pc = "done", !.reply = "deleted"]
    /\ bucket = [present |-> FALSE, objects |-> FALSE, uploads |-> {}, partIndexes |-> {},
                 indexes |-> {}, put |-> FALSE, corrupt |-> {}, lost |-> {}]
NoQuestion == au = [HandlerOnFailed(NewQuestion("validation")) EXCEPT !.connected = FALSE]
NoPools ==
    /\ pools = [u \in Units |-> NoPool] /\ freeSpace = 0 /\ poolCall = Calls("stopped", 0, 0)
NoPosts == pq = NewQueue /\ pqLog = [next |-> Posts + 1, accepted |-> <<>>, sent |-> <<>>]
NoMultipart ==
    /\ xd = [NewXd(TRUE) EXCEPT !.pc = "stopped"]
    /\ xs = [parts |-> {1}, listed |-> TRUE, version |-> TRUE, data |-> {1}, ext |-> {1}, recs |-> {}]
NoChunks == cp = NewParser(0) /\ wire = [body |-> <<>>, text |-> <<>>, pos |-> 0]
NoRequest == NoListing /\ NoDelete /\ NoMeta /\ NoRemoval
NoOther == NoMultipart /\ NoChunks
Init ==
    \/ ListInit /\ NoDelete /\ NoMeta /\ NoRemoval /\ NoQuestion /\ NoPools /\ NoPosts /\ NoOther
    \/ MdInit /\ NoListing /\ NoMeta /\ NoRemoval /\ NoQuestion /\ NoPools /\ NoPosts /\ NoOther
    \/ MetaInit /\ NoListing /\ NoDelete /\ NoRemoval /\ NoQuestion /\ NoPools /\ NoPosts /\ NoOther
    \/ BrInit /\ NoListing /\ NoDelete /\ NoMeta /\ NoQuestion /\ NoPools /\ NoPosts /\ NoOther
    \/ NoRequest /\ AuthInit /\ NoPools /\ NoPosts /\ NoOther
    \/ NoRequest /\ NoQuestion /\ PoolInit /\ NoPosts /\ NoOther
    \/ NoRequest /\ NoQuestion /\ NoPools /\ PqInit /\ NoOther
    \/ NoRequest /\ NoQuestion /\ NoPools /\ NoPosts /\ XdInit /\ NoChunks
    \/ NoRequest /\ NoQuestion /\ NoPools /\ NoPosts /\ NoMultipart /\ CpInit
Next ==
    \/ ListNext /\ UNCHANGED <<mdVars, mqVars, brVars, restVars>>
    \/ MdNext /\ UNCHANGED <<listVars, mqVars, brVars, restVars>>
    \/ MetaNext /\ UNCHANGED <<listVars, mdVars, brVars, restVars>>
    \/ BrNext /\ UNCHANGED <<listVars, mdVars, mqVars, restVars>>
    \/ /\ UNCHANGED <<listVars, mdVars, mqVars, brVars>>
       /\ \/ AuthNext /\ UNCHANGED <<poolVars, pqVars, xdVars, cpVars>>
          \/ PoolNext /\ UNCHANGED <<au, pqVars, xdVars, cpVars>>
          \/ PqNext /\ UNCHANGED <<au, poolVars, xdVars, cpVars>>
          \/ XdNext /\ UNCHANGED <<au, poolVars, pqVars, cpVars>>
          \/ CpNext /\ UNCHANGED <<au, poolVars, pqVars, xdVars>>
Spec ==
    /\ Init /\ [][Next]_vars
    /\ ListFairness /\ MdFairness /\ MetaFairness /\ BrFairness
    /\ AuthFairness /\ PoolFairness /\ PqFairness

=============================================================================
