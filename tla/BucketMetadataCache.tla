------------------------ MODULE BucketMetadataCache ------------------------
(***************************************************************************)
(* The bucket metadata cache of one s3server instance and the requests     *)
(* that load, create, update and remove buckets through it.  A cache item  *)
(* has up to two engines (S3BucketMetadataV1), one that loads and one that *)
(* modifies; an engine is a chain of Motr key-value operations, executed   *)
(* by Motr at one moment and answered on the event loop at a later one.    *)
(* Everything the event loop runs for one answer is one action here.       *)
(***************************************************************************)
EXTENDS Naturals, Sequences, FiniteSets, SequencesExt

CONSTANTS
    Request,       \* bucket requests of this instance
    Bucket,        \* bucket names
    Kind,          \* what a request does: [Request -> Kinds]
    BucketOf,      \* the bucket it addresses: [Request -> Bucket]
    MaxCacheSize,  \* bucket_metadata_cache_max_size
    Fallible,      \* key-value operations that may fail, by name
    NoBucket, NoItem, NoEngine, NoRequest

\* PutBucket; PUT or DELETE of a policy, an ACL or tags; DeleteBucket; others.
Kinds == {"create", "update", "delete", "read"}

LoadSteps == {"load_global", "load_info"}
SaveSteps == {"save_global", "create_indexes", "save_info", "cleanup_global"}
RemoveSteps == {"remove_info", "remove_global"}

\* What an engine or an item knows of a bucket, and the requests whose changes
\* that holds.
Metadata == [state : {"empty", "present", "missing", "failed"},
             has : SUBSET Request]

\* S3BucketMetadataV1.  "exists" is the last index id collision that
\* handle_collision puts up with.
LoadEngine == [step : LoadSteps,
               outcome : {"sent", "success", "missing", "failed"},
               meta : Metadata]
ModifyEngine == [step : SaveSteps \cup RemoveSteps \cup {"update_info"},
                 outcome : {"sent", "success", "failed", "exists"},
                 meta : Metadata]

Item == [value : Metadata, age : 0..2,
         op : {"none", "fetching", "saving", "deleting"},
         on_changed : Request \cup {NoRequest}, waiters : Seq(Request),
         load : LoadEngine \cup {NoEngine},
         modify : ModifyEngine \cup {NoEngine}]

ASSUME CacheAssumption ==
    /\ Kind \in [Request -> Kinds]
    /\ BucketOf \in [Request -> Bucket]
    /\ MaxCacheSize \in Nat
    /\ \A changes \in SUBSET Request : changes # NoBucket
    /\ NoBucket \notin Bucket
    /\ NoRequest \notin Request
    /\ NoEngine \notin LoadEngine \cup ModifyEngine
    /\ NoItem \notin Item

VARIABLES
    global,    \* global bucket list index: the buckets with an account id
    info,      \* bucket metadata index: the changes a bucket's entry holds
    item,      \* items: bucket -> cache item
    byAccess,  \* sorted_by_access, last accessed first
    byUpdate,  \* sorted_by_update, last updated first
    pc,        \* where a request stands
    proxy,     \* S3BucketMetadataProxy: the metadata a request has, until
               \* it has been answered
    crashed    \* s3_fatal_handler has ended the process

kvs == <<global, info>>
lists == <<byAccess, byUpdate>>
reqs == <<pc, proxy>>
vars == <<kvs, item, lists, reqs, crashed>>

Meta(state, has) == [state |-> state, has |-> has]
Empty == Meta("empty", {})

NewEngine(step, meta) == [step |-> step, outcome |-> "sent", meta |-> meta]

\* Age of a value: below the refresh interval, below the expiration
\* interval, expired.  An item that was never updated is expired.
NewItem(src) == [value |-> src, age |-> 2, op |-> "none",
                 on_changed |-> NoRequest, waiters |-> <<>>,
                 load |-> NoEngine, modify |-> NoEngine]

Cached == {b \in Bucket : item[b] # NoItem}

Init ==
    /\ \E created \in SUBSET Bucket :
          /\ global = [b \in Bucket |-> b \in created]
          /\ info = [b \in Bucket |-> IF b \in created THEN {} ELSE NoBucket]
    /\ item = [b \in Bucket |-> NoItem]
    /\ byAccess = <<>> /\ byUpdate = <<>>
    /\ pc = [r \in Request |-> "idle"]
    /\ proxy = [r \in Request |-> Empty]
    /\ crashed = FALSE

(***************************************************************************)
(* get_item.  A full cache gives up its oldest idle item if that has       *)
(* expired, else the idle item that was accessed least recently.  If all   *)
(* items are busy there is no item, and the request fails to launch.       *)
(***************************************************************************)
\* Mutant: only a load keeps an item from being removed.
Idle_LoadOnly(it) == it.load = NoEngine

Idle(it) == it.load = NoEngine /\ it.modify = NoEngine   \* can_remove

LastOf(seq, S) ==
    {b \in S : \E i \in DOMAIN seq :
                  seq[i] = b /\ \A j \in (i + 1)..Len(seq) : seq[j] \notin S}

Removable == {b \in Cached : Idle(item[b])}

\* The search stops at the first item that has not expired.
Expired ==
    {b \in Removable : \E i \in DOMAIN byUpdate :
        byUpdate[i] = b
        /\ \A j \in i..Len(byUpdate) : item[byUpdate[j]].age = 2}

Shrink == LastOf(IF Expired # {} THEN byUpdate ELSE byAccess,
                 IF Expired # {} THEN Expired ELSE Removable)

\* Mutant: the item that is about to be added is not counted.
IsFull_BeforeAdding(b) == Cardinality(Cached) > MaxCacheSize

IsFull(b) == Cardinality(Cached \cup {b}) > MaxCacheSize

\* What get_item may evict to hold b: at most one item.
Evictions(b) == IF IsFull(b) THEN Shrink ELSE {NoBucket}

Entry(b, src) == IF b \in Cached THEN item[b] ELSE NewItem(src)

\* The item of b after get_item, changed to it.
GetItem(b, evicted, it) ==
    /\ item' = [c \in Bucket |-> IF c = b THEN it
                                 ELSE IF c = evicted THEN NoItem
                                 ELSE item[c]]
    /\ byAccess' = <<b>> \o RemoveFirst(RemoveFirst(byAccess, evicted), b)
    /\ byUpdate' = IF b \in Cached THEN RemoveFirst(byUpdate, evicted)
                   ELSE Append(RemoveFirst(byUpdate, evicted), b)

(***************************************************************************)
(* Item::fetch.  A value that is not yet due for a refresh is served at    *)
(* once; when it is due, one request is kept to wait for the refresh.      *)
(***************************************************************************)
\* Where a request goes when it has been handed metadata in some state;
\* PutBucket is the only one that goes on without a bucket.
AfterLoad(r, state) ==
    IF state = "present" /\ Kind[r] \in {"update", "delete"} THEN "ready"
    ELSE IF state = "missing" /\ Kind[r] = "create" THEN "changing"
    ELSE "done"

\* S3BucketMetadataProxy::on_load; the proxy of a request that ends goes.
Loaded(r, value) ==
    CASE AfterLoad(r, value.state) = "ready" -> value
      [] AfterLoad(r, value.state) = "changing" -> Meta("missing", {})
      [] OTHER -> Empty

IsServed(it, waiters) ==
    /\ it.value.state = "present"
    /\ \/ it.age = 0
       \/ it.age = 1 /\ Len(waiters) > 1

\* Mutant: a load is started although the item is being modified.
StartLoad_WhileModify(it) ==
    IF it.load # NoEngine THEN it
    ELSE [it EXCEPT !.load = NewEngine("load_global", it.value),
                    !.op = "fetching"]

\* Mutant: a value that has not expired is not loaded again.
StartLoad_WhenExpired(it) ==
    IF ~Idle(it) \/ it.age < 2 THEN it
    ELSE [it EXCEPT !.load = NewEngine("load_global", it.value),
                    !.op = "fetching"]

StartLoad(it) ==
    IF ~Idle(it) THEN it
    ELSE [it EXCEPT !.load = NewEngine("load_global", it.value),
                    !.op = "fetching"]

\* The request is told failed_to_launch.
Refuse(r) ==
    /\ pc' = [pc EXCEPT ![r] = "done"]
    /\ proxy' = [proxy EXCEPT ![r] = Empty]

Fetch(r) ==
    LET b == BucketOf[r]
        it == Entry(b, proxy[r])
        queue == Append(it.waiters, r)
    IN  /\ pc[r] = "idle" /\ ~crashed
        /\ \/ \E evicted \in Evictions(b) :
                 \/ /\ IsServed(it, queue)
                    /\ GetItem(b, evicted, [it EXCEPT !.waiters = Tail(queue)])
                    /\ pc' = [pc EXCEPT ![r] = "loading",
                                 ![Head(queue)] = AfterLoad(Head(queue), "present")]
                    /\ proxy' = [proxy EXCEPT ![Head(queue)] =
                                    Loaded(Head(queue), it.value)]
                 \/ /\ ~IsServed(it, queue)
                    /\ GetItem(b, evicted,
                               StartLoad([it EXCEPT !.waiters = queue]))
                    /\ pc' = [pc EXCEPT ![r] = "loading"]
                    /\ UNCHANGED proxy
           \/ /\ Evictions(b) = {}
              /\ Refuse(r)
              /\ UNCHANGED <<item, lists>>
        /\ UNCHANGED <<kvs, crashed>>

(***************************************************************************)
(* Item::save, update and remove.  One modification at a time: the others  *)
(* are refused.  An update carries the metadata its request has loaded,    *)
(* changed by the request.                                                 *)
(***************************************************************************)
\* Mutant: a modification is started over another one.
IsModified_Never(it) == FALSE

IsModified(it) == it.modify # NoEngine

Modify(it, r, op, engine) ==
    [it EXCEPT !.op = op, !.on_changed = r, !.modify = engine]

Save(it, r) == Modify(it, r, "saving",
                      NewEngine("save_global", Meta("missing", {r})))

Change(r) ==
    LET b == BucketOf[r]
        it == Entry(b, proxy[r])
        changed == Meta("present", proxy[r].has \cup {r})
    IN  /\ pc[r] = "ready" /\ ~crashed
        /\ \/ \E evicted \in Evictions(b) :
                 \/ /\ IsModified(it)
                    /\ GetItem(b, evicted, it)
                    /\ Refuse(r)
                 \/ /\ ~IsModified(it)
                    /\ GetItem(b, evicted,
                          IF Kind[r] = "update"
                          THEN Modify(it, r, "saving",
                                      NewEngine("update_info", changed))
                          ELSE Modify(it, r, "deleting",
                                      NewEngine("remove_info", it.value)))
                    /\ pc' = [pc EXCEPT ![r] = "changing"]
                    /\ UNCHANGED proxy
           \/ /\ Evictions(b) = {}
              /\ Refuse(r)
              /\ UNCHANGED <<item, lists>>
        /\ UNCHANGED <<kvs, crashed>>

\* Authorization or the checks of the action fail: nothing is changed.
GiveUp(r) ==
    /\ pc[r] = "ready" /\ ~crashed
    /\ pc' = [pc EXCEPT ![r] = "done"]
    /\ proxy' = [proxy EXCEPT ![r] = Empty]
    /\ UNCHANGED <<kvs, item, lists, crashed>>

(***************************************************************************)
(* Motr executes the operation an engine has sent.                         *)
(***************************************************************************)
Executed(e, outcome) == [e EXCEPT !.outcome = outcome]

MotrLoads(b) ==
    LET e == item[b].load
        found == IF e.step = "load_global" THEN global[b]
                                           ELSE info[b] # NoBucket
        read == IF e.step = "load_info" /\ found THEN info[b] ELSE e.meta.has
    IN  /\ b \in Cached /\ ~crashed
        /\ e # NoEngine /\ e.outcome = "sent"
        /\ \/ item' = [item EXCEPT ![b].load =
                          [e EXCEPT !.outcome = IF found THEN "success"
                                                         ELSE "missing",
                                    !.meta.has = read]]
           \/ /\ e.step \in Fallible
              /\ item' = [item EXCEPT ![b].load = Executed(e, "failed")]
        /\ UNCHANGED <<kvs, lists, reqs, crashed>>

MotrWrites(b, step) ==
    /\ global' = [global EXCEPT ![b] =
                     IF step \in {"remove_global", "cleanup_global"} THEN FALSE
                     ELSE (step = "save_global" \/ @)]
    /\ info' = [info EXCEPT ![b] =
                   IF step = "remove_info" THEN NoBucket
                   ELSE IF step \in {"save_info", "update_info"}
                        THEN item[b].modify.meta.has
                   ELSE @]

\* Removing a key that is not there fails.
KeyMissing(b, step) ==
    \/ step = "remove_info" /\ info[b] = NoBucket
    \/ step \in {"remove_global", "cleanup_global"} /\ ~global[b]

MotrModifies(b) ==
    LET e == item[b].modify
    IN  /\ b \in Cached /\ ~crashed
        /\ e # NoEngine /\ e.outcome = "sent"
        /\ \/ /\ ~KeyMissing(b, e.step)
              /\ MotrWrites(b, e.step)
              /\ item' = [item EXCEPT ![b].modify = Executed(e, "success")]
           \/ /\ e.step \in Fallible \/ KeyMissing(b, e.step)
              /\ \E outcome \in {"failed"} \cup
                      (IF e.step = "create_indexes" THEN {"exists"} ELSE {}) :
                    item' = [item EXCEPT ![b].modify = Executed(e, outcome)]
              /\ UNCHANGED kvs
        /\ UNCHANGED <<lists, reqs, crashed>>

(***************************************************************************)
(* The callbacks of an engine: the next operation, or the state it ends    *)
(* in.  A failed creation takes back the entry of the global list first,   *)
(* unless it failed for index id collisions.                               *)
(***************************************************************************)
NextStep(e) ==
    CASE e.step = "load_global" /\ e.outcome = "success" -> "load_info"
      [] e.step = "save_global" /\ e.outcome = "success" -> "create_indexes"
      [] e.step = "create_indexes" /\ e.outcome = "success" -> "save_info"
      [] e.step = "remove_info" /\ e.outcome = "success" -> "remove_global"
      [] e.step \in {"create_indexes", "save_info"} /\ e.outcome = "failed"
            -> "cleanup_global"
      [] OTHER -> "end"

EndState(e) ==
    IF e.step = "cleanup_global" \/ e.outcome \in {"failed", "exists"}
    THEN "failed"
    ELSE IF e.step = "remove_global" \/ e.outcome = "missing" THEN "missing"
    ELSE "present"

Continue(e) == [e EXCEPT !.step = NextStep(e), !.outcome = "sent"]

(***************************************************************************)
(* Item::on_done for the engine e of the item of b, after which the item   *)
(* has the load engine load.  The waiters are answered first, all of them; *)
(* the first PutBucket that learns that the bucket is missing starts a     *)
(* save there and then, and the handler it leaves in on_changed is the one *)
(* that is called when the engine was a modification.  A request whose     *)
(* client has gone ends instead.  Then a failed or deleted item is         *)
(* destroyed, which is fatal if an engine is still there.                  *)
(***************************************************************************)
\* Mutant: the item of a deleted bucket stays, to say that it is missing.
IsRemoved_Failed(op, state) == state = "failed"

IsRemoved(op, state) == state = "failed" \/ op = "deleting"

\* Item::~Item calls s3_fatal_handler.
IsFatal(it) == ~Idle(it)

Creators(it, state) ==
    {r \in ToSet(it.waiters) : AfterLoad(r, state) = "changing"}

FirstOf(seq, S) == seq[SelectInSeq(seq, LAMBDA r : r \in S)]

Answer(b, e, load, gone) ==
    LET it == item[b]
        state == EndState(e)
        value == Meta(state, e.meta.has)
        waiting == ToSet(it.waiters)
        creators == Creators(it, state)
        first == IF creators \subseteq gone THEN NoRequest
                 ELSE FirstOf(it.waiters, creators \ gone)
        rest == [it EXCEPT !.value = value, !.age = 0, !.op = "none",
                           !.waiters = <<>>, !.modify = NoEngine,
                           !.load = load]
        served == IF first = NoRequest THEN rest ELSE Save(rest, first)
        told == IF it.op \in {"saving", "deleting"} THEN served.on_changed
                                                    ELSE NoRequest
        after == IF told = NoRequest THEN served
                 ELSE [served EXCEPT !.on_changed = NoRequest]
        removed == IsRemoved(it.op, state)
    IN  /\ item' = [item EXCEPT ![b] = IF removed THEN NoItem ELSE after]
        /\ byUpdate' = IF removed THEN RemoveFirst(byUpdate, b)
                       ELSE <<b>> \o RemoveFirst(byUpdate, b)
        /\ byAccess' = IF removed THEN RemoveFirst(byAccess, b)
                       ELSE IF first = NoRequest THEN byAccess
                       ELSE <<b>> \o RemoveFirst(byAccess, b)
        /\ pc' = [r \in Request |->
                     IF r = told \/ (r \in creators /\ r # first) THEN "done"
                     ELSE IF r \in waiting THEN AfterLoad(r, state)
                     ELSE pc[r]]
        /\ proxy' = [r \in Request |->
                     IF r = told \/ (r \in creators /\ r # first) THEN Empty
                     ELSE IF r \in waiting THEN Loaded(r, value)
                     ELSE proxy[r]]
        /\ crashed' = (removed /\ IsFatal(after))
        /\ UNCHANGED kvs

OnDone(b, e, load) ==
    \E gone \in SUBSET Creators(item[b], EndState(e)) : Answer(b, e, load, gone)

\* Item::on_load: a load that ends while the item is modified is dropped, its
\* waiters wait for the modification.
OnLoad(b) ==
    /\ b \in Cached /\ ~crashed
    /\ item[b].load # NoEngine /\ item[b].load.outcome # "sent"
    /\ \/ /\ NextStep(item[b].load) # "end"
          /\ item' = [item EXCEPT ![b].load = Continue(@)]
          /\ UNCHANGED <<kvs, lists, reqs, crashed>>
       \/ /\ NextStep(item[b].load) = "end"
          /\ item[b].modify # NoEngine
          /\ item' = [item EXCEPT ![b].load = NoEngine]
          /\ UNCHANGED <<kvs, lists, reqs, crashed>>
       \/ /\ NextStep(item[b].load) = "end"
          /\ item[b].modify = NoEngine
          /\ OnDone(b, item[b].load, NoEngine)

OnModify(b) ==
    /\ b \in Cached /\ ~crashed
    /\ item[b].modify # NoEngine /\ item[b].modify.outcome # "sent"
    /\ \/ /\ NextStep(item[b].modify) # "end"
          /\ item' = [item EXCEPT ![b].modify = Continue(@)]
          /\ UNCHANGED <<kvs, lists, reqs, crashed>>
       \/ /\ NextStep(item[b].modify) = "end"
          /\ OnDone(b, item[b].modify, item[b].load)


\* Time passes: a value ages, never before one that was updated earlier.
Age(b) ==
    /\ b \in Cached /\ ~crashed /\ item[b].age < 2
    /\ \A i \in DOMAIN byUpdate : byUpdate[i] = b =>
          \A j \in (i + 1)..Len(byUpdate) : item[byUpdate[j]].age > item[b].age
    /\ item' = [item EXCEPT ![b].age = @ + 1]
    /\ UNCHANGED <<kvs, lists, reqs, crashed>>

Next ==
    \/ \E r \in Request : Fetch(r) \/ Change(r) \/ GiveUp(r)
    \/ \E b \in Bucket : MotrLoads(b) \/ MotrModifies(b) \/ OnLoad(b)
                            \/ OnModify(b) \/ Age(b)

\* Motr executes what it is sent and libevent runs the callbacks; a loaded
\* request goes on when the authorization server has answered.
Fairness ==
    /\ \A r \in Request : WF_vars(Change(r) \/ GiveUp(r))
    /\ \A b \in Bucket : /\ WF_vars(MotrLoads(b))
                         /\ WF_vars(MotrModifies(b))
                         /\ WF_vars(OnLoad(b))
                         /\ WF_vars(OnModify(b))

Spec == Init /\ [][Next]_vars
FairSpec == Spec /\ Fairness
=============================================================================
