----------------------- MODULE BucketCacheProperties -----------------------
(* What the bucket metadata cache must keep to. *)
EXTENDS BucketMetadataCache

ListsItems(seq) == ToSet(seq) = Cached /\ Len(seq) = Cardinality(Cached)

\* The cache never holds more items than max_cache_size, and both lists that
\* shrink() walks hold every item once.
CacheIsBounded ==
    /\ Cardinality(Cached) <= MaxCacheSize
    /\ ListsItems(byAccess) /\ ListsItems(byUpdate)

\* No fetch is forgotten: a request that has called load() is in the queue of
\* its bucket's item and nowhere else, and an engine is at work whose end
\* will answer the queue, also after on_load() has dropped a load.
WaitersAreServed ==
    ~crashed => \A r \in Request, b \in Bucket :
        /\ (pc[r] = "loading" /\ b = BucketOf[r])
              <=> (b \in Cached /\ \E i \in DOMAIN item[b].waiters :
                                      item[b].waiters[i] = r)
        /\ b \in Cached /\ item[b].waiters # <<>> => ~Idle(item[b])

\* A request that saves, updates or removes metadata owns the handler that
\* the end of the modification calls, whatever ran in between, so it gets
\* its own answer and nobody else's.
ChangeIsOwned ==
    ~crashed => \A r \in Request, b \in Bucket :
        (pc[r] = "changing" /\ b = BucketOf[r])
            <=> (b \in Cached /\ item[b].on_changed = r
                 /\ item[b].modify # NoEngine
                 /\ item[b].op = IF Kind[r] = "delete" THEN "deleting"
                                                       ELSE "saving")

\* PutBucket never writes over a bucket: when the save of an item reaches
\* Motr the bucket is not there, however many PutBucket requests have been
\* told that it is missing.  The exception is an entry that an update has
\* put back after the bucket was removed.
CreatesNewBucket ==
    \A b \in Cached :
        item[b].modify # NoEngine /\ item[b].modify.outcome = "sent"
            /\ item[b].modify.step = "save_global"
        => \/ ~global[b]
           \/ info[b] = NoBucket
           \/ \E r \in info[b] : Kind[r] = "update"

\* What the cache serves exists: an item that is not being modified has no
\* value for a bucket whose metadata has been removed from Motr.
CachedBucketExists ==
    ~crashed => \A b \in Cached :
        item[b].modify = NoEngine /\ item[b].value.state = "present"
            /\ item[b].age < 2
        => info[b] # NoBucket

\* Every request that comes to the cache leaves it with an answer, unless
\* the process ends.
EveryRequestEnds ==
    \A r \in Request : pc[r] # "idle" ~> (pc[r] = "done" \/ crashed)

\* Item::~Item: no item is destroyed while an engine of it is at work.
NoneDestroyedBusy == ~crashed

-----------------------------------------------------------------------------
(***************************************************************************)
(* The inductive invariant behind the properties above.                    *)
(***************************************************************************)
IsOnce(seq) == \A i, j \in DOMAIN seq : seq[i] = seq[j] => i = j

CacheTypeOK ==
    /\ global \in [Bucket -> BOOLEAN]
    /\ info \in [Bucket -> (SUBSET Request) \cup {NoBucket}]
    /\ item \in [Bucket -> Item \cup {NoItem}]
    /\ byAccess \in Seq(Bucket) /\ byUpdate \in Seq(Bucket)
    /\ pc \in [Request -> {"idle", "loading", "ready", "changing", "done"}]
    /\ proxy \in [Request -> Metadata]
    /\ crashed \in BOOLEAN

\* Both lists hold every item once, and there are not too many.
ListsInv ==
    /\ IsFiniteSet(Cached) /\ Cardinality(Cached) <= MaxCacheSize
    /\ IsOnce(byAccess) /\ ToSet(byAccess) = Cached
    /\ IsOnce(byUpdate) /\ ToSet(byUpdate) = Cached

\* A save would write over nothing that a client has created.
MayCreate(b) ==
    \/ ~global[b]
    \/ info[b] = NoBucket
    \/ \E r \in info[b] : Kind[r] = "update"

IsRemoving(it) == it.modify # NoEngine /\ it.modify.step \in RemoveSteps

\* What the engines of an item do, and on whose behalf.
EngineInv(it) ==
    /\ (it.modify # NoEngine) <=> (it.op \in {"saving", "deleting"})
    /\ it.modify # NoEngine =>
          /\ (it.modify.step \in RemoveSteps) <=> (it.op = "deleting")
          /\ it.modify.step \in SaveSteps => it.load = NoEngine
          /\ it.modify.step = "update_info" =>
                \E r \in it.modify.meta.has : Kind[r] = "update"

\* The requests of an item: one owns the modification, the others wait, and
\* an engine is at work that ends their wait.
RequestInv(b, it) ==
    /\ it.modify # NoEngine =>
          /\ it.on_changed \in Request
          /\ BucketOf[it.on_changed] = b
          /\ pc[it.on_changed] = "changing"
          /\ (Kind[it.on_changed] = "delete") <=> (it.op = "deleting")
    /\ IsOnce(it.waiters)
    /\ \A r \in ToSet(it.waiters) : BucketOf[r] = b /\ pc[r] = "loading"
    /\ it.waiters # <<>> => ~Idle(it)

\* What an item and its load know of the two indexes.
ValueInv(b, it) ==
    /\ it.load # NoEngine /\ it.load.outcome = "missing" => MayCreate(b)
    /\ it.load # NoEngine /\ it.load.step = "load_info" /\ it.load.outcome = "success" =>
          info[b] # NoBucket \/ IsRemoving(it)
    /\ it.modify # NoEngine /\ it.modify.step \in {"save_info", "update_info"}
          /\ it.modify.outcome = "success" => info[b] # NoBucket
    /\ it.value.state = "present" /\ it.age < 2 => info[b] # NoBucket \/ IsRemoving(it)

\* A request is where its item has it.
Placed(r) ==
    /\ pc[r] = "loading" =>
          /\ BucketOf[r] \in Cached
          /\ r \in ToSet(item[BucketOf[r]].waiters)
    /\ pc[r] = "ready" => Kind[r] \in {"update", "delete"}
    /\ pc[r] = "changing" =>
          /\ BucketOf[r] \in Cached
          /\ item[BucketOf[r]].on_changed = r
          /\ item[BucketOf[r]].modify # NoEngine

PlaceInv == \A r \in Request : Placed(r)

ItemsInv == \A b \in Cached : EngineInv(item[b]) /\ RequestInv(b, item[b])
                                                /\ ValueInv(b, item[b])

CacheIInv ==
    /\ CacheTypeOK /\ ListsInv /\ CreatesNewBucket
    /\ crashed \/ (ItemsInv /\ PlaceInv)
=============================================================================
