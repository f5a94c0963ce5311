SPECIFICATION FairSpec
CONSTANTS
    b1 = b1
    b2 = b2
    c1 = c1
    c2 = c2
    u1 = u1
    d1 = d1
    r1 = r1
    Request = {c1, c2, u1, d1, r1}
    Bucket = {b1, b2}
    Kind <- KindByName
    BucketOf <- BucketByName
    MaxCacheSize = 1
    Fallible = {"load_info", "create_indexes", "remove_global", "save_info"}
    NoBucket = NoBucket
    NoItem = NoItem
    NoEngine = NoEngine
    NoRequest = NoRequest
INVARIANTS CacheIsBounded WaitersAreServed ChangeIsOwned CreatesNewBucket CachedBucketExists
PROPERTIES EveryRequestEnds
CHECK_DEADLOCK FALSE
