SPECIFICATION Spec
CONSTANTS
    b1 = b1
    b2 = b2
    c1 = c1
    c2 = c2
    u1 = u1
    d1 = d1
    r1 = r1
    Request = {c1, d1}
    Bucket = {b1}
    Kind <- KindByName
    BucketOf <- BucketByName
    MaxCacheSize = 1
    Fallible = {}
    NoBucket = NoBucket
    NoItem = NoItem
    NoEngine = NoEngine
    NoRequest = NoRequest
INVARIANTS NoneDestroyedBusy
CHECK_DEADLOCK FALSE
