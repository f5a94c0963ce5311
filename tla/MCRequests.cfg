SPECIFICATION Spec
CONSTANTS
    Keys <- MCKeys
    Requests <- MCListings
    Corrupt = {4}
    BigKinds = {"objects", "parts"}
    MaxBig = 1
    MaxChanges = 1
    ListFault = {"fail", "leave", "shutdown"}
    MdRequests <- MCDeletes
    MdContents <- MCContents
    MdCorrupt = {4}
    MdBatch = 2
    MdNew <- MCNew
    MdFault = {"read", "load", "write", "keys", "launch", "delete", "replace"}
    MetaRequests <- MCMeta
    TagBodies <- MCBodies
    ObjectMaxTags = 1
    BucketMaxTags = 2
    MetaFault = {"load", "denied", "refused", "save", "timeout", "leave", "shutdown"}
    BrBuckets <- MCBuckets
    BrFetch = 2
    BrFault = {"load", "read", "launch", "write", "remove", "uploads", "partIndex", "leave", "put"}
    MaxFailures = 3
    AuthOps = {"combo", "authorization", "validation"}
    MaxAuthRetry = 2
    AuthFault = {"prepare", "connection", "refused", "split", "empty", "leave"}
    Units = {2, 4}
    MaxMemory = 16
    InitialCount = 1
    ExpandCount = 2
    MaxHeld = 6
    PoolFault = {"malloc"}
    MaxErr = 2
    MaxMsgs = 2
    Posts = 4
    PqFault = {"connect", "event", "status", "lost", "malformed"}
    XdObjects <- MCObjects
    XdBatch = 1
    XdFault = {"load", "ext", "remove", "version", "mark", "keys", "data", "entries", "records", "leave", "stop"}
    CpBodies <- MCChunks
    CpBuffer = 3
    CpKey = 2
INVARIANT ListingIsRight
INVARIANT MdStoreIsSafe
INVARIANT MdReportIsTrue
INVARIANT MetaAnswerIsTrue
INVARIANT RemovalIsSafe
INVARIANT AuthCallsBackOnce
INVARIANT AnswerIsFinal
INVARIANT MemoryIsCounted
INVARIANT OneCallBack
INVARIANT SentInOrder
INVARIANT PartsAreNamed
INVARIANT ParsedIsWhole
 
CHECK_DEADLOCK FALSE
