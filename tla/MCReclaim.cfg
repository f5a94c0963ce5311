SPECIFICATION FairSpec
CONSTANTS
    p1 = p1
    p2 = p2
    c1 = c1
    k1 = k1
    NoOid = NoOid
    NoRec = NoRec
    Put = {p1, p2}
    Delete = {}
    Name = {k1}
    Consumer = {c1}
    VKey = {p1, p2}
    ObjName <- OneName
    VersionKey <- OwnVersion
    ZeroSize = {}
    Fallible = {"save_object", "delete_old"}
    CanStop = {p1}
    DelayedDelete = FALSE
    DelayCovers = 2
    MaxKeys = 9
INVARIANTS LeakIInv
PROPERTIES GarbageIsReclaimed RecordsDrain
CHECK_DEADLOCK FALSE
