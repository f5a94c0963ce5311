SPECIFICATION Spec
CONSTANTS
    p1 = p1
    p2 = p2
    d1 = d1
    k1 = k1
    NoOid = NoOid
    NoRec = NoRec
    Put = {p1, p2}
    Delete = {d1}
    Name = {k1}
    Consumer = {}
    VKey = {p1, p2}
    ObjName <- OneName
    VersionKey <- OwnVersion
    ZeroSize = {}
    Fallible <- RecordedSteps
    CanStop = {p1, p2, d1}
    DelayedDelete = FALSE
    DelayCovers = 1
    MaxKeys = 0
VIEW View
SYMMETRY PutSymmetry
INVARIANTS GarbageIsRecorded
CHECK_DEADLOCK FALSE
