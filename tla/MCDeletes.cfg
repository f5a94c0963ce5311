SPECIFICATION Spec
CONSTANTS
    p1 = p1
    d1 = d1
    d2 = d2
    c1 = c1
    c2 = c2
    k1 = k1
    NoOid = NoOid
    NoRec = NoRec
    Put = {p1}
    Delete = {d1, d2}
    Name = {k1}
    Consumer = {c1, c2}
    VKey = {p1}
    ObjName <- OneName
    VersionKey <- OwnVersion
    ZeroSize = {p1}
    Fallible <- AllSteps
    CanStop = {p1, d1, d2}
    DelayedDelete = TRUE
    DelayCovers = 1
    MaxKeys = 1
VIEW View
SYMMETRY PutSymmetry
PROPERTIES ImplementsStore
CHECK_DEADLOCK FALSE
