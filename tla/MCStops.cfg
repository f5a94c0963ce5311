SPECIFICATION Spec
CONSTANTS
    p1 = p1
    p2 = p2
    d1 = d1
    c1 = c1
    k1 = k1
    NoOid = NoOid
    NoRec = NoRec
    Put = {p1, p2}
    Delete = {d1}
    Name = {k1}
    Consumer = {c1}
    VKey = {p1, p2}
    ObjName <- OneName
    VersionKey <- OwnVersion
    ZeroSize = {}
    Fallible = {}
    CanStop = {p1, p2, d1}
    DelayedDelete = FALSE
    DelayCovers = 1
    MaxKeys = 9
VIEW View
SYMMETRY PutSymmetry
INVARIANTS TypeOK LiveHasData LiveIsVersioned ForcedIsDead UploadIsLeftAlone
CHECK_DEADLOCK FALSE
