SPECIFICATION Spec
CONSTANTS
    u0 = u0
    u1 = u1
    u2 = u2
    p1 = p1
    p2 = p2
    q1 = q1
    q2 = q2
    s1 = s1
    c0 = c0
    c1 = c1
    c2 = c2
    a1 = a1
    Upload = {u1}
    PartReq = {p1, p2}
    Complete = {c1}
    Abort = {a1}
    Simple = Simple
    UploadOf <- MCUploadOf
    MaxPart = 1
    PartNumber <- MCPartNumber
    Asked <- MCAsked
    Past = {}
    PastParts <- MCPastParts
    OpenParts <- NoneOpen
    Fallible <- PartFaults
    CanStop = {p1}
    CanLeave <- PartLeaves
    DelayCovers = FALSE
    MaxRunning = 2
    NoOid = NoOid
    NoVer = NoVer
INVARIANT UploadPartsStored
CHECK_DEADLOCK FALSE
