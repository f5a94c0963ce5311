SPECIFICATION Spec
CONSTANTS
    u0 = u0
    u1 = u1
    u2 = u2
    p1 = p1
    p2 = p2
    q1 = q1
    q2 = q2
    s1 = s1
    c0 = c0
    c1 = c1
    c2 = c2
    a1 = a1
    Upload = {u0, u1, u2}
    PartReq = {p1, q1, q2, s1}
    Complete = {c0, c1, c2}
    Abort = {}
    Simple = Simple
    UploadOf <- MCUploadOf
    MaxPart = 2
    PartNumber <- MCPartNumber
    Asked <- MCAsked
    Past = {c0}
    PastParts <- MCPastParts
    OpenParts <- BothOpen
    Fallible <- SaveFaults
    CanStop = {}
    CanLeave = {}
    DelayCovers = TRUE
    MaxRunning = 2
    NoOid = NoOid
    NoVer = NoVer
INVARIANT LivePartsStored
CHECK_DEADLOCK FALSE
