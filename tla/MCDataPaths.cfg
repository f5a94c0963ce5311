SPECIFICATION Spec
CONSTANTS
    Kind = {"object", "part", "chunked", "chunkedPart"}
    Wire <- MCWire
    Payload = 2
    ReadAhead = 1
    MaxRead = 2
    Fault <- Faults
    UndoTasks = 2
    Stored <- MCStored
    Headers <- MCHeaders
    SizeT = 1024
    MaxBlocks = 2
    FirstRead = 1
    OutMultiple = 1
    GetFault = {"low", "leave", "shutdown", "memory", "launch", "openLaunch"}
    Copies <- MCCopies
    CopyFault = {"leave", "shutdown", "launch", "memory", "exception"}
    CopyBlocks = 2
    MaxParallel = 2
    QuietSize = 4
    MaxCollisions = 1
INVARIANT SavedIsWhole
INVARIANT ReplyIsRight
INVARIANT RangeIsExpected
INVARIANT LiveIsKept
INVARIANT CopyGarbageIsRecorded
INVARIANT BuffersAreBounded
INVARIANT NoneCallsBackTheGone
PROPERTY ClientIsAnswered
CHECK_DEADLOCK FALSE
