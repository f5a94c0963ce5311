SPECIFICATION Spec
CONSTANTS
    Kind = {"object", "part", "chunked", "chunkedPart"}
    Wire <- MCWire
    Payload = 2
    ReadAhead = 1
    MaxRead = 2
    Fault <- Faults
    UndoTasks = 2
    Stored <- MCUnaligned
    Headers <- MCNoRange
    SizeT = 1024
    MaxBlocks = 2
    FirstRead = 1
    OutMultiple = 1
    GetFault = {"low", "leave", "shutdown"}
    Copies <- MCCopies
    CopyFault = {"leave", "shutdown"}
    CopyBlocks = 2
    MaxParallel = 2
    QuietSize = 4
    MaxCollisions = 1
INVARIANT SentIsRequested
CHECK_DEADLOCK FALSE
