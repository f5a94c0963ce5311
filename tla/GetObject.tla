----------------------------- MODULE GetObject -----------------------------
(***************************************************************************)
(* S3GetObjectAction and S3MotrReader: the object's data, or a range of    *)
(* it, is read from Motr block by block and sent to the client.  An object *)
(* that was uploaded in parts is read from the Motr objects of its parts.  *)
(* A byte is its position in the object, or Pad where a block goes past    *)
(* the end of its Motr object.                                             *)
(***************************************************************************)
EXTENDS Integers, Sequences, Functions

CONSTANTS
    Stored,        \* the objects: [parts: sequence of [size, unit], extended: BOOLEAN]
    Headers,       \* the Range headers: [kind, a, b]
    SizeT,         \* the number of values of a size_t
    MaxBlocks,     \* S3_MOTR_MAX_UNITS_PER_REQUEST
    FirstRead,     \* S3_MOTR_FIRST_READ_SIZE, in blocks
    OutMultiple,   \* S3_WRITE_BUFFER_MULTIPLE
    GetFault       \* what may go wrong

ASSUME BlocksAssumption == MaxBlocks \in Nat \ {0} /\ FirstRead \in Nat \ {0}
ASSUME OutMultipleAssumption == OutMultiple \in Nat \ {0}

VARIABLE get
-----------------------------------------------------------------------------
Pad == -1
PartStart(o, i) ==
    FoldFunctionOnSet(LAMBDA p, sum : p.size + sum, 0, o.parts, 1..(i - 1))
ContentLength(o) == PartStart(o, Len(o.parts) + 1)
Blocks(p) == (p.size + p.unit - 1) \div p.unit
Least(a, b) == IF a < b THEN a ELSE b

NewGet(o, h) ==
    [object |-> o, header |-> h, op |-> "load", timer |-> FALSE, opened |-> FALSE,
     reader |-> "start", first |-> 0, last |-> 0, frag |-> 1, total |-> 0,
     already |-> 0, blocks |-> 0, index |-> 0, sent |-> <<>>, sentObj |-> 0,
     out |-> 0, started |-> FALSE, status |-> 0, ended |-> 0, error |-> FALSE,
     scheduled |-> FALSE, connected |-> TRUE, shutdown |-> FALSE, gone |-> FALSE,
     refused |-> FALSE]

GetInit == \E o \in Stored, h \in Headers : get = NewGet(o, h)
-----------------------------------------------------------------------------
\* send_response_to_s3_client: what is left of the reply, then done.  An error
\* is a response of its own, also when a reply has been started.
Respond(s) ==
    LET one == IF s.connected THEN 1 ELSE 0
        new == IF s.scheduled THEN ~s.started
               ELSE \/ s.error
                    \/ /\ ContentLength(s.object) > 0 /\ s.reader # "success"
                       /\ ~s.started
    IN  [s EXCEPT !.status = @ + (IF new THEN one ELSE 0), !.ended = @ + one,
                  !.gone = TRUE]
RespondError(s) == Respond([s EXCEPT !.error = TRUE])

\* check_shutdown_and_rollback when the server is shutting down.
GetRollback(s) ==
    IF s.scheduled THEN s ELSE RespondError([s EXCEPT !.scheduled = TRUE])

\* read_object_data_failed: no error once the reply has been started.
ReadObjectDataFailed(s) == Respond([s EXCEPT !.error = @ \/ ~s.started])
-----------------------------------------------------------------------------
\* validate_range_header_and_set_read_options on unsigned offsets.
\* Mutant: a suffix is read as an offset.
FirstByte_Offset(h, length) == IF h.kind = "suffix" THEN h.b ELSE h.a
FirstByte(h, length) == IF h.kind = "suffix" THEN (length - h.b) % SizeT ELSE h.a
ReadOptions(h, length) ==
    LET full == h.kind \in {"none", "blank", "several"}
        first == IF full THEN 0 ELSE FirstByte(h, length)
        last == IF h.kind = "span" THEN Least(h.b, length - 1) ELSE length - 1
    IN  [first |-> first, last |-> last,
         valid |-> h.kind # "malformed" /\ first < length /\ first <= last]

IsFull(s) == s.first = 0 /\ s.last = ContentLength(s.object) - 1
Requested(s) == s.last - s.first + 1
\* The part that holds a byte of the object.
PartOf(o, byte) ==
    CHOOSE i \in 1..Len(o.parts) :
        PartStart(o, i) <= byte /\ byte < PartStart(o, i) + o.parts[i].size
FirstPart(s) == IF s.object.extended THEN PartOf(s.object, s.first) ELSE 1
LastPart(s) == IF s.object.extended THEN PartOf(s.object, s.last) ELSE 1

\* The block, counted from 1, of a byte in the Motr object that holds it.
BlockOf(s, i, byte) ==
    (byte - PartStart(s.object, i) + s.object.parts[i].unit) \div s.object.parts[i].unit

\* set_total_blocks_to_read_from_object and ..._fragmented_object.
ReadableBlocks(s, i) ==
    LET p == s.object.parts[i]
    IN  IF IsFull(s) THEN Blocks(p)
        ELSE IF ~s.object.extended
        THEN BlockOf(s, i, s.last) - BlockOf(s, i, s.first) + 1
        ELSE IF i = FirstPart(s) THEN Blocks(p) - BlockOf(s, i, s.first) + 1
        ELSE IF i = LastPart(s) THEN BlockOf(s, i, s.last)
        ELSE Blocks(p)
RequestedObjectSize(s, i) ==
    LET size == s.object.parts[i].size
        start == PartStart(s.object, i)
    IN  IF IsFull(s) THEN size
        ELSE IF FirstPart(s) = LastPart(s) THEN Requested(s)
        ELSE IF i = FirstPart(s) THEN size - (s.first - start) + 1
        ELSE IF i = LastPart(s) THEN s.last - start + 1
        ELSE size

\* read_object and read_fragmented_object: a reader for the next Motr object.
StartObject(s, i) ==
    [s EXCEPT !.frag = i, !.already = 0, !.sentObj = 0, !.total = ReadableBlocks(s, i),
              !.opened = FALSE, !.reader = "start",
              !.index = IF i = FirstPart(s)
                        THEN (BlockOf(s, i, s.first) - 1) * s.object.parts[i].unit ELSE 0]
-----------------------------------------------------------------------------
\* What the environment does to one attempt to read: there is little memory in
\* the pool, or the reader cannot allocate or launch its operation.
Environments ==
    [low : IF "low" \in GetFault THEN BOOLEAN ELSE {FALSE},
     fault : {"none"} \cup (GetFault \cap {"memory", "launch", "openLaunch"})]

\* S3MotrReader::read_object, for an open object.
LaunchRead(s) ==
    [s EXCEPT !.op = "read", !.reader = "reading",
              !.index = @ + s.blocks * s.object.parts[s.frag].unit]

\* S3MotrReader::read_object_data and the action's check of its result.  A
\* failed launch is reported by the result and by a callback; that of the open
\* by a direct call of the failure handler too.
ReadBlocks(s, e) ==
    IF ~s.opened THEN
        IF e.fault = "openLaunch"
        THEN [RespondError(ReadObjectDataFailed(s)) EXCEPT !.reader = "launch", !.op = "posted"]
        ELSE [s EXCEPT !.op = "open", !.reader = "reading"]
    ELSE IF e.fault = "memory" THEN RespondError([s EXCEPT !.reader = "ooo"])
    ELSE IF e.fault = "launch"
    THEN RespondError([s EXCEPT !.reader = "launch", !.op = "posted"])
    ELSE LaunchRead(s)

\* How many blocks the next read asks for.
BlocksToRead(s) ==
    LET p == s.object.parts[s.frag]
        n == IF s.already = 0 /\ s.frag = FirstPart(s) /\ Requested(s) > MaxBlocks * p.unit
             THEN Least(MaxBlocks, FirstRead)
             ELSE Least(MaxBlocks, s.total - s.already)
    IN  IF s.already = 0 /\ s.index # 0 /\ s.object.extended THEN Least(n, s.total) ELSE n

\* read_object_data: the checks, a throttled read, and the read itself or the
\* next Motr object.
Throttled(s, e) ==
    /\ s.connected
    /\ \/ e.low
       \/ s.out >= OutMultiple * MaxBlocks * s.object.parts[1].unit
DelayRead(s) == [s EXCEPT !.timer = TRUE]
Proceed(s, e) ==
    IF s.shutdown THEN GetRollback(s)
    ELSE IF Throttled(s, e) THEN DelayRead(s)
    ELSE ReadBlocks([s EXCEPT !.blocks = BlocksToRead(s)], e)
NextObject(s, e) ==
    IF s.object.extended /\ s.frag < LastPart(s)
    THEN Proceed(StartObject(s, s.frag + 1), e) ELSE Respond(s)
ReadObjectData(s, e) ==
    IF s.already # s.total THEN Proceed(s, e)
    ELSE IF s.shutdown THEN GetRollback(s)
    ELSE IF Throttled(s, e) THEN DelayRead(s)
    ELSE NextObject(s, e)

\* send_data_to_client.
BlocksRead(s) ==
    LET p == s.object.parts[s.frag]
        from == s.index - s.blocks * p.unit
        start == PartStart(s.object, s.frag)
    IN  [k \in 1..(s.blocks * p.unit) |->
            IF from + k - 1 < p.size THEN start + from + k - 1 ELSE Pad]
\* Mutant: the bytes in front of the range are sent too.
Buffer_NoDrain(s) == BlocksRead(s)
Buffer(s) ==
    LET read == BlocksRead(s)
        drop == IF s.sent = <<>> THEN s.first % s.object.parts[s.frag].unit ELSE 0
    IN  SubSeq(read, drop + 1, Len(read))
Trimmed(s) ==
    LET buf == Buffer(s)
        size == s.object.parts[s.frag].size
        length == IF Len(s.sent) + Len(buf) >= Requested(s) \/ Len(buf) >= Requested(s)
                  THEN Requested(s) - Len(s.sent)
                  ELSE IF s.object.extended /\ s.sentObj + Len(buf) >= size
                  THEN size - s.sentObj ELSE Len(buf)
    IN  SubSeq(buf, 1, Least(length, Len(buf)))
SendDataToClient(s, e) ==
    LET data == Trimmed(s)
        t == [s EXCEPT !.sent = @ \o data, !.sentObj = @ + Len(data),
                       !.already = @ + s.blocks, !.started = TRUE,
                       !.out = @ + (IF s.connected THEN Len(data) ELSE 0),
                       !.status = @ + (IF s.connected /\ ~s.started THEN 1 ELSE 0)]
    IN  IF s.shutdown THEN GetRollback(s)
        ELSE IF ~t.connected THEN RespondError(t)
        ELSE IF Len(t.sent) = Requested(t) THEN Respond(t)
        ELSE IF ~t.object.extended \/ t.sentObj # RequestedObjectSize(t, t.frag)
        THEN ReadObjectData(t, e)
        ELSE NextObject(t, e)
-----------------------------------------------------------------------------
\* fetch_bucket_info and fetch_object_info end; the tasks after them run in
\* one go: validate_object_info, check_full_or_range_object_read, read_object.
ValidateObjectInfo(s, e) ==
    LET range == ReadOptions(s.header, ContentLength(s.object))
        t == [s EXCEPT !.first = range.first, !.last = range.last]
    IN  IF ContentLength(s.object) = 0
        THEN Respond([s EXCEPT !.status = @ + 1])
        ELSE IF ~range.valid THEN RespondError([s EXCEPT !.refused = TRUE])
        ELSE Proceed(StartObject(t, FirstPart(t)), e)
FetchInfoEnds ==
    /\ ~get.gone /\ get.op = "load"
    /\ LET s == [get EXCEPT !.op = "none"]
       IN  \/ get' = RespondError(s)
           \/ \E e \in Environments :
                get' = IF s.shutdown THEN GetRollback(s)
                       ELSE IF ~s.connected THEN [s EXCEPT !.gone = TRUE]
                       ELSE ValidateObjectInfo(s, e)

\* open_object_successful and open_object_failed.
OpenEnds ==
    /\ ~get.gone /\ get.op = "open"
    /\ LET s == [get EXCEPT !.op = "none"]
           t == [s EXCEPT !.opened = TRUE]
       IN  \/ get' = LaunchRead(t)
           \/ get' = ReadObjectDataFailed([t EXCEPT !.reader = "ooo"])
           \/ get' = [t EXCEPT !.reader = "launch", !.op = "posted"]
           \/ get' = ReadObjectDataFailed([s EXCEPT !.reader = "failed"])

\* read_object_successful, read_object_failed and a checksum that is wrong.
ReadEnds ==
    /\ ~get.gone /\ get.op = "read"
    /\ LET s == [get EXCEPT !.op = "none"]
       IN  \/ get' = ReadObjectDataFailed([s EXCEPT !.reader = "failed"])
           \/ \E e \in Environments :
                get' = SendDataToClient([s EXCEPT !.reader = "success"], e)

\* The callback of an operation that could not be launched.
PostedFailure ==
    /\ ~get.gone /\ get.op = "posted"
    /\ get' = ReadObjectDataFailed([get EXCEPT !.op = "none", !.reader = "failed"])

\* resume_action_step: the delay of a throttled read is over.
ResumeActionStep ==
    /\ ~get.gone /\ get.timer
    /\ \E e \in Environments :
          get' = ReadObjectData([get EXCEPT !.timer = FALSE], e)

\* The client takes what has been sent.
ClientTakes ==
    /\ ~get.gone /\ get.connected /\ get.out > 0
    /\ \E n \in 1..get.out : get' = [get EXCEPT !.out = @ - n]

ReaderLeaves ==
    /\ ~get.gone /\ get.connected /\ "leave" \in GetFault
    /\ get' = [get EXCEPT !.connected = FALSE, !.out = 0]

GetShutdownBegins ==
    /\ ~get.gone /\ ~get.shutdown /\ "shutdown" \in GetFault
    /\ get' = [get EXCEPT !.shutdown = TRUE]

GetNext ==
    \/ FetchInfoEnds \/ OpenEnds \/ ReadEnds \/ PostedFailure \/ ResumeActionStep
    \/ ClientTakes \/ ReaderLeaves \/ GetShutdownBegins

\* The event loop runs what is due, a client that stays goes on reading, and
\* the pool does not stay short of memory.
GetFairness ==
    /\ WF_get(FetchInfoEnds) /\ WF_get(OpenEnds) /\ WF_get(ReadEnds)
    /\ WF_get(PostedFailure) /\ WF_get(ClientTakes)
    /\ SF_get(ResumeActionStep /\ ~get'.timer)
-----------------------------------------------------------------------------

\* The client gets the bytes of the range it asked for, in order, and no others,
\* whatever the blocks, the parts and the order in which the data is taken.
SentIsRequested ==
    /\ Len(get.sent) <= Requested(get)
    /\ \A i \in 1..Len(get.sent) : get.sent[i] = get.first + i - 1

\* A reply that is ended without an error holds the whole range.
EndIsWhole ==
    get.gone /\ ~get.error /\ get.reader = "success" => Len(get.sent) = Requested(get)

\* A range is served as the HTTP specification reads it, and refused only when it
\* has no bytes, or is a suffix longer than the object: its first byte wraps around
\* to one behind the end.
Expected(h, length) ==
    CASE h.kind = "span" -> {b \in 0..(length - 1) : h.a <= b /\ b <= h.b}
      [] h.kind = "from" -> {b \in 0..(length - 1) : h.a <= b}
      [] h.kind = "suffix" -> {b \in 0..(length - 1) : b >= length - h.b}
      [] h.kind = "malformed" -> {}
      [] OTHER -> 0..(length - 1)
LongSuffix(h, length) == h.kind = "suffix" /\ h.b > length
RangeIsExpected ==
    LET h == get.header
        length == ContentLength(get.object)
    IN  /\ get.reader = "success" => Expected(h, length) = get.first..get.last
        /\ get.refused => Expected(h, length) = {} \/ LongSuffix(h, length)

\* The client sees one status line and one end of the reply; the exception is a
\* read that could not be launched, whose error is a second response in a reply that
\* has been started, or is reported twice.
NotLaunched(s) == s.gone /\ s.reader \in {"launch", "ooo"}
AnsweredOnce == (get.status <= 1 /\ get.ended <= 1) \/ NotLaunched(get)

\* What a client makes of the reply to its GET is right: the bytes, the end and
\* the status, also when a read fails half-way.
ReplyIsRight == SentIsRequested /\ EndIsWhole /\ AnsweredOnce

\* However slow the client, what waits for it stays within the limit of the
\* write buffer and one read.
OutputIsBounded ==
    get.out < (OutMultiple + 1) * MaxBlocks * get.object.parts[1].unit

\* When the action is gone, no operation is under way that would call it back,
\* but for the report of one that could not be launched.
GoneGetIsIdle ==
    get.gone => ~get.timer /\ (get.op = "none" \/ (get.op = "posted" /\ NotLaunched(get)))

\* Every GET ends.
GetEnds == <>(get.gone)
=============================================================================
