----------------------------- MODULE CopyObject -----------------------------
(***************************************************************************)
(* S3CopyObjectAction, its base S3PutObjectActionBase and the copiers of   *)
(* S3ObjectDataCopier: the Motr object of a simple object, or those of the *)
(* parts of an object that was uploaded in parts, are created, recorded    *)
(* among the probable deletes and filled, several parts at a time; then    *)
(* the metadata is saved, the client answered and the clean up run.  Sizes *)
(* are counted in blocks.                                                  *)
(***************************************************************************)
EXTENDS Integers, Sequences, FiniteSets

CONSTANTS
    Copies,        \* what is copied: [src: sequence of sizes, multi: BOOLEAN,
                   \*   old: number of Motr objects of the object overwritten]
    CopyFault,     \* what may go wrong besides the operations themselves
    CopyBlocks,    \* S3_MOTR_MAX_UNITS_PER_REQUEST
    MaxParallel,   \* MAX_PARALLEL_COPY
    QuietSize,     \* the size above which a reply is started before its end
    MaxCollisions  \* MAX_COLLISION_RETRY_COUNT

ASSUME CopyAssumption ==
    /\ CopyBlocks \in Nat \ {0} /\ MaxParallel \in Nat \ {0} /\ MaxCollisions \in Nat
    /\ \A w \in Copies : /\ w.src \in Seq(Nat) /\ Len(w.src) > 0 /\ w.multi \in BOOLEAN
                         /\ w.old \in Nat /\ (~w.multi => Len(w.src) = 1)

VARIABLE copy
-----------------------------------------------------------------------------
May(f) == f \in CopyFault
Parts(s) == 1..Len(s.what.src)
Total(s) == Len(s.what.src)

\* S3ObjectDataCopier.
NewCopier(size) ==
    [st |-> "none", left |-> size, reading |-> 0, have |-> 0, writing |-> 0,
     failed |-> FALSE, written |-> 0]

NewCopy(w, delayed) ==
    [what |-> w, delayed |-> delayed, op |-> "authenticate", state |-> "empty",
     index |-> 1, tried |-> 0, made |-> {}, recs |-> [i \in 1..Len(w.src) |-> "none"],
     oldRec |-> "none", oldLeft |-> w.old, version |-> w.old > 0,
     live |-> IF w.old > 0 THEN "old" ELSE "none",
     copiers |-> [i \in 1..Len(w.src) |-> NewCopier(w.src[i])],
     inflight |-> 0, launched |-> 0, finished |-> 0, started |-> FALSE,
     status |-> 0, ended |-> 0, error |-> FALSE, cleanup |-> FALSE, tasks |-> <<>>,
     scheduled |-> FALSE, checks |-> TRUE, connected |-> TRUE, shutdown |-> FALSE,
     gone |-> FALSE, late |-> FALSE, crashed |-> FALSE]

CopyInit == \E w \in Copies, delayed \in BOOLEAN : copy = NewCopy(w, delayed)
-----------------------------------------------------------------------------
\* startcleanup: what there is to do after the reply.
\* Mutant: a failed copy removes its records first.
CleanupTasks_UnrecordFirst(s) ==
    IF s.state = "completed" THEN <<"unrecordNew">> ELSE <<"unrecordNew", "deleteNew">>
CleanupTasks(s) ==
    IF s.state = "completed"
    THEN IF s.what.old > 0 THEN <<"markOld", "unrecordNew", "deleteOld">>
         ELSE <<"unrecordNew">>
    ELSE IF s.state \in {"newObjOidCreated", "writeFailed", "metadataSaveFailed"}
    THEN <<"markNew">> \o (IF s.what.old > 0 THEN <<"unrecordOld">> ELSE <<>>)
         \o <<"deleteNew">>
    ELSE <<>>

\* The next task of the clean up; one that has nothing to do is passed over.
Idle(s, task) ==
    \/ task = "markNew" /\ \A i \in Parts(s) : s.recs[i] = "none"
    \/ task \in {"markOld", "unrecordOld"} /\ s.oldRec = "none"
    \/ task = "deleteOld" /\ (s.delayed \/ s.oldLeft = 0)
RunTasks(s) ==
    LET todo == {k \in 1..Len(s.tasks) : ~Idle(s, s.tasks[k])}
        k == CHOOSE j \in todo : \A l \in todo : j <= l
    IN  IF todo = {} THEN [s EXCEPT !.tasks = <<>>, !.op = "none", !.gone = TRUE]
        ELSE [s EXCEPT !.op = s.tasks[k], !.tasks = SubSeq(@, k + 1, Len(@))]

\* One reply: the end of the one that was started, or a whole one.
Answer(s) ==
    LET one == IF s.connected THEN 1 ELSE 0
        ok == ~s.error /\ ~s.scheduled
    IN  [s EXCEPT !.status = @ + (IF s.started THEN 0 ELSE one), !.ended = @ + one,
                  !.state = IF ok THEN "completed" ELSE @, !.cleanup = TRUE, !.op = "none"]
\* Action::start for the clean up: a shutdown is answered, unless it has been,
\* and nothing runs.
StartCopyCleanup(s) ==
    LET t == [s EXCEPT !.tasks = CleanupTasks(s)]
    IN  IF ~(s.shutdown /\ s.checks)
        THEN IF t.tasks = <<>> THEN t ELSE RunTasks(t)
        ELSE IF s.scheduled THEN s
        ELSE Answer([s EXCEPT !.scheduled = TRUE, !.error = TRUE])
RespondCopy(s) == StartCopyCleanup(Answer(s))
FailCopy(s, state) == RespondCopy([s EXCEPT !.error = TRUE, !.state = state])

\* check_shutdown_and_rollback when the server is shutting down.
CopyRollback(s) ==
    IF s.scheduled THEN [s EXCEPT !.op = "none"]
    ELSE RespondCopy([s EXCEPT !.scheduled = TRUE, !.error = TRUE])

\* Action::next: this action has no clean up for a client that has left.
Stops(s) == (s.shutdown /\ s.checks) \/ (~s.connected /\ ~s.cleanup)
Stopped(s) ==
    IF s.shutdown /\ s.checks THEN CopyRollback(s)
    ELSE [s EXCEPT !.gone = TRUE, !.op = "none"]
NextCleanup(s) ==
    IF s.shutdown /\ s.checks THEN CopyRollback(s) ELSE RunTasks(s)
-----------------------------------------------------------------------------
\* The requests to the authentication server and the metadata that is loaded
\* for the two buckets and objects: one operation after the other.  A client
\* that left while the source was being authorized is not answered, and the
\* action stays.
After == [authenticate |-> "load", load |-> "authorize", authorize |-> "source",
          source |-> "create"]
AuthEnds ==
    /\ ~copy.gone /\ copy.op \in {"authenticate", "authorize"}
    /\ \/ copy' = [Answer([copy EXCEPT !.error = TRUE]) EXCEPT !.gone = TRUE]
       \/ copy' = IF Stops(copy) THEN Stopped(copy) ELSE [copy EXCEPT !.op = After[@]]
LoadEnds ==
    /\ ~copy.gone /\ copy.op = "load"
    /\ \/ copy' = FailCopy(copy, "validationFailed")
       \/ copy' = IF Stops(copy) THEN Stopped(copy) ELSE [copy EXCEPT !.op = After[@]]
SourceAuthEnds ==
    /\ ~copy.gone /\ copy.op = "source"
    /\ \/ copy' = IF copy.connected THEN FailCopy(copy, "validationFailed")
                  ELSE [copy EXCEPT !.op = "none", !.error = TRUE]
       \/ copy' = IF Stops(copy) THEN Stopped(copy) ELSE [copy EXCEPT !.op = After[@]]

\* create_object and create_parts_fragments; an identifier that is in use is
\* replaced by another, for a simple object only.
CreateFails(s) ==
    IF s.shutdown THEN CopyRollback(s) ELSE FailCopy(s, "newObjOidCreationFailed")
CreateEnds ==
    /\ ~copy.gone /\ copy.op = "create"
    /\ \/ copy' = [copy EXCEPT !.op = "record", !.state = "newObjOidCreated",
                               !.made = @ \cup {copy.index}]
       \/ copy' = CreateFails(copy)
       \/ /\ ~copy.what.multi /\ ~copy.shutdown /\ copy.tried < MaxCollisions
          /\ copy' = [copy EXCEPT !.tried = @ + 1]
-----------------------------------------------------------------------------
\* A failed assertion, or a call to a copier that was freed: the server is gone,
\* and what was under way with it.
Crash(s) ==
    [s EXCEPT !.gone = TRUE, !.crashed = TRUE, !.late = FALSE, !.inflight = 0,
              !.copiers = [i \in Parts(s) |->
                  [@[i] EXCEPT !.st = "freed", !.reading = 0, !.writing = 0]]]

\* read_data_block: the next blocks of a copier.
ReadDataBlock(c) ==
    [c EXCEPT !.reading = IF CopyBlocks < c.left THEN CopyBlocks ELSE c.left]
\* write_data_block: what has been read is written.
WriteDataBlock(c) == [c EXCEPT !.writing = c.have, !.have = 0]
\* copy and copy_part_fragment: a copier starts to read.  If the open that the
\* first read begins with cannot be launched the reader reports the failure from
\* inside that call, and the assertion of read_data_block_failed that a read is
\* in progress fails.
RunCopier(c) == ReadDataBlock([c EXCEPT !.st = "run"])
Start == {"reads"} \cup (IF May("launch") THEN {"asserts"} ELSE {})
                  \cup (IF May("exception") THEN {"throws"} ELSE {})
\* An exception is answered.  The other copiers are freed under their reads and
\* writes, and parts that are begun after it run unknown to the action.
Thrown(s) ==
    IF Total(s) = 1 THEN FailCopy(s, s.state)
    ELSE Crash(Answer([s EXCEPT !.error = TRUE]))
Launch(s, i, how) ==
    IF how = "asserts" THEN Crash(s)
    ELSE IF how = "throws" THEN Thrown(s)
    ELSE [s EXCEPT !.copiers[i] = RunCopier(@), !.launched = i, !.inflight = @ + 1]

\* copy_one_or_more_objects: the first copiers, and for a long copy the start
\* of the reply.
StartsReply(s) == \E i \in Parts(s) : s.what.src[i] > QuietSize
SaveCopy(s) == [s EXCEPT !.op = "save", !.checks = FALSE]
FirstCopiers(s) == IF Total(s) < MaxParallel THEN Total(s) ELSE MaxParallel
CopyObjects(s, how) ==
    IF s.what.src = <<0>> THEN SaveCopy(s)
    ELSE IF how = "asserts" THEN Crash(s)
    ELSE IF how = "throws" THEN Thrown(s)
    ELSE LET n == FirstCopiers(s)
         IN  [s EXCEPT !.op = "copy", !.launched = n, !.inflight = n,
                       !.copiers = [i \in Parts(s) |->
                            IF i > n THEN @[i] ELSE RunCopier(@[i])],
                       !.started = StartsReply(s),
                       !.status = @ + (IF StartsReply(s) /\ s.connected THEN 1 ELSE 0)]

\* add_object_oid_to_probable_dead_oid_list: the records of the new object and
\* of the old ones; those of parts one by one, then those of the old objects.
Recorded(s, how) ==
    LET new == [s EXCEPT !.recs[s.index] = "kept"]
        old == [new EXCEPT !.oldRec = IF s.what.old > 0 THEN "kept" ELSE @]
        both == IF Stops(old) THEN Stopped(old) ELSE CopyObjects(old, how)
    IN  IF ~s.what.multi THEN both
        ELSE IF s.index < Total(s) THEN [new EXCEPT !.index = @ + 1, !.op = "create"]
        ELSE IF s.what.old > 0 THEN [new EXCEPT !.op = "recordOld"]
        ELSE both
RecordEnds ==
    /\ ~copy.gone /\ copy.op = "record"
    /\ \/ \E how \in Start : copy' = Recorded(copy, how)
       \/ copy' = FailCopy(copy, "probableEntryRecordFailed")
RecordOldEnds ==
    /\ ~copy.gone /\ copy.op = "recordOld"
    /\ \/ \E how \in Start : copy' = LET s == [copy EXCEPT !.oldRec = "kept"] IN
             IF Stops(s) THEN Stopped(s) ELSE CopyObjects(s, how)
       \/ copy' = FailCopy(copy, "probableEntryRecordFailed")
-----------------------------------------------------------------------------
\* The action's part: copy_object_success and copy_part_fragment_success.
\* Mutant: the metadata is saved once the last part is being copied.
AllCopied_Launched(s) == s.launched = Total(s)
AllCopied(s) == s.finished = Total(s)
AnswersFailure(s) == AllCopied(s) \/ s.inflight = 0
MayLaunch(s) == s.launched < Total(s) /\ s.inflight < MaxParallel
Freed(s, i) ==
    [s EXCEPT !.copiers[i].st = "freed", !.inflight = @ - 1, !.finished = @ + 1]
CopierSucceeds(s, i, how) ==
    LET t == Freed(s, i)
        done == [t EXCEPT !.state = "writeComplete"]
    IN  IF t.state = "writeFailed"
        THEN IF AnswersFailure(t) THEN RespondCopy(t) ELSE t
        ELSE IF AllCopied(t) THEN IF Stops(done) THEN Stopped(done) ELSE SaveCopy(done)
        ELSE IF MayLaunch(t) THEN Launch(t, t.launched + 1, how)
        ELSE t

\* copy_object_failed and copy_part_fragment_failed: the other copiers are told,
\* and the last one to end answers.
CopierFails(s, i) ==
    LET t == [Freed(s, i) EXCEPT !.state = "writeFailed", !.error = TRUE]
        u == [t EXCEPT !.copiers = [j \in Parts(s) |->
                  IF t.copiers[j].st = "run" THEN [t.copiers[j] EXCEPT !.failed = TRUE]
                  ELSE t.copiers[j]]]
    IN  IF AnswersFailure(t) THEN RespondCopy(t) ELSE u

\* copy_object_cb: a copier whose client has left just stops.
CopierStops(s) == s.shutdown \/ ~s.connected
CopierStopped(s) == IF s.shutdown THEN CopyRollback(s) ELSE s

\* read_data_block_success and write_data_block_success.  A copier that has been
\* told of a failure asserts that its other operation is over: it need not be.
WaitsForOther(c) == c.reading > 0 \/ c.writing > 0
Told(s, i) == IF WaitsForOther(s.copiers[i]) THEN Crash(s) ELSE CopierFails(s, i)
Got(c, n) == [c EXCEPT !.have = n, !.left = @ - n]
Reads(s, i, c) ==
    IF CopierStops(s) THEN CopierStopped([s EXCEPT !.copiers[i] = c])
    ELSE IF c.failed THEN Told([s EXCEPT !.copiers[i] = c], i)
    ELSE LET d == Got(c, s.copiers[i].reading)
             w == IF c.writing > 0 THEN d ELSE WriteDataBlock(d)
         IN  [s EXCEPT !.copiers[i] =
                 IF c.writing = 0 /\ w.left > 0 THEN ReadDataBlock(w) ELSE w]
WritesOn(c) == IF c.have > 0 THEN WriteDataBlock(c) ELSE c
Writes(s, i, c, how) ==
    IF CopierStops(s) THEN CopierStopped([s EXCEPT !.copiers[i] = c])
    ELSE IF c.failed THEN Told([s EXCEPT !.copiers[i] = c], i)
    ELSE LET w == WritesOn(c)
             t == [s EXCEPT !.copiers[i] =
                     IF w.left > 0 /\ w.reading = 0 THEN ReadDataBlock(w) ELSE w]
         IN  IF w.left = 0 /\ w.writing = 0 THEN CopierSucceeds(t, i, how) ELSE t

\* read_data_block_failed and write_data_block_failed: the other operation of
\* the copier is waited for.
DataFails(s, i, c) ==
    LET t == [s EXCEPT !.copiers[i] = [c EXCEPT !.failed = TRUE]]
    IN  IF WaitsForOther(c) THEN t ELSE CopierFails(t, i)

\* read_data_block and write_data_block when the operation is not started: the
\* copier fails as if it had been.  If Motr refused it (not if there was no
\* memory for a read) the failure is also posted to the main loop, and reported
\* once more to a copier that by then waits for another operation or is freed.
NotStarted(s, i, c, late) == [DataFails(s, i, c) EXCEPT !.late = @ \/ late]
Lateness == (IF May("launch") THEN {TRUE} ELSE {}) \cup (IF May("memory") THEN {FALSE} ELSE {})
Goes(c) == ~CopierStops(copy) /\ ~c.failed
WriteNotStarted(i, c) ==
    /\ May("launch") /\ c.have > 0
    /\ copy' = NotStarted(copy, i, [c EXCEPT !.have = 0], TRUE)
ReadNotStarted(i, c) ==
    /\ c.left > 0 /\ c.reading = 0
    /\ \E late \in Lateness : copy' = NotStarted(copy, i, c, late)

ReadBlockEnds ==
    \E i \in Parts(copy) : LET c == [copy.copiers[i] EXCEPT !.reading = 0]
                               d == Got(c, copy.copiers[i].reading) IN
        /\ ~copy.gone /\ copy.copiers[i].reading > 0
        /\ \/ copy' = Reads(copy, i, c)
           \/ copy' = DataFails(copy, i, c)
           \/ /\ Goes(c) /\ c.writing = 0
              /\ WriteNotStarted(i, d) \/ ReadNotStarted(i, WriteDataBlock(d))
WriteBlockEnds ==
    \E i \in Parts(copy) : LET c == [copy.copiers[i] EXCEPT !.writing = 0]
                               d == [c EXCEPT !.written = @ + copy.copiers[i].writing] IN
        /\ ~copy.gone /\ copy.copiers[i].writing > 0
        /\ \/ \E how \in Start : copy' = Writes(copy, i, d, how)
           \/ copy' = DataFails(copy, i, c)
           \/ Goes(c) /\ (WriteNotStarted(i, d) \/ ReadNotStarted(i, WritesOn(d)))
\* The second report: an assertion fails in a copier that waits, and in one that is
\* freed what it finds in that memory decides.
LateFailure == copy.late /\ copy' \in {Crash(copy), [copy EXCEPT !.late = FALSE]}
-----------------------------------------------------------------------------
\* save_object_metadata_success and ..._failed.
Saved(s) ==
    LET t == [s EXCEPT !.live = "new", !.state = "metadataSaved"]
    IN  IF Stops(t) THEN Stopped(t) ELSE RespondCopy(t)
CopySaveEnds ==
    /\ ~copy.gone /\ copy.op = "save"
    /\ \/ copy' = Saved(copy)
       \/ copy' = FailCopy(copy, "metadataSaveFailed")

\* The clean up.  A mark or a removal that fails is passed over.
SetRecs(s, value) ==
    [s EXCEPT !.recs = [i \in Parts(s) |-> IF @[i] = "none" THEN "none" ELSE value]]
MarkOld(s) == [s EXCEPT !.oldRec = "forced"]
RecordTaskEnds ==
    /\ ~copy.gone
    /\ \/ copy.op \in {"markNew", "markOld", "unrecordNew", "unrecordOld"}
          /\ copy' = NextCleanup(copy)
       \/ copy.op = "markNew" /\ copy' = NextCleanup(SetRecs(copy, "forced"))
       \/ copy.op = "unrecordNew" /\ copy' = NextCleanup(SetRecs(copy, "none"))
       \/ copy.op = "markOld" /\ copy' = NextCleanup(MarkOld(copy))
       \/ copy.op = "unrecordOld" /\ copy' = NextCleanup([copy EXCEPT !.oldRec = "none"])

\* delete_old_object: one Motr object after the other, then the entry of the
\* version, then the records.
DeleteOldEnds ==
    /\ ~copy.gone
    /\ \/ copy.op \in {"deleteOld", "deleteVersion"} /\ copy' = NextCleanup(copy)
       \/ /\ copy.op = "deleteOld"
          /\ copy' = [copy EXCEPT !.oldLeft = @ - 1,
                                  !.op = IF copy.oldLeft > 1 THEN @ ELSE "deleteVersion"]
       \/ /\ copy.op = "deleteVersion"
          /\ copy' = [copy EXCEPT !.version = FALSE, !.op = "unrecordOld"]

\* delete_new_object: only the identifier of a simple object is that of a Motr
\* object; for parts there is nothing to delete and the deletion fails.
DeleteNewEnds ==
    /\ ~copy.gone /\ copy.op = "deleteNew"
    /\ \/ copy' = NextCleanup(copy)
       \/ ~copy.what.multi /\ copy' = [copy EXCEPT !.made = {}, !.op = "unrecordNew"]

CopyClientLeaves ==
    /\ ~copy.gone /\ copy.connected /\ May("leave")
    /\ copy' = [copy EXCEPT !.connected = FALSE]
CopyShutdownBegins ==
    /\ ~copy.gone /\ ~copy.shutdown /\ May("shutdown")
    /\ copy' = [copy EXCEPT !.shutdown = TRUE]

CopyNext ==
    \/ AuthEnds \/ LoadEnds \/ SourceAuthEnds \/ CreateEnds \/ RecordEnds
    \/ RecordOldEnds \/ ReadBlockEnds \/ WriteBlockEnds \/ CopySaveEnds
    \/ RecordTaskEnds \/ DeleteOldEnds \/ DeleteNewEnds \/ LateFailure
    \/ CopyClientLeaves \/ CopyShutdownBegins

\* Every operation that was launched ends.
CopyFairness ==
    WF_copy(\/ AuthEnds \/ LoadEnds \/ SourceAuthEnds \/ CreateEnds \/ RecordEnds
            \/ RecordOldEnds \/ ReadBlockEnds \/ WriteBlockEnds \/ CopySaveEnds
            \/ RecordTaskEnds \/ DeleteOldEnds \/ DeleteNewEnds \/ LateFailure)
-----------------------------------------------------------------------------

\* However many parts there are, few are copied at a time, and the counter
\* says how many.
ParallelIsBounded ==
    /\ copy.inflight = Cardinality({i \in Parts(copy) : copy.copiers[i].st = "run"})
    /\ copy.inflight <= MaxParallel

\* A copier is not freed, and the action not over, while one of its reads or
\* writes is under way.  A freed copier is called back after all, or an assertion
\* fails, only if Motr refuses to launch a read or write, whose failure is then
\* reported twice, if a copier cannot be created, or if the failure of one part
\* stops another that is longer than one read; never if the copy was saved.
Crashing(s) ==
    \/ May("launch") \/ May("exception")
    \/ Total(s) > 1 /\ \E i \in Parts(s) : s.what.src[i] > CopyBlocks
FreedIsIdle ==
    /\ \A i \in Parts(copy) : copy.copiers[i].st = "freed" \/ copy.gone =>
          copy.copiers[i].reading = 0 /\ copy.copiers[i].writing = 0
    /\ copy.late \/ copy.crashed => copy.live # "new" /\ Crashing(copy)

\* At every step a Motr object that is not part of the object clients see is in
\* a record of the probable deletes, or about to be, so that it is reclaimed
\* wherever the copy ends; unless that record could not be written.
CopyGarbageIsRecorded ==
    /\ \A i \in copy.made : copy.live # "new" /\ copy.recs[i] = "none" =>
          i = copy.index /\ (copy.op = "record" \/ copy.state = "probableEntryRecordFailed")
    /\ copy.live = "new" /\ copy.oldLeft > 0 => copy.oldRec # "none"

\* The object clients see, be it the copy or the one before, has all its Motr
\* objects, all the data of the source is in those of the copy, whatever the
\* order in which they were read and written, and none of them is in a record
\* that has it deleted without another look.
LiveIsKept ==
    /\ copy.live = "new" =>
          /\ copy.made = Parts(copy)
          /\ \A i \in Parts(copy) :
                copy.copiers[i].written = copy.what.src[i] /\ copy.recs[i] # "forced"
    /\ copy.live = "old" => copy.oldLeft = copy.what.old /\ copy.oldRec # "forced"

\* A client that stays is answered, and the reply is ended, unless the server
\* crashes.
CopyIsAnswered == <>(copy.ended > 0 \/ ~copy.connected \/ copy.crashed)
=============================================================================
