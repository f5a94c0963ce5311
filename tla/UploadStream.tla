---------------------------- MODULE UploadStream ----------------------------
(***************************************************************************)
(* The streaming of one upload into Motr: S3PutObjectAction ("object"),    *)
(* S3PutMultiObjectAction ("part", and "chunkedPart" when the body comes   *)
(* in signed chunks) and S3PutChunkUploadObjectAction ("chunked").  Data   *)
(* arrives, is written block by block and, for signed chunks, is validated *)
(* by the authentication server at the same time; then the metadata is     *)
(* saved, the client answered and the clean up run.                        *)
(***************************************************************************)
EXTENDS ChunkAuth

CONSTANTS
    Fault,          \* pairs <<kind, fault>> that may happen
    UndoTasks       \* Motr operations of a clean up

ASSUME UndoAssumption == UndoTasks \in Nat \ {0}

VARIABLE up
-----------------------------------------------------------------------------
MayHappen(s, f) == <<s.kind, f>> \in Fault
Chance(s, f) == IF MayHappen(s, f) THEN BOOLEAN ELSE {FALSE}

\* asserts: the server is a build with assertions; badDigest: the content-md5 of
\* the request is not that of the body; saved: whether the metadata was.
NewUpload(k, asserts, badDigest) ==
    [kind |-> k, asserts |-> asserts, badDigest |-> badDigest, saved |-> "no",
     crashed |-> FALSE, phase |-> "setup", state |-> "newObjOidCreated", error |-> FALSE,
     pos |-> 0, taken |-> 0, written |-> 0, writing |-> FALSE, inProgress |-> FALSE,
     frozen |-> Size(k) = 0, paused |-> FALSE, timer |-> Size(k) > 0,
     readError |-> "none", ignore |-> FALSE, connected |-> TRUE, listener |-> FALSE,
     auth |-> "init", sent |-> 0, asked |-> 0, checked |-> 0, aborted |-> FALSE,
     authInProgress |-> FALSE, authCompleted |-> FALSE, authFailed |-> FALSE,
     writeFailed |-> FALSE, writeCompleted |-> FALSE,
     saving |-> FALSE, replies |-> 0, ops |-> 0, task |-> 0, gone |-> FALSE,
     shutdown |-> FALSE, scheduled |-> FALSE, checksShutdown |-> TRUE]

UpInit ==
    \E k \in Kind, asserts \in BOOLEAN, badDigest \in BOOLEAN :
        /\ badDigest => <<k, "digest">> \in Fault
        /\ up = NewUpload(k, asserts, badDigest)
-----------------------------------------------------------------------------
\* A failed assertion ends the server, and the action with it.
UploadCrashes(s) == [s EXCEPT !.phase = "cleanup", !.gone = TRUE, !.crashed = TRUE]

\* startcleanup of the three actions and Action::start: a shutdown, which is
\* answered once more unless it has been, leaves the action without a task to
\* run.  In a state other than these an assertion fails; without assertions the
\* action has no task.
Undoable(k) ==
    {"completed", "newObjOidCreated", "writeFailed", "metadataSaveFailed"} \cup
    (CASE k = "object" -> {"md5ValidationFailed"}
       [] k = "chunked" -> {"dataSignatureCheckFailed"}
       [] OTHER -> {"metadataSaved", "md5ValidationFailed"})
StartCleanup(s) ==
    LET t == [s EXCEPT !.phase = "cleanup", !.task = 0]
        undoable == t.state \in Undoable(t.kind)
    IN  IF ~undoable /\ t.asserts THEN UploadCrashes(t)
        ELSE IF t.shutdown /\ t.checksShutdown
        THEN [t EXCEPT !.scheduled = TRUE, !.error = @ \/ ~t.scheduled,
                       !.replies = IF t.connected /\ ~t.scheduled THEN @ + 1 ELSE @]
        ELSE IF ~undoable THEN t
        ELSE [t EXCEPT !.ops = @ + 1, !.task = 1]

\* send_response_to_s3_client: while the authentication server is at work the
\* answer waits for it.  The actions of whole objects assert that success is that
\* of the save.
Reply(s) ==
    LET t == [s EXCEPT !.replies = @ + (IF s.connected THEN 1 ELSE 0)]
    IN  StartCleanup(Resume(StopProcessingIncomingData(t), FALSE))
OutcomeIsExpected(s) ==
    IF s.error THEN s.kind = "object" => s.state # "metadataSaved" ELSE s.state = "metadataSaved"
ObjectResponse(s) ==
    IF s.asserts /\ ~OutcomeIsExpected(s) THEN UploadCrashes(s)
    ELSE Reply([s EXCEPT !.state = IF s.error THEN @ ELSE "completed"])
WaitsForAuth(s) == s.authInProgress /\ s.auth = "started"
PartResponse(s) == IF WaitsForAuth(s) THEN [s EXCEPT !.aborted = TRUE] ELSE Reply(s)
ChunkedResponse(s) == IF WaitsForAuth(s) THEN [s EXCEPT !.aborted = TRUE] ELSE ObjectResponse(s)
SendResponse(s) ==
    CASE s.kind = "object" -> ObjectResponse(s)
      [] s.kind = "chunked" -> ChunkedResponse(s)
      [] OTHER -> PartResponse(s)

Fail(s) == SendResponse([s EXCEPT !.error = TRUE])

\* Action::client_read_error: only a timeout is answered.
ClientReadError(s) ==
    IF s.readError = "RequestTimeout" THEN Fail(s)
    ELSE StartCleanup([s EXCEPT !.error = TRUE])

\* Action::check_shutdown_and_rollback, when the server is shutting down.
Rollback(s, checkAuth) ==
    LET t == StopProcessingIncomingData(s)
    IN  IF checkAuth /\ t.aborted THEN SendResponse(t)
        ELSE IF t.scheduled THEN t
        ELSE Fail([Pause(t) EXCEPT !.scheduled = TRUE])

\* Action::next: the checks, then the next task of the list, which for an
\* upload whose clean up has started is the next task of the clean up.
Stopping(s) == s.shutdown /\ s.checksShutdown
Interrupted(s) == Stopping(s) \/ s.readError # "none" \/ ~s.connected
Interrupt(s) ==
    IF Stopping(s) THEN Rollback(s, FALSE)
    ELSE IF s.readError # "none" THEN ClientReadError(s)
    ELSE StartCleanup(s)
NextCleanupTask(s) ==
    IF Stopping(s) THEN Rollback(s, FALSE)
    ELSE IF s.state \in Undoable(s.kind) /\ s.task < UndoTasks
    THEN [s EXCEPT !.task = @ + 1, !.ops = @ + 1]
    ELSE [s EXCEPT !.gone = TRUE, !.timer = FALSE]
\* save_metadata, after the check of the content-md5 that the client may have sent.
DigestIsBad(s) ==
    [s EXCEPT !.state = IF s.kind = "object" THEN "md5ValidationFailed" ELSE "metadataSaveFailed"]
SaveMetadata(s) ==
    IF s.badDigest THEN Fail(DigestIsBad(s))
    ELSE [s EXCEPT !.phase = "save", !.saving = TRUE, !.checksShutdown = FALSE]
NextTask(s) ==
    IF s.phase = "cleanup" THEN NextCleanupTask(s)
    ELSE IF Interrupted(s) THEN Interrupt(s)
    ELSE IF s.phase = "save" THEN SendResponse(s)
    ELSE SaveMetadata(s)
-----------------------------------------------------------------------------
\* write_object_failed of the three actions, called from the event loop when the
\* operation has failed or could not be launched.  An action that waits for the
\* authentication server leaves the answer to its callback.
WriteHasFailed(s) ==
    [s EXCEPT !.writing = FALSE, !.inProgress = FALSE, !.state = "writeFailed"]
ObjectWriteFailed(s) ==
    IF s.readError # "none" THEN ClientReadError(WriteHasFailed(s)) ELSE Fail(WriteHasFailed(s))
PartWriteFailed(s) ==
    LET t == [WriteHasFailed(s) EXCEPT !.writeCompleted = TRUE]
        w == [Pause([t EXCEPT !.error = TRUE]) EXCEPT !.writeFailed = TRUE, !.aborted = TRUE]
    IN  IF s.readError # "none" THEN ClientReadError(t)
        ELSE IF s.kind = "part" THEN Fail(t)
        ELSE IF w.authInProgress THEN w
        ELSE SendResponse(w)
ChunkedWriteFailed(s) ==
    LET t == [WriteHasFailed(s) EXCEPT !.writeFailed = TRUE]
        q == [Pause(t) EXCEPT !.aborted = TRUE]
        w == [q EXCEPT !.error = TRUE, !.writeCompleted = TRUE]
    IN  IF s.readError # "none" THEN ClientReadError(q)
        ELSE IF s.shutdown THEN Rollback([q EXCEPT !.error = TRUE], FALSE)
        ELSE IF w.authInProgress THEN w
        ELSE SendResponse(w)
WriteObjectFailed(s) ==
    CASE s.kind = "object" -> ObjectWriteFailed(s)
      [] s.kind = "chunked" -> ChunkedWriteFailed(s)
      [] OTHER -> PartWriteFailed(s)

\* write_object: the block's buffers go to Motr, and the signatures that are
\* ready to the authentication server.
Smaller(a, b) == IF a < b THEN a ELSE b
WriteObject(s) ==
    LET c == IF IsChunked(s.kind) THEN SendChunkDetailsIfAny(s) ELSE s
    IN  [c EXCEPT !.taken = @ + Smaller(Buffered(c), Payload),
                  !.writing = TRUE, !.inProgress = TRUE]

CanWrite(s) == Buffered(s) >= Payload \/ (s.frozen /\ Buffered(s) > 0)

\* consume_incoming_content: the listener of the input.  A read error is handled
\* at once by S3PutObjectAction, and after the write under way by the others.
ObjectReadError(s) == IF s.readError = "RequestTimeout" THEN Fail(s) ELSE s
\* Mutant: at once, also by the others.
PartReadError_AtOnce(s) == ClientReadError(s)
PartReadError(s) == IF s.inProgress THEN s ELSE ClientReadError(s)
WriteIfReady(s) ==
    IF s.inProgress \/ (~s.frozen /\ Buffered(s) < Payload) THEN s
    ELSE IF s.asserts /\ Buffered(s) = 0 THEN UploadCrashes(s)
    ELSE WriteObject(s)
\* Mutant: reading goes on however much is buffered.
PauseIfAhead_Never(s) == s
PauseIfAhead(s) ==
    IF ~s.frozen /\ Buffered(s) >= Payload * ReadAhead THEN Pause(s) ELSE s
ConsumeIncomingContent(s) ==
    IF s.readError = "none" THEN PauseIfAhead(WriteIfReady(s))
    ELSE IF s.kind = "object" THEN ObjectReadError(s)
    ELSE PartReadError(s)

\* write_object_successful after its checks: S3PutObjectAction also looks at the
\* memory pool; the others wait for the signatures when all is written.
WrittenObject(s, low) ==
    IF CanWrite(s) THEN
        LET t == WriteObject(s)
        IN  IF low THEN Pause(t) ELSE IF ~t.frozen THEN Resume(t, TRUE) ELSE t
    ELSE IF s.frozen THEN NextTask([s EXCEPT !.state = "writeComplete"])
    ELSE IF low THEN Fail([s EXCEPT !.state = "writeFailed"])
    ELSE s
WrittenAll(s) ==
    IF s.kind = "part" \/ s.authCompleted THEN NextTask(s) ELSE SendChunkDetailsIfAny(s)
WrittenPart(s) ==
    IF CanWrite(s) THEN WriteObject(s)
    ELSE IF s.frozen
    THEN WrittenAll([s EXCEPT !.writeCompleted = TRUE, !.state = "writeComplete"])
    ELSE Resume(s, TRUE)
WrittenChunked(s) ==
    IF CanWrite(s)
    THEN LET t == WriteObject(s) IN IF ~t.frozen THEN Resume(t, TRUE) ELSE t
    ELSE IF s.frozen THEN WrittenAll([s EXCEPT !.writeCompleted = TRUE])
    ELSE Resume(s, TRUE)

\* write_object_successful.
WriteObjectSuccessful(s, low) ==
    LET t == [s EXCEPT !.writing = FALSE, !.inProgress = FALSE, !.written = s.taken]
    IN  IF t.shutdown THEN Rollback(t, FALSE)
        ELSE IF t.readError # "none" THEN ClientReadError(t)
        ELSE IF t.authFailed
        THEN SendResponse([t EXCEPT !.state = IF t.kind = "chunkedPart" THEN "writeFailed" ELSE @])
        ELSE CASE t.kind = "object" -> WrittenObject(t, low)
               [] t.kind = "chunked" -> WrittenChunked(t)
               [] OTHER -> WrittenPart(t)

\* chunk_auth_successful and chunk_auth_failed of the two actions.
ChunkAuthSuccessful(s) ==
    LET t == [s EXCEPT !.authInProgress = FALSE, !.authCompleted = TRUE]
    IN  IF t.shutdown THEN Rollback(t, TRUE)
        ELSE IF ~t.writeCompleted THEN t
        ELSE IF t.writeFailed THEN SendResponse(t)
        ELSE NextTask(t)
PartSignatureIsBad(s) ==
    [s EXCEPT !.auth = "failed", !.authFailed = TRUE, !.authCompleted = TRUE, !.error = TRUE]
ChunkSignatureIsBad(s) ==
    [PartSignatureIsBad(s) EXCEPT !.authInProgress = FALSE,
                                  !.state = "dataSignatureCheckFailed"]
ChunkAuthFailed(s) ==
    LET t == IF s.kind = "chunked" THEN ChunkSignatureIsBad(s) ELSE PartSignatureIsBad(s)
    IN  IF t.shutdown THEN Rollback(t, TRUE)
        ELSE IF t.inProgress THEN t
        ELSE SendResponse(t)
-----------------------------------------------------------------------------
\* initiate_data_streaming, the task after the object is created: a body that
\* is complete is written, otherwise the action listens for it.
InitiateDataStreaming(s) ==
    LET t == [s EXCEPT !.phase = "stream"]
    IN  IF Size(t.kind) = 0 THEN NextTask(t)
        ELSE IF Pending(t) = 0 THEN WriteObject(t)
        ELSE Resume([t EXCEPT !.listener = TRUE], TRUE)

Live == ~up.gone

SetupDone ==
    /\ up.phase = "setup"
    /\ up' = IF Interrupted(up) THEN Interrupt(up) ELSE InitiateDataStreaming(up)

\* notify_incoming_data: the next items of the body arrive, unless reading is
\* paused or what arrives is ignored.
ReadSizes(s) ==
    {n \in 1..(Len(Wire[s.kind]) - s.pos) :
        IF IsChunked(s.kind) THEN Received(AddContent(s, n)) - Received(s) <= MaxRead
        ELSE n = 1}
Notify(s, n, low) ==
    LET q == StopTimer(s)
    IN  IF low THEN
            LET t == [q EXCEPT !.ignore = TRUE, !.readError = "ServiceUnavailable"]
            IN  IF t.listener THEN ConsumeIncomingContent(t) ELSE t
        ELSE IF q.readError # "none" THEN q
        ELSE LET t == AddContent(q, n)
                 r == IF t.listener
                      THEN IF Buffered(t) >= Payload \/ Pending(t) = 0
                           THEN ConsumeIncomingContent(t) ELSE t
                      ELSE IF ~t.frozen THEN Pause(t) ELSE t
             IN  IF ~r.paused /\ ~r.frozen THEN StartTimer(r) ELSE r
\* The signatures after the last data come in a later read.
Split(s, n) == LET t == AddContent(s, n)
               IN  Pending(t) = 0 /\ t.pos < Len(Wire[s.kind])
Arrive ==
    /\ Live /\ up.connected /\ ~up.paused /\ ~up.ignore
    /\ \E n \in ReadSizes(up), low \in Chance(up, "memory") :
          /\ Split(up, n) => MayHappen(up, "trailer")
          /\ up' = Notify(up, n, low)

\* trigger_client_read_timeout_callback.
Busy(s) == s.writing \/ s.auth = "started" \/ s.ops > 0 \/ s.saving
ReadTimeout ==
    /\ Live /\ up.timer
    /\ MayHappen(up, "timeout") /\ (Busy(up) => MayHappen(up, "slow"))
    /\ LET t == [up EXCEPT !.readError = "RequestTimeout", !.timer = FALSE, !.frozen = TRUE]
       IN  up' = IF t.listener THEN ConsumeIncomingContent(t) ELSE t

\* A Motr write ends.
WriteEnds ==
    /\ Live /\ up.writing
    /\ \/ \E low \in Chance(up, "memory") :
             up' = WriteObjectSuccessful(up, low)
       \/ MayHappen(up, "write") /\ up' = WriteObjectFailed(up)

\* The authentication server answers; for a client that has left any answer
\* counts as a failure.
AuthAnswers ==
    /\ Live /\ up.auth = "started"
    /\ \/ /\ up.connected
          /\ LET t == Confirmed(up)
             IN  up' = IF CycleEnds(t) THEN ChunkAuthSuccessful(t) ELSE NextChunk(t)
       \/ (MayHappen(up, "auth") \/ ~up.connected) /\ up' = ChunkAuthFailed(up)

\* save_object_metadata_success and save_object_metadata_failed (save_metadata_failed
\* of a part).  The action of a chunked object notes an error only when the save
\* could not be launched; after any other failure it goes on as if there were none.
SaveHasFailed(s) ==
    [s EXCEPT !.saving = FALSE, !.state = "metadataSaveFailed", !.saved = "failed"]
SaveEnds ==
    /\ Live /\ up.saving
    /\ \/ up' = NextTask([up EXCEPT !.saving = FALSE, !.state = "metadataSaved",
                                    !.saved = "yes"])
       \/ MayHappen(up, "save") /\ up' = Fail(SaveHasFailed(up))
       \/ /\ MayHappen(up, "save") /\ up.kind = "chunked"
          /\ up' = SendResponse(SaveHasFailed(up))

\* A Motr operation of the clean up ends, well or not.
CleanupEnds ==
    /\ Live /\ up.ops > 0
    /\ up' = NextTask([up EXCEPT !.ops = @ - 1])

ClientLeaves ==
    /\ Live /\ up.connected /\ MayHappen(up, "leave")
    /\ up' = ClientHasDisconnected(up)

\* on_client_request_fini: the answer has gone out.
RequestEnds ==
    /\ Live /\ up.connected /\ up.replies > 0
    /\ up' = ClientHasDisconnected(up)

ShutdownBegins ==
    /\ Live /\ ~up.shutdown /\ MayHappen(up, "shutdown")
    /\ up' = [up EXCEPT !.shutdown = TRUE]

UpNext ==
    \/ SetupDone \/ Arrive \/ ReadTimeout \/ WriteEnds \/ AuthAnswers
    \/ SaveEnds \/ CleanupEnds \/ ClientLeaves \/ RequestEnds \/ ShutdownBegins

\* The event loop runs what is due: only the client need not act.
UpFairness ==
    /\ WF_up(SetupDone) /\ WF_up(ReadTimeout) /\ WF_up(WriteEnds)
    /\ WF_up(AuthAnswers) /\ WF_up(SaveEnds) /\ WF_up(CleanupEnds)
-----------------------------------------------------------------------------

\* In a build without assertions signatures that come after the last data start
\* a write of no buffers, which nothing waits for.
WritesNothing(s) == ~s.asserts /\ IsChunked(s.kind) /\ MayHappen(s, "trailer")

\* In such a build the client of a chunked upload is told that its object is stored
\* after a failed save, or, by the end of a write of nothing, before the save.
Misled(s) ==
    \/ ~s.asserts /\ s.kind = "chunked" /\ s.saved = "failed"
    \/ WritesNothing(s)

\* An upload whose metadata is being saved, or is saved, has all its data in
\* Motr, and the authentication server has confirmed all its chunks, in
\* whatever order writes and confirmations end; and a client is told that its
\* upload is stored only when its metadata has been saved, but for the client
\* that is misled.
SavedIsWhole ==
    /\ up.phase = "save" \/ up.saved = "yes" =>
          /\ up.written = Size(up.kind)
          /\ IsChunked(up.kind) => up.checked = Chunks(up.kind)
    /\ up.replies > 0 /\ ~up.error => up.saved = "yes" \/ Misled(up)

\* However fast the client and slow Motr, the buffers that wait for a write
\* stay within the read ahead and one read.
InputIsBounded == Buffered(up) < Payload * ReadAhead + MaxRead

\* When the action of an upload is gone, no operation is under way that would
\* call it back.  The exception: a read that fails ends the action of a simple
\* object, or that of a chunked upload when memory is short, while a write or a
\* question to the authentication server is under way; and a write of nothing.
EndedEarly(s) ==
    \/ s.kind = "object" /\ s.readError # "none" /\ MayHappen(s, "slow")
    \/ IsChunked(s.kind) /\ s.readError = "ServiceUnavailable"
    \/ WritesNothing(s)
GoneUploadIsIdle == up.gone => ~Busy(up) \/ up.crashed \/ EndedEarly(up)

\* A client that stays is answered, even if it stops sending, unless the server
\* crashes.  The exceptions are those of the code: an upload that is given up for
\* want of memory, or whose reading is paused for it with no write to resume it; a
\* failed write, or a timeout, of signed chunks when the authentication server
\* has answered and no answer of it is due; and a client that stops sending after
\* the last data, before the last signature.
Unanswered(s) ==
    \/ s.readError = "ServiceUnavailable"
    \/ s.kind = "object" /\ s.paused /\ ~s.writing /\ MayHappen(s, "memory")
    \/ IsChunked(s.kind) /\ (s.writeFailed \/ s.aborted) /\ s.auth # "started"
    \/ Pending(s) = 0 /\ s.pos < Len(Wire[s.kind])
UploadIsAnswered ==
    <>(up.replies > 0 \/ ~up.connected \/ up.crashed) \/ <>[]Unanswered(up)
=============================================================================
