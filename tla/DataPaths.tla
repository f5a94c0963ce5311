----------------------------- MODULE DataPaths -----------------------------
(***************************************************************************)
(* The requests that move data: uploads, GETs and copies.  They share no   *)
(* state, so one of them at a time shows all of it.                        *)
(***************************************************************************)
EXTENDS UploadStream, GetObject, CopyObject

\* One request at a time: an upload, a GET or a copy; the others are over.
vars == <<up, get, copy>>
NoUpload ==
    [NewUpload(CHOOSE k \in Kind : TRUE, FALSE, FALSE)
        EXCEPT !.gone = TRUE, !.connected = FALSE, !.phase = "cleanup", !.timer = FALSE]
NoGet ==
    [NewGet(CHOOSE o \in Stored : TRUE, CHOOSE h \in Headers : TRUE)
        EXCEPT !.gone = TRUE, !.op = "none"]
NoCopy ==
    [NewCopy(CHOOSE w \in Copies : TRUE, FALSE) EXCEPT !.gone = TRUE, !.connected = FALSE]
Init ==
    \/ UpInit /\ get = NoGet /\ copy = NoCopy
    \/ GetInit /\ up = NoUpload /\ copy = NoCopy
    \/ CopyInit /\ up = NoUpload /\ get = NoGet
Next ==
    \/ UpNext /\ UNCHANGED <<get, copy>>
    \/ GetNext /\ UNCHANGED <<up, copy>>
    \/ CopyNext /\ UNCHANGED <<up, get>>
Spec == Init /\ [][Next]_vars /\ UpFairness /\ GetFairness /\ CopyFairness

\* However fast or slow clients and Motr are, the data that is held in memory
\* for a request and the copies that run for it stay within their limits.
BuffersAreBounded == InputIsBounded /\ OutputIsBounded /\ ParallelIsBounded

\* Nothing that is under way calls back an action or a copier that is gone,
\* although actions end early: on errors, timeouts, shutdowns, and when the
\* client leaves.
NoneCallsBackTheGone == GoneUploadIsIdle /\ GoneGetIsIdle /\ FreedIsIdle

\* Whatever fails, a client that stays is answered, even if it stops sending.
ClientIsAnswered == UploadIsAnswered /\ GetEnds /\ CopyIsAnswered
=============================================================================
