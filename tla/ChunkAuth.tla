----------------------------- MODULE ChunkAuth -----------------------------
(***************************************************************************)
(* S3AuthClient while it validates the chunk signatures of one upload: one *)
(* request to the authentication server at a time, the other signatures    *)
(* queued.  s.sent counts the signatures the action has handed over,       *)
(* s.asked those sent to the server and s.checked those it confirmed.      *)
(***************************************************************************)
EXTENDS UploadInput

Queued(s) == s.sent - s.asked
LastChunkAdded(s) == s.sent = Chunks(s.kind)

TriggerRequest(s) == [s EXCEPT !.auth = "started", !.asked = @ + 1]

\* send_chunk_details_if_any: every signature that is ready is queued; the
\* first one starts the cycle when no request is under way.
SendChunkDetailsIfAny(s) ==
    IF Parsed(s) = s.sent THEN s
    ELSE LET t == [s EXCEPT !.sent = Parsed(s), !.authInProgress = TRUE]
         IN  IF s.auth = "started" THEN t ELSE TriggerRequest(t)

\* What the server's answer does to the client: the next request, the wait for
\* more signatures, or the end of the cycle, which calls the action.
Confirmed(s) == [s EXCEPT !.auth = "succeded", !.checked = @ + 1]
\* Mutant: the cycle ends with the last signature added, not with the last checked.
CycleEnds_Queued(s) == s.aborted \/ LastChunkAdded(s)
CycleEnds(s) == s.aborted \/ (LastChunkAdded(s) /\ Queued(s) = 0)
NextChunk(s) == IF Queued(s) = 0 THEN s ELSE TriggerRequest(s)
=============================================================================
