---------------------------- MODULE UploadInput ----------------------------
(***************************************************************************)
(* The body of one PUT as RequestObject receives it: the items the client  *)
(* sends, the buffers that wait for a Motr write, reading that is paused   *)
(* and resumed, and the read timer.  The operators take and return the     *)
(* state of the upload, since the callbacks of RequestObject call each     *)
(* other within one event.                                                 *)
(***************************************************************************)
EXTENDS Integers, Sequences, FiniteSets

CONSTANTS
    Kind,        \* "object", "part", "chunked" or "chunkedPart": the action of the PUT
    Wire,        \* [Kind -> sequence of "data" (one buffer) and "sig" (one chunk's signature)]
    Payload,     \* buffers in one Motr write
    ReadAhead,   \* S3_READ_AHEAD_MULTIPLE
    MaxRead      \* buffers that one read of a chunked body may fill

ASSUME PayloadAssumption == Payload \in Nat \ {0}
ASSUME ReadAheadAssumption == ReadAhead \in Nat \ {0}
ASSUME MaxReadAssumption == MaxRead \in 1..Payload

IsChunked(k) == k \in {"chunked", "chunkedPart"}

\* How many items of one sort are among the first n of the body.
CountOf(k, n, sort) == Cardinality({i \in 1..n : Wire[k][i] = sort})
Size(k) == CountOf(k, Len(Wire[k]), "data")
Chunks(k) == CountOf(k, Len(Wire[k]), "sig")

Received(s) == CountOf(s.kind, s.pos, "data")
Parsed(s) == CountOf(s.kind, s.pos, "sig")
Pending(s) == Size(s.kind) - Received(s)
Buffered(s) == Received(s) - s.taken

StopTimer(s) == [s EXCEPT !.timer = FALSE]
StartTimer(s) == IF s.readError # "none" THEN s ELSE [s EXCEPT !.timer = TRUE]

Pause(s) ==
    IF ~s.connected \/ s.readError # "none" \/ s.paused THEN s
    ELSE [s EXCEPT !.timer = FALSE, !.paused = TRUE]

\* Mutant: reading is resumed without a limit on how long it may take.
Resume_NoTimer(s, setTimer) ==
    IF ~s.connected \/ ~s.paused THEN s ELSE [s EXCEPT !.paused = FALSE]
Resume(s, setTimer) ==
    IF ~s.connected \/ ~s.paused THEN s
    ELSE LET r == [s EXCEPT !.paused = FALSE, !.timer = FALSE]
         IN  IF setTimer THEN StartTimer(r) ELSE r

StopProcessingIncomingData(s) == [s EXCEPT !.timer = FALSE, !.ignore = TRUE]

\* add_content for every buffer of the read; the last one freezes the input.
AddContent(s, n) ==
    LET t == [s EXCEPT !.pos = @ + n]
    IN  [t EXCEPT !.frozen = @ \/ Pending(t) = 0]

ClientHasDisconnected(s) == [s EXCEPT !.connected = FALSE, !.timer = FALSE]
=============================================================================
