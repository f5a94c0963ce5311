---------------------------- MODULE ChunkParser ----------------------------
(***************************************************************************)
(* S3ChunkPayloadParser: the body of a chunked upload as it comes off the  *)
(* wire, cut into reads anywhere.  Each chunk is                           *)
(*     size ; chunk-signature = signature CR LF data CR LF                 *)
(* and the last has size 0.  The parser takes the data out of the body     *)
(* into buffers of its own, which it hands over when they are full, or     *)
(* when all the data the client announced is there; a read whose bytes     *)
(* are taken becomes the next such buffer.  A character of the wire is     *)
(* taken at a time, also of the data, which the code copies in runs: a run *)
(* is no longer than a buffer, so both fill the buffers alike.             *)
(***************************************************************************)
EXTENDS Naturals, Sequences
LOCAL INSTANCE SequencesExt

CONSTANTS CpBodies,  \* lists of chunks, [size, sig, data], each a sequence
          CpBuffer,  \* libevent_pool_buffer_size; a read (libevent_max_read_size) is no longer
          CpKey      \* characters of S3_AWS_CHUNK_KEY, "chunk-signature"

ASSUME CpAssumption == CpBuffer \in Nat \ {0} /\ CpKey \in Nat \ {0}

VARIABLES cp,     \* the parser
          wire    \* [body, text, pos]: what is sent, and what of it was read

cpVars == <<cp, wire>>

\* A character of the wire, and what it is there.
Ch(c, k) == [c |-> c, k |-> k]
Chars(s, k) == [i \in DOMAIN s |-> Ch(s[i], k)]
Encoded(chunk) ==
    Chars(chunk.size, "size") \o <<Ch(";", "size")>> \o
    [i \in 1 .. CpKey |-> Ch("key", "key")] \o <<Ch("=", "key")>> \o
    Chars(chunk.sig, "sig") \o <<Ch("CR", "sig"), Ch("LF", "sig")>> \o
    Chars(chunk.data, "data") \o <<Ch("CR", "end"), Ch("LF", "end")>>
WireOf(body) == FlattenSeq([i \in DOMAIN body |-> Encoded(body[i])])
ChunkData(text) ==
    LET data == SelectSeq(text, LAMBDA t : t.k = "data") IN [i \in DOMAIN data |-> data[i].c]

NewChunkDetail == [size |-> 0, sig |-> <<>>, data |-> <<>>]
NewParser(length) ==
    [state |-> "start", size |-> <<>>, sig |-> <<>>, key |-> CpKey, toRead |-> 0,
     length |-> length, detail |-> NewChunkDetail, details |-> <<>>,
     spare |-> << <<>> >>, ready |-> <<>>, out |-> <<>>]

-----------------------------------------------------------------------------
\* strtol(current_chunk_size, NULL, 16); the digits of a size.
Digit == [c \in {"0", "1", "2", "3"} |->
            CASE c = "0" -> 0 [] c = "1" -> 1 [] c = "2" -> 2 [] c = "3" -> 3]
ChunkSize(s) == FoldLeft(LAMBDA n, c : 16 * n + Digit[c], 0, s)

\* add_to_spare: what does not fit goes into the next spare, and the full one
\* to the ready ones.
AddToSpare(p, c) ==
    LET first == Head(p.spare)
    IN  IF Len(first) < CpBuffer
        THEN [p EXCEPT !.spare = <<Append(first, c)>> \o Tail(@)]
        ELSE IF Len(p.spare) = 1 THEN [p EXCEPT !.state = "crashed"]
        ELSE [p EXCEPT !.ready = Append(@, first),
                       !.spare = <<Append(p.spare[2], c)>> \o SubSeq(@, 3, Len(@))]

\* reset_parser_state.
ResetParserState(p) ==
    [p EXCEPT !.state = "chunk_size", !.size = <<>>, !.sig = <<>>, !.key = CpKey,
              !.toRead = 0, !.detail = NewChunkDetail]
ParseError(p) == [p EXCEPT !.state = "error"]

ParseSize(p, c) ==
    IF c = ";"
    THEN [p EXCEPT !.state = "signature_key", !.key = CpKey, !.toRead = ChunkSize(p.size),
                   !.detail.size = ChunkSize(p.size)]
    ELSE [p EXCEPT !.size = Append(@, c)]
ParseKey(p, c) ==
    CASE p.key = 0 /\ c = "=" -> [p EXCEPT !.state = "signature_value"]
      [] p.key > 0 /\ c = "key" -> [p EXCEPT !.key = @ - 1]
      [] OTHER -> ParseError(p)
ParseValue(p, c) ==
    IF c = "CR" THEN [p EXCEPT !.state = "cr"] ELSE [p EXCEPT !.sig = Append(@, c)]
\* A CR with no LF after it belongs to the signature; the state stays c_cr.
ParseCr(p, c) ==
    CASE c = "LF" -> [p EXCEPT !.state = "chunk_data", !.detail.sig = p.sig]
      [] c = "CR" -> [p EXCEPT !.sig = Append(@, "CR")]
      [] OTHER -> [p EXCEPT !.sig = @ \o <<"CR", c>>]
ParseEndCr(p, c) == IF c = "CR" THEN [p EXCEPT !.state = "data_end_lf"] ELSE ParseError(p)
ParseEndLf(p, c) ==
    IF c = "LF" THEN [p EXCEPT !.state = "start", !.details = Append(@, p.detail)] ELSE ParseError(p)
\* The last chunk has no data: the character is looked at again.
ParseData(p, c) ==
    IF p.toRead = 0 THEN ParseEndCr([p EXCEPT !.state = "data_end_cr"], c)
    ELSE LET q == AddToSpare([p EXCEPT !.toRead = @ - 1, !.length = @ - 1,
                                       !.detail.data = Append(@, c)], c)
         IN  IF q.state = "chunk_data" /\ q.toRead = 0 THEN [q EXCEPT !.state = "data_end_cr"] ELSE q

\* The loop of run over the characters of a read; an error leaves it.
ParseChar(p, c) ==
    LET q == IF p.state = "start" THEN ResetParserState(p) ELSE p
    IN  CASE q.state = "chunk_size" -> ParseSize(q, c)
          [] q.state = "signature_key" -> ParseKey(q, c)
          [] q.state = "signature_value" -> ParseValue(q, c)
          [] q.state = "cr" -> ParseCr(q, c)
          [] q.state = "chunk_data" -> ParseData(q, c)
          [] q.state = "data_end_cr" -> ParseEndCr(q, c)
          [] q.state = "data_end_lf" -> ParseEndLf(q, c)
          [] OTHER -> q

\* The end of run: with all the data there, partly filled spares are ready
\* too and empty ones are freed; the read's buffer is the last spare.
EndRun(p) ==
    IF p.length > 0 THEN [p EXCEPT !.spare = Append(@, <<>>)]
    ELSE [p EXCEPT !.ready = @ \o SelectSeq(p.spare, LAMBDA b : b # <<>>), !.spare = << <<>> >>]

\* notify_incoming_data: run; the request takes the ready buffers, unless the
\* parser is in error.
\* Mutant: what was read of the key is forgotten between two reads.
RunParser_KeyAnew(p, text) ==
    LET q == FoldLeft(LAMBDA r, t : ParseChar(r, t.c), [p EXCEPT !.ready = <<>>, !.key = CpKey], text)
    IN  IF q.state \in {"error", "crashed"} THEN q
        ELSE LET k == EndRun(q) IN [k EXCEPT !.out = @ \o k.ready]
RunParser(p, text) ==
    LET q == FoldLeft(LAMBDA r, t : ParseChar(r, t.c), [p EXCEPT !.ready = <<>>], text)
    IN  IF q.state \in {"error", "crashed"} THEN q
        ELSE LET k == EndRun(q) IN [k EXCEPT !.out = @ \o k.ready]

ReadBody ==
    \E n \in 1 .. CpBuffer :
       /\ cp.state \notin {"error", "crashed"} /\ wire.pos + n <= Len(wire.text)
       /\ cp' = RunParser(cp, SubSeq(wire.text, wire.pos + 1, wire.pos + n))
       /\ wire' = [wire EXCEPT !.pos = @ + n]

\* A body as it was sent, or with one character of a key or of an end spoiled.
CpInit ==
    \E body \in CpBodies :
       LET text == WireOf(body)
       IN  \E spoiled \in {0} \cup {i \in DOMAIN text : text[i].k \in {"key", "end"}} :
              /\ wire = [body |-> body, pos |-> 0,
                         text |-> [i \in DOMAIN text |-> IF i = spoiled THEN Ch("spoiled", "spoiled") ELSE text[i]]]
              /\ cp = NewParser(Len(ChunkData(text)))
CpNext == ReadBody

-----------------------------------------------------------------------------
\* The chunks of the body whose end was read.
ChunksRead ==
    LET ends == SelectSeq(SubSeq(wire.text, 1, wire.pos), LAMBDA t : t.k = "end")
    IN  [i \in 1 .. Len(ends) \div 2 |->
           [size |-> ChunkSize(wire.body[i].size), sig |-> wire.body[i].sig, data |-> wire.body[i].data]]

\* However the body is cut into reads, the data come out whole and in order
\* and each chunk with its own size, signature and data (on which the
\* signature is checked): nothing of what was read is lost or held twice, no
\* buffer holds more than it has room for, the assertion that a spare is left
\* holds, and nothing is held back once the client's announced length is
\* there.  In a spoiled body parsing stops at the spoiled character, with the
\* chunks before it as they were sent (S3ChunkPayloadParser::run,
\* add_to_spare).
ParsedIsWhole ==
    LET read == SubSeq(wire.text, 1, wire.pos)
        got == FlattenSeq(cp.out)
        held == FlattenSeq(cp.spare)
        spoiled == \E i \in DOMAIN read : read[i].k = "spoiled"
    IN  /\ cp.state # "crashed" /\ (cp.state = "error" <=> spoiled)
        /\ \A i \in DOMAIN cp.out : Len(cp.out[i]) <= CpBuffer
        /\ \A i \in DOMAIN cp.spare : Len(cp.spare[i]) <= CpBuffer
        /\ ~spoiled => /\ got \o held = ChunkData(read)
                       /\ cp.details = ChunksRead
                       /\ cp.length = 0 => held = <<>>
        /\ spoiled => IsPrefix(got, ChunkData(wire.text)) /\ IsPrefix(cp.details, ChunksRead)
=============================================================================
