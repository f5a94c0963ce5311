------------------------ MODULE UploadStream_proofs ------------------------
(***************************************************************************)
(* Proofs about UploadStream, for every body and every way it is cut into  *)
(* reads, every size of a write and of the read ahead, whatever fails,     *)
(* whoever leaves and whenever the server shuts down: metadata is saved    *)
(* only of data that is in Motr and whose signatures are confirmed, and    *)
(* nothing that is under way calls back an upload that is gone.            *)
(***************************************************************************)
EXTENDS UploadStream, FiniteSetTheorems, TLAPS

UpSpec == UpInit /\ [][UpNext]_up

UpFields ==
    {"kind", "asserts", "badDigest", "saved", "crashed", "phase", "state", "error", "pos",
     "taken", "written", "writing", "inProgress", "frozen", "paused", "timer", "readError", "ignore", "connected", "listener", "auth", "sent",
     "asked", "checked", "aborted", "authInProgress", "authCompleted", "authFailed",
     "writeFailed", "writeCompleted", "saving", "replies", "ops", "task", "gone", "shutdown",
     "scheduled", "checksShutdown"}
IsUp(s) == s = [f \in UpFields |-> s[f]]

\* All fields but these.
UpKept(s, t, changed) == IsUp(t) /\ \A f \in UpFields \ changed : t[f] = s[f]

\* The bodies: data only, or data and signatures; and no signature comes in a
\* read after the last data.
Bodies ==
    /\ Kind \subseteq {"object", "part", "chunked", "chunkedPart"}
    /\ \A k \in Kind :
          /\ Wire[k] \in Seq({"data", "sig"}) /\ (IsChunked(k) => Size(k) > 0)
          /\ ~IsChunked(k) => \A i \in 1 .. Len(Wire[k]) : Wire[k][i] = "data"
          /\ <<k, "trailer">> \notin Fault

-----------------------------------------------------------------------------
(* The inductive invariant.                                                *)

\* All data is written and all signatures are confirmed.
Whole(s) ==
    s.written = Size(s.kind) /\ (IsChunked(s.kind) => s.checked = Chunks(s.kind))

\* The client may be told that the upload is stored.
Good(s) == s.saved = "yes" \/ Misled(s)

\* What is written has been taken of what was received; what is confirmed was
\* asked, and one question is under way.
Due(s) == IF s.auth = "started" THEN 1 ELSE 0
UpNumbers(s) ==
    /\ s.pos \in 0 .. Len(Wire[s.kind]) /\ s.taken \in Nat /\ s.written \in Nat
    /\ s.written <= s.taken /\ s.taken <= Received(s)
    /\ s.sent \in Nat /\ s.asked \in Nat /\ s.checked \in Nat
    /\ s.asked <= s.sent /\ s.sent <= Parsed(s) /\ s.checked + Due(s) <= s.asked
    /\ ~s.authFailed => s.asked = s.checked + Due(s)
    /\ s.frozen /\ s.readError = "none" => Received(s) = Size(s.kind)
    /\ Received(s) = Size(s.kind) => s.pos = Len(Wire[s.kind])

\* What the data and the signatures have come to, and nothing else.
CoreFields ==
    {"kind", "pos", "taken", "written", "writing", "inProgress", "frozen", "readError", "auth",
     "sent", "asked", "checked", "authInProgress", "authFailed", "writeFailed", "saved",
     "asserts"}
UpCore(s) ==
    /\ IsUp(s) /\ s.kind \in Kind /\ UpNumbers(s) /\ (s.inProgress <=> s.writing)
    /\ ~IsChunked(s.kind) => s.auth = "init"

\* What the action has made known of it.
UpMarks(s) ==
    /\ s.phase = "save" \/ s.saving \/ s.saved = "yes" => Whole(s)
    /\ s.aborted \/ s.writeFailed \/ s.replies > 0 => s.error \/ Good(s)
    /\ s.authFailed => s.error
    /\ s.saving => s.saved = "no" /\ (s.phase = "save" \/ s.error)

\* What holds at any time, also within an event.
UpBase(s) == UpCore(s) /\ UpMarks(s)

\* Before the data is streamed.
Setup(s) ==
    /\ s.phase = "setup" /\ s.written = 0 /\ s.taken = 0 /\ ~s.writing
    /\ s.auth = "init" /\ s.sent = 0
    /\ ~s.aborted /\ ~s.authInProgress /\ ~s.authCompleted
    /\ ~s.authFailed /\ ~s.writeFailed /\ ~s.writeCompleted /\ ~s.listener

\* While it is: nothing under way that was given up comes to be saved, and
\* what failed is answered when the other operation ends.
Given(s) ==
    /\ s.phase = "stream"
    /\ s.writeCompleted /\ ~s.writeFailed /\ s.readError = "none" =>
          s.written = Size(s.kind) /\ ~s.writing
    /\ s.aborted => s.readError # "none" \/ s.shutdown \/ s.writeFailed
    /\ s.authCompleted =>
          \/ s.authFailed \/ s.readError # "none" \/ s.shutdown
          \/ s.writeFailed \/ s.checked = Chunks(s.kind)
    /\ s.writeFailed => ~s.writing /\ (s.paused \/ ~s.connected \/ s.readError # "none")
    /\ s.authFailed => s.auth # "started"
Streaming(s) == Given(s) /\ (s.authFailed => s.writing \/ s.ignore \/ s.writeFailed)
Early(s) == s.replies = 0 /\ s.ops = 0 /\ ~s.saving /\ s.saved = "no" /\ s.checksShutdown

Saving(s) ==
    /\ s.phase = "save" /\ s.saving /\ ~s.checksShutdown /\ s.replies = 0 /\ s.ops = 0
    /\ s.pos = Len(Wire[s.kind]) /\ ~s.writing /\ s.auth # "started"

UpPhase(s) ==
    \/ (Setup(s) \/ Streaming(s)) /\ Early(s)
    \/ Saving(s)
    \/ s.phase = "cleanup"
UpOK(s) == UpBase(s) /\ UpPhase(s)
UpIInv == UpOK(up)

\* What is buffered.  Reading goes on below the read ahead, or with what one
\* read has brought when the action begins to listen; before that there is one
\* read, and no write but of a complete body.
Limit == Payload * ReadAhead
Reading(s) == s.connected /\ ~s.paused /\ ~s.ignore /\ s.readError = "none"
UpBounded(s) ==
    /\ Buffered(s) < Limit + MaxRead
    /\ Reading(s) /\ ~s.frozen =>
          Buffered(s) < Limit \/ (~s.writing /\ s.listener /\ Buffered(s) <= MaxRead)
    /\ ~s.listener =>
          /\ Buffered(s) <= MaxRead /\ (Reading(s) => Buffered(s) = 0 \/ s.frozen)
          /\ s.writing => s.frozen
    /\ Received(s) = Size(s.kind) => s.frozen
UpBoundIInv == UpIInv /\ UpBounded(up)

-----------------------------------------------------------------------------
(* The items of a body.                                                    *)

\* A count of items is a number.
LEMMA CountIsNat ==
    ASSUME NEW k, NEW n \in Nat, NEW sort
    PROVE  CountOf(k, n, sort) \in Nat
<1> DEFINE T == {i \in 1 .. n : Wire[k][i] = sort}
<1>1. IsFiniteSet(1 .. n)
  BY FS_Interval
<1>2. T \subseteq 1 .. n
  OBVIOUS
<1> HIDE DEF T
<1>3. Cardinality(T) \in Nat
  BY <1>1, <1>2, FS_Subset, FS_CardinalityType
<1> QED
  BY <1>1, <1>3 DEF CountOf, T

\* More items of the body hold no fewer of a sort.
LEMMA CountGrows ==
    ASSUME NEW k, NEW m \in Nat, NEW n \in Nat, NEW sort, m <= n
    PROVE  CountOf(k, m, sort) <= CountOf(k, n, sort)
<1> DEFINE S == {i \in 1 .. m : Wire[k][i] = sort}
           T == {i \in 1 .. n : Wire[k][i] = sort}
<1>1. S \subseteq T
  OBVIOUS
<1>2. IsFiniteSet(1 .. n) /\ T \subseteq 1 .. n
  BY FS_Interval
<1> HIDE DEF S, T
<1>3. Cardinality(S) <= Cardinality(T)
  <2>1. IsFiniteSet(T)
    BY <1>2, FS_Subset
  <2> QED
    BY <1>1, <2>1, FS_Subset
<1> QED
  BY <1>3 DEF CountOf, S, T

\* A body of data only has as many buffers as items.
LEMMA CountOfData ==
    ASSUME NEW k, NEW n \in Nat, \A i \in 1 .. n : Wire[k][i] = "data"
    PROVE  CountOf(k, n, "data") = n
<1> DEFINE T == {i \in 1 .. n : Wire[k][i] = "data"}
<1>1. T = 1 .. n
  OBVIOUS
<1> HIDE DEF T
<1>2. Cardinality(T) = n
  BY <1>1, FS_Interval
<1> QED
  BY <1>2 DEF CountOf, T

\* What the numbers of an upload say of its body.
LEMMA UpCounts ==
    ASSUME NEW s, Bodies, s.kind \in Kind, s.pos \in 0 .. Len(Wire[s.kind])
    PROVE  /\ Len(Wire[s.kind]) \in Nat /\ s.pos \in Nat
           /\ Received(s) \in Nat /\ Size(s.kind) \in Nat /\ Received(s) <= Size(s.kind)
           /\ Parsed(s) \in Nat /\ Chunks(s.kind) \in Nat /\ Parsed(s) <= Chunks(s.kind)
<1> DEFINE k == s.kind
           l == Len(Wire[k])
<1>1. l \in Nat /\ s.pos \in Nat /\ s.pos <= l
  BY DEF Bodies
<1> HIDE DEF k, l
<1>2. /\ CountOf(k, s.pos, "data") \in Nat /\ CountOf(k, l, "data") \in Nat
      /\ CountOf(k, s.pos, "data") <= CountOf(k, l, "data")
  BY <1>1, CountIsNat, CountGrows
<1>3. /\ CountOf(k, s.pos, "sig") \in Nat /\ CountOf(k, l, "sig") \in Nat
      /\ CountOf(k, s.pos, "sig") <= CountOf(k, l, "sig")
  BY <1>1, CountIsNat, CountGrows
<1> QED
  BY <1>1, <1>2, <1>3 DEF k, l, Received, Parsed, Size, Chunks

-----------------------------------------------------------------------------
(* What the operators change.                                              *)

Calm(s, t) == IsUp(t) /\ \A f \in CoreFields : t[f] = s[f]

\* A step that changes none of the core fields keeps what they say.
LEMMA CoreStays ==
    ASSUME NEW s, NEW t, UpCore(s), Calm(s, t)
    PROVE  UpCore(t) /\ (Whole(t) <=> Whole(s)) /\ (Good(t) <=> Good(s)) /\ t.saved = s.saved
<1>1. /\ t.kind = s.kind /\ t.pos = s.pos /\ t.taken = s.taken /\ t.written = s.written
      /\ t.writing = s.writing /\ t.inProgress = s.inProgress /\ t.frozen = s.frozen
      /\ t.readError = s.readError /\ t.auth = s.auth /\ t.sent = s.sent /\ t.asked = s.asked
      /\ t.checked = s.checked /\ t.authFailed = s.authFailed /\ IsUp(t)
      /\ t.saved = s.saved /\ t.asserts = s.asserts
  BY DEF Calm, CoreFields
<1>2. Received(t) = Received(s) /\ Parsed(t) = Parsed(s) /\ Due(t) = Due(s)
  BY <1>1 DEF Received, Parsed, Due
<1>3. UpNumbers(t)
  BY <1>1, <1>2 DEF UpCore, UpNumbers
<1>4. Good(t) <=> Good(s)
  BY <1>1 DEF Good, Misled, WritesNothing, MayHappen
<1> QED
  BY <1>1, <1>3, <1>4 DEF UpCore, Whole

\* What a step of the input or of an answer leaves as it was: the data, and an
\* input that is stopped.
Held(s, t) ==
    /\ Calm(s, t) /\ t.connected = s.connected /\ t.listener = s.listener
    /\ (s.ignore => t.ignore) /\ (s.paused => t.paused \/ t.ignore)

\* Two such steps are one.
LEMMA HeldAgain ==
    ASSUME NEW s, NEW t, NEW u, Held(s, t), Held(t, u)
    PROVE  Held(s, u)
  BY DEF Held, Calm

\* The input as it was, or stopped since, and no new write.
Still(s, t) ==
    /\ t.kind = s.kind /\ t.pos = s.pos /\ t.taken = s.taken /\ t.frozen = s.frozen
    /\ t.readError = s.readError /\ t.listener = s.listener
    /\ (t.connected => s.connected) /\ (t.writing => s.writing)
    /\ (s.ignore => t.ignore) /\ (s.paused => t.paused \/ t.ignore)

\* Two such steps are one.
LEMMA StillAgain ==
    ASSUME NEW s, NEW t, NEW u, Still(s, t), Still(t, u)
    PROVE  Still(s, u)
  BY DEF Still

\* What leaves the data as it was leaves the input as it was.
LEMMA HeldIsStill ==
    ASSUME NEW s, NEW t, Held(s, t)
    PROVE  Still(s, t)
  BY DEF Held, Calm, CoreFields, Still

\* pause: reading stops, unless the client is gone or a read has failed.
LEMMA PauseIs ==
    ASSUME NEW s, IsUp(s)
    PROVE  LET t == Pause(s)
           IN  /\ UpKept(s, t, {"timer", "paused"}) /\ (s.paused => t.paused)
               /\ t.paused \/ ~s.connected \/ s.readError # "none"
  BY DEF Pause, UpKept, IsUp, UpFields

\* resume: only reading and its timer change.
LEMMA ResumeIs ==
    ASSUME NEW s, NEW b, IsUp(s)
    PROVE  UpKept(s, Resume(s, b), {"timer", "paused"})
<1> DEFINE r == [s EXCEPT !.paused = FALSE, !.timer = FALSE]
           q == [r EXCEPT !.timer = TRUE]
<1>1. UpKept(s, r, {"timer", "paused"}) /\ UpKept(s, s, {"timer", "paused"})
  BY DEF UpKept, IsUp, UpFields
<1>2. UpKept(s, q, {"timer", "paused"})
  BY DEF UpKept, IsUp, UpFields
<1> HIDE DEF q, r
<1>3. Resume(s, b) \in {s, r, q}
  BY DEF Resume, StartTimer, q, r
<1> QED
  BY <1>1, <1>2, <1>3

\* stop_processing_incoming_data: what arrives is ignored from now on.
LEMMA StopIs ==
    ASSUME NEW s, IsUp(s)
    PROVE  LET t == StopProcessingIncomingData(s)
           IN  UpKept(s, t, {"timer", "ignore"}) /\ t.ignore
  BY DEF StopProcessingIncomingData, UpKept, IsUp, UpFields

-----------------------------------------------------------------------------
(* The end of an upload.                                                   *)

\* What a clean up that begins changes.
CleanupFields == {"phase", "task", "scheduled", "error", "replies", "ops", "gone", "crashed"}

\* A failed assertion ends the action, and nothing else changes.
LEMMA CrashIs ==
    ASSUME NEW s, IsUp(s)
    PROVE  LET t == UploadCrashes(s)
           IN  UpKept(s, t, {"phase", "gone", "crashed"}) /\ t.phase = "cleanup" /\ t.gone /\ t.crashed
  BY DEF UploadCrashes, UpKept, IsUp, UpFields

\* startcleanup changes no data, takes back no error, and answers only with one.
LEMMA StartCleanupIs ==
    ASSUME NEW s, IsUp(s)
    PROVE  LET t == StartCleanup(s)
           IN  /\ UpKept(s, t, CleanupFields)
               /\ t.phase = "cleanup" /\ (s.error => t.error)
               /\ t.replies = s.replies \/ t.error
<1> DEFINE t == [s EXCEPT !.phase = "cleanup", !.task = 0]
           e == (t.error \/ ~t.scheduled)
           n == IF t.connected /\ ~t.scheduled THEN t.replies + 1 ELSE t.replies
           m == t.ops + 1
           c == UploadCrashes(t)
           u == [t EXCEPT !.scheduled = TRUE, !.error = e, !.replies = n]
           v == [t EXCEPT !.ops = m, !.task = 1]
<1>1. StartCleanup(s) = IF t.state \notin Undoable(t.kind) /\ t.asserts THEN c
                        ELSE IF t.shutdown /\ t.checksShutdown THEN u
                        ELSE IF t.state \notin Undoable(t.kind) THEN t ELSE v
  BY DEF StartCleanup
<1>2. UpKept(s, t, CleanupFields) /\ t.phase = "cleanup" /\ t.error = s.error /\ t.replies = s.replies
  BY DEF UpKept, IsUp, UpFields, CleanupFields
<1>3. s.error => e
  BY <1>2
<1> HIDE DEF t, e, m
<1>4. UpKept(s, c, CleanupFields) /\ c.phase = "cleanup" /\ c.error = t.error /\ c.replies = t.replies
  <2>1. IsUp(t)
    BY <1>2 DEF UpKept
  <2>2. UpKept(t, c, {"phase", "gone", "crashed"}) /\ c.phase = "cleanup"
    BY <2>1, CrashIs
  <2> HIDE DEF c
  <2> QED
    BY <1>2, <2>2 DEF UpKept, UpFields, CleanupFields
<1>5. UpKept(s, v, CleanupFields) /\ v.phase = "cleanup" /\ v.error = t.error /\ v.replies = t.replies
  BY <1>2 DEF UpKept, IsUp, UpFields, CleanupFields
<1> HIDE DEF c, v, n
<1>6. UpKept(s, u, CleanupFields) /\ u.phase = "cleanup" /\ (u.error <=> e) /\ u.replies = n
  BY <1>2 DEF UpKept, IsUp, UpFields, CleanupFields
<1> HIDE DEF u
<1>7. u.replies = s.replies \/ u.error
  BY <1>6, <1>2 DEF e, n
<1> QED
  BY <1>1, <1>2, <1>3, <1>4, <1>5, <1>6, <1>7

\* What has ended keeps its data, and is marked for no more than it is.
LEMMA EndsWell ==
    ASSUME NEW s, NEW t, UpBase(s), Held(s, t), t.phase = "cleanup", t.saving = s.saving,
           t.aborted = s.aborted, s.error => t.error, s.saving => s.error,
           t.replies = s.replies \/ t.error \/ Good(s)
    PROVE  UpBase(t)
<1>1. UpCore(t) /\ (Whole(t) <=> Whole(s)) /\ (Good(t) <=> Good(s)) /\ t.saved = s.saved
  BY CoreStays DEF UpBase, Held
<1>2. t.authFailed = s.authFailed /\ t.writeFailed = s.writeFailed
  BY DEF Held, Calm, CoreFields
<1>3. UpMarks(t)
  BY <1>1, <1>2 DEF UpBase, UpMarks
<1> QED
  BY <1>1, <1>3 DEF UpBase

\* A failed assertion ends the upload.
LEMMA CrashEnds ==
    ASSUME NEW s, UpBase(s), s.saving => s.error
    PROVE  LET t == UploadCrashes(s)
           IN  UpBase(t) /\ t.phase = "cleanup" /\ Held(s, t)
<1> DEFINE t == UploadCrashes(s)
<1>1. UpKept(s, t, {"phase", "gone", "crashed"}) /\ t.phase = "cleanup"
  BY CrashIs DEF UpBase, UpCore
<1> HIDE DEF t
<1>2. /\ Held(s, t) /\ t.saving = s.saving /\ t.aborted = s.aborted /\ t.error = s.error
      /\ t.replies = s.replies
  BY <1>1 DEF UpKept, UpFields, Held, Calm, CoreFields
<1>3. UpBase(t)
  BY <1>1, <1>2, EndsWell
<1> QED
  BY <1>1, <1>2, <1>3 DEF t

\* startcleanup ends an upload that is not being saved, or has failed.
LEMMA StartCleanupEnds ==
    ASSUME NEW s, UpBase(s), s.saving => s.error
    PROVE  LET t == StartCleanup(s)
           IN  UpBase(t) /\ t.phase = "cleanup" /\ Held(s, t)
<1> DEFINE t == StartCleanup(s)
<1>1. /\ UpKept(s, t, CleanupFields) /\ t.phase = "cleanup" /\ (s.error => t.error)
      /\ t.replies = s.replies \/ t.error
  BY StartCleanupIs DEF UpBase, UpCore
<1> HIDE DEF t
<1>2. Held(s, t) /\ t.saving = s.saving /\ t.aborted = s.aborted
  BY <1>1 DEF UpKept, UpFields, Held, Calm, CoreFields, CleanupFields
<1>3. UpBase(t)
  BY <1>1, <1>2, EndsWell
<1> QED
  BY <1>1, <1>2, <1>3 DEF t

\* What an answer changes.
ReplyFields == CleanupFields \cup {"timer", "paused", "ignore"}

\* An answer starts the clean up and stops the input.
LEMMA ReplyIs ==
    ASSUME NEW s, IsUp(s)
    PROVE  LET t == Reply(s)
           IN  /\ UpKept(s, t, ReplyFields)
               /\ t.phase = "cleanup" /\ (s.error => t.error) /\ t.ignore
<1> DEFINE n == s.replies + (IF s.connected THEN 1 ELSE 0)
           a == [s EXCEPT !.replies = n]
           b == StopProcessingIncomingData(a)
           c == Resume(b, FALSE)
           t == StartCleanup(c)
<1>1. Reply(s) = t
  BY DEF Reply
<1> HIDE DEF n
<1>2. UpKept(s, a, {"replies"})
  BY DEF UpKept, IsUp, UpFields
<1> HIDE DEF a
<1>3. UpKept(a, b, {"timer", "ignore"}) /\ b.ignore
  BY <1>2, StopIs DEF UpKept
<1> HIDE DEF b
<1>4. UpKept(b, c, {"timer", "paused"})
  BY <1>3, ResumeIs DEF UpKept
<1> HIDE DEF c
<1>5. /\ UpKept(c, t, CleanupFields)
      /\ t.phase = "cleanup" /\ (c.error => t.error)
  BY <1>4, StartCleanupIs DEF UpKept
<1> HIDE DEF t
<1>6. c.error = s.error /\ (t.ignore <=> b.ignore)
  BY <1>2, <1>3, <1>4, <1>5 DEF UpKept, UpFields, CleanupFields
<1>7. UpKept(s, t, ReplyFields)
  BY <1>2, <1>3, <1>4, <1>5 DEF UpKept, ReplyFields, CleanupFields
<1> QED
  BY <1>1, <1>3, <1>5, <1>6, <1>7

\* An answer ends an upload that has failed or may be told so, in any action; a
\* failed assertion ends it as well.
LEMMA ObjectResponseIs ==
    ASSUME NEW s, UpBase(s), s.saving => s.error, s.error \/ Good(s), NEW r,
           r = Reply(s) \/ r = ObjectResponse(s)
    PROVE  UpBase(r) /\ r.phase = "cleanup" /\ Held(s, r)
<1> DEFINE st == IF s.error THEN s.state ELSE "completed"
           q == [s EXCEPT !.state = st]
<1>1. IsUp(s)
  BY DEF UpBase, UpCore
<1>2. ObjectResponse(s) \in {Reply(q), UploadCrashes(s)}
  BY DEF ObjectResponse
<1> HIDE DEF st
<1>4. UpKept(s, q, {"state"})
  BY <1>1 DEF UpKept, IsUp, UpFields
<1> HIDE DEF q
<1>5. ASSUME NEW u, UpKept(s, u, {"state"}), r = Reply(u)
      PROVE  UpBase(r) /\ r.phase = "cleanup" /\ Held(s, r)
  <2>1. /\ UpKept(u, r, ReplyFields) /\ r.phase = "cleanup" /\ (u.error => r.error) /\ r.ignore
    BY <1>5, ReplyIs DEF UpKept
  <2>2. Held(s, r) /\ r.saving = s.saving /\ r.aborted = s.aborted /\ u.error = s.error
    BY <1>5, <2>1 DEF UpKept, UpFields, Held, Calm, CoreFields, ReplyFields, CleanupFields
  <2> QED
    BY <1>5, <2>1, <2>2, EndsWell
<1>6. UpKept(s, s, {"state"})
  BY <1>1 DEF UpKept
<1> QED
  BY <1>2, <1>4, <1>5, <1>6, CrashEnds

\* The upload is answered and its clean up begins, or the answer waits for the
\* authentication server.
Out(s, t) ==
    /\ UpBase(t) /\ Held(s, t)
    /\ \/ t.phase = "cleanup"
       \/ WaitsForAuth(s) /\ UpKept(s, t, {"error", "aborted"})

\* send_response_to_s3_client of any action ends the upload or waits.
LEMMA SendResponseEnds ==
    ASSUME NEW s, UpBase(s), s.saving => s.error, s.error \/ Good(s)
    PROVE  Out(s, SendResponse(s))
<1> DEFINE w == [s EXCEPT !.aborted = TRUE]
<1>1. IsUp(s)
  BY DEF UpBase, UpCore
<1>2. UpKept(s, w, {"error", "aborted"}) /\ w.aborted /\ w.error = s.error
  BY <1>1 DEF UpKept, IsUp, UpFields
<1> HIDE DEF w
<1>3. /\ Held(s, w) /\ w.phase = s.phase /\ w.saving = s.saving /\ w.state = s.state
      /\ w.authFailed = s.authFailed /\ w.writeFailed = s.writeFailed /\ w.replies = s.replies
  BY <1>2 DEF UpKept, UpFields, Held, Calm, CoreFields
<1>4. UpBase(w)
  <2>1. UpCore(w) /\ (Whole(w) <=> Whole(s)) /\ (Good(w) <=> Good(s)) /\ w.saved = s.saved
    BY <1>3, CoreStays DEF UpBase, Held
  <2> QED
    BY <1>2, <1>3, <2>1 DEF UpBase, UpMarks
<1>5. WaitsForAuth(s) => Out(s, w)
  BY <1>2, <1>3, <1>4 DEF Out
<1>6. Out(s, Reply(s)) /\ Out(s, ObjectResponse(s))
  BY ObjectResponseIs DEF Out
<1> QED
  BY <1>5, <1>6 DEF SendResponse, PartResponse, ChunkedResponse, w

\* With its error set, an upload is marked for nothing that it has not.
Erring(s) == [s EXCEPT !.error = TRUE]

\* An error that is set changes nothing else, and only weakens the marks.
LEMMA ErringIs ==
    ASSUME NEW s, IsUp(s)
    PROVE  /\ UpKept(s, Erring(s), {"error"}) /\ Erring(s).error /\ Held(s, Erring(s))
           /\ UpBase(s) => UpBase(Erring(s))
<1> DEFINE e == Erring(s)
<1>1. UpKept(s, e, {"error"}) /\ e.error
  BY DEF Erring, UpKept, IsUp, UpFields
<1> HIDE DEF e
<1>2. /\ Held(s, e) /\ e.phase = s.phase /\ e.saving = s.saving /\ e.state = s.state
      /\ e.aborted = s.aborted /\ e.replies = s.replies /\ e.authFailed = s.authFailed /\ e.writeFailed = s.writeFailed
  BY <1>1 DEF UpKept, UpFields, Held, Calm, CoreFields
<1>3. UpBase(s) => UpBase(e)
  <2> HAVE UpBase(s)
  <2>1. UpCore(e) /\ (Whole(e) <=> Whole(s)) /\ (Good(e) <=> Good(s)) /\ e.saved = s.saved
    BY <1>2, CoreStays DEF UpBase, Held
  <2> QED
    BY <1>1, <1>2, <2>1 DEF UpBase, UpMarks
<1> QED
  BY <1>1, <1>2, <1>3 DEF e

\* A failure that is answered ends the upload or waits.
LEMMA FailEnds ==
    ASSUME NEW s, IsUp(s), UpBase(Erring(s))
    PROVE  Out(s, Fail(s)) /\ Out(s, ClientReadError(s))
<1> DEFINE e == Erring(s)
<1>1. UpKept(s, e, {"error"}) /\ e.error /\ Held(s, e)
  BY ErringIs
<1>2. Fail(s) = SendResponse(e) /\ ClientReadError(s) \in {Fail(s), StartCleanup(e)}
  BY DEF Fail, ClientReadError, Erring
<1> HIDE DEF e
<1>3. UpBase(e)
  BY DEF e
<1>4. Out(e, SendResponse(e))
  BY <1>1, <1>3, SendResponseEnds
<1>5. Out(e, StartCleanup(e))
  BY <1>1, <1>3, StartCleanupEnds DEF Out
<1>6. ASSUME NEW t, Out(e, t) PROVE Out(s, t)
  <2>1. Held(s, t)
    BY <1>1, <1>6, HeldAgain DEF Out
  <2>2. WaitsForAuth(e) = WaitsForAuth(s)
    BY <1>1 DEF UpKept, UpFields, WaitsForAuth
  <2>3. ASSUME UpKept(e, t, {"error", "aborted"}) PROVE UpKept(s, t, {"error", "aborted"})
    BY <1>1, <2>3 DEF UpKept
  <2> QED
    BY <1>6, <2>1, <2>2, <2>3 DEF Out
<1> QED
  BY <1>2, <1>4, <1>5, <1>6

\* A rollback that does not end the upload has it ignore its input, and leaves
\* what it does to the answer that is due.
RolledBack(s, t) ==
    /\ UpBase(t) /\ Held(s, t)
    /\ \/ t.phase = "cleanup"
       \/ /\ UpKept(s, t, {"timer", "ignore", "paused", "scheduled", "error", "aborted"})
          /\ t.ignore /\ (s.paused => t.paused)
          /\ t.aborted = s.aborted \/ WaitsForAuth(s)

\* A shutdown ends the upload, or finds that another call has begun to.
LEMMA RollbackEnds ==
    ASSUME NEW s, NEW c, UpBase(s), s.saving => s.error
    PROVE  RolledBack(s, Rollback(s, c))
<1> DEFINE t == StopProcessingIncomingData(s)
           p == Pause(t)
           q == [p EXCEPT !.scheduled = TRUE]
           C == {"timer", "ignore", "paused", "scheduled", "error", "aborted"}
<1>1. Rollback(s, c) = IF c /\ t.aborted THEN SendResponse(t) ELSE IF t.scheduled THEN t ELSE Fail(q)
  BY DEF Rollback
<1>2. IsUp(s)
  BY DEF UpBase, UpCore
<1>3. UpKept(s, t, {"timer", "ignore"}) /\ t.ignore
  BY <1>2, StopIs
<1> HIDE DEF t
<1>4. UpKept(t, p, {"timer", "paused"}) /\ (t.paused => p.paused)
  BY <1>3, PauseIs DEF UpKept
<1> HIDE DEF p
<1>5. UpKept(p, q, {"scheduled"})
  BY <1>4 DEF UpKept, IsUp, UpFields
<1> HIDE DEF q
<1>6. ASSUME NEW u, UpKept(s, u, C), u.error = s.error, u.aborted = s.aborted, u.ignore,
             s.paused => u.paused
      PROVE  UpBase(u) /\ RolledBack(s, u) /\ u.saving = s.saving
  <2>1. /\ Held(s, u) /\ u.phase = s.phase /\ u.saving = s.saving /\ u.state = s.state
        /\ u.authFailed = s.authFailed /\ u.writeFailed = s.writeFailed /\ u.replies = s.replies
    BY <1>6 DEF UpKept, UpFields, Held, Calm, CoreFields
  <2>2. UpCore(u) /\ (Whole(u) <=> Whole(s)) /\ (Good(u) <=> Good(s)) /\ u.saved = s.saved
    BY <2>1, CoreStays DEF UpBase, Held
  <2>3. UpBase(u)
    BY <1>6, <2>1, <2>2 DEF UpBase, UpMarks
  <2> QED
    BY <1>6, <2>1, <2>3 DEF RolledBack
<1>7. ASSUME NEW u, NEW v, UpKept(s, u, C), u.error = s.error, u.aborted = s.aborted, u.ignore,
             s.paused => u.paused, Out(u, v)
      PROVE  RolledBack(s, v)
  <2>1. Held(s, u) /\ WaitsForAuth(u) = WaitsForAuth(s)
    BY <1>7 DEF UpKept, UpFields, Held, Calm, CoreFields, WaitsForAuth
  <2>2. Held(s, v) /\ UpBase(v)
    BY <1>7, <2>1, HeldAgain DEF Out
  <2>3. ASSUME UpKept(u, v, {"error", "aborted"})
        PROVE  UpKept(s, v, C) /\ v.ignore /\ (s.paused => v.paused)
    BY <1>7, <2>3 DEF UpKept, UpFields
  <2> QED
    BY <1>7, <2>1, <2>2, <2>3 DEF Out, RolledBack
<1>8. UpKept(s, t, C) /\ t.error = s.error /\ t.aborted = s.aborted /\ (s.paused => t.paused)
  BY <1>3 DEF UpKept, UpFields
<1>9. UpKept(s, q, C) /\ q.error = s.error /\ q.aborted = s.aborted /\ (s.paused => q.paused) /\ q.ignore
  <2>1. UpKept(s, q, C)
    BY <1>3, <1>4, <1>5 DEF UpKept
  <2> QED
    BY <1>3, <1>4, <1>5, <2>1 DEF UpKept, UpFields
<1>10. UpBase(t) /\ RolledBack(s, t) /\ t.saving = s.saving
  BY <1>3, <1>6, <1>8
<1>11. UpBase(q)
  BY <1>6, <1>9
<1>12. ASSUME t.aborted PROVE RolledBack(s, SendResponse(t))
  <2>1. t.error \/ Good(t)
    BY <1>10, <1>12 DEF UpBase, UpMarks
  <2>2. Out(t, SendResponse(t))
    BY <1>8, <1>10, <2>1, SendResponseEnds
  <2> QED
    BY <1>3, <1>7, <1>8, <2>2
<1>13. RolledBack(s, Fail(q))
  <2>1. IsUp(q)
    BY <1>9 DEF UpKept
  <2>2. Out(q, Fail(q))
    BY <1>11, <2>1, ErringIs, FailEnds
  <2> QED
    BY <1>7, <1>9, <2>2
<1> QED
  BY <1>1, <1>10, <1>12, <1>13

-----------------------------------------------------------------------------
(* The next task.                                                          *)

\* The next task of a clean up leaves the data alone.
LEMMA NextCleanupTaskIs ==
    ASSUME NEW s, UpBase(s), s.phase = "cleanup"
    PROVE  UpBase(NextCleanupTask(s)) /\ NextCleanupTask(s).phase = "cleanup" /\ Held(s, NextCleanupTask(s))
<1> DEFINE i == s.task + 1
           j == s.ops + 1
           t == [s EXCEPT !.task = i, !.ops = j]
           u == [s EXCEPT !.gone = TRUE, !.timer = FALSE]
           r == Rollback(s, FALSE)
<1>1. IsUp(s) /\ (s.saving => s.error)
  BY DEF UpBase, UpCore, UpMarks
<1>2. NextCleanupTask(s) \in {r, t, u}
  BY DEF NextCleanupTask
<1> HIDE DEF i, j
<1>3. UpKept(s, t, {"task", "ops", "gone", "timer"})
  BY <1>1 DEF UpKept, IsUp, UpFields
<1>4. UpKept(s, u, {"task", "ops", "gone", "timer"})
  BY <1>1 DEF UpKept, IsUp, UpFields
<1> HIDE DEF t, u
<1>5. ASSUME NEW v, UpKept(s, v, {"task", "ops", "gone", "timer"})
      PROVE  UpBase(v) /\ v.phase = "cleanup" /\ Held(s, v)
  <2>1. /\ Held(s, v) /\ v.phase = s.phase /\ v.saving = s.saving /\ v.state = s.state
        /\ v.aborted = s.aborted /\ v.replies = s.replies /\ v.error = s.error
    BY <1>5 DEF UpKept, UpFields, Held, Calm, CoreFields
  <2>2. UpBase(v)
    BY <1>1, <2>1, EndsWell
  <2> QED
    BY <2>1, <2>2
<1>6. RolledBack(s, r)
  BY <1>1, RollbackEnds
<1> HIDE DEF r
<1>7. UpBase(r) /\ Held(s, r) /\ r.phase = "cleanup"
  BY <1>6 DEF RolledBack, UpKept, UpFields
<1> QED
  BY <1>2, <1>3, <1>4, <1>5, <1>7

\* The save of an upload that is whole and has nothing under way.
LEMMA SaveStarts ==
    ASSUME NEW s, Bodies, UpBase(s), Whole(s), Early(s), ~s.writing, s.auth # "started"
    PROVE  LET t == [s EXCEPT !.phase = "save", !.saving = TRUE, !.checksShutdown = FALSE]
           IN  UpBase(t) /\ Saving(t) /\ Held(s, t)
<1> DEFINE t == [s EXCEPT !.phase = "save", !.saving = TRUE, !.checksShutdown = FALSE]
<1>1. IsUp(s)
  BY DEF UpBase, UpCore
<1>2. /\ UpKept(s, t, {"phase", "saving", "checksShutdown"})
      /\ t.phase = "save" /\ t.saving /\ ~t.checksShutdown
  BY <1>1 DEF UpKept, IsUp, UpFields
<1> HIDE DEF t
<1>3. /\ Held(s, t) /\ t.aborted = s.aborted /\ t.error = s.error
      /\ t.replies = s.replies /\ t.ops = s.ops /\ t.pos = s.pos /\ t.kind = s.kind
      /\ t.writing = s.writing /\ t.auth = s.auth /\ t.authFailed = s.authFailed
  BY <1>2 DEF UpKept, UpFields, Held, Calm, CoreFields
<1>4. /\ UpCore(t) /\ Whole(t) /\ (Good(t) <=> Good(s)) /\ t.writeFailed = s.writeFailed
      /\ t.saved = "no"
  BY <1>3, CoreStays DEF UpBase, Held, Calm, CoreFields, Early
<1>5. UpMarks(t)
  BY <1>2, <1>3, <1>4 DEF UpBase, UpMarks
<1>6. s.pos = Len(Wire[s.kind])
  <2>1. s.kind \in Kind /\ s.pos \in 0 .. Len(Wire[s.kind])
    BY DEF UpBase, UpCore, UpNumbers
  <2>2. Received(s) \in Nat /\ Size(s.kind) \in Nat /\ Received(s) <= Size(s.kind)
    BY <2>1, UpCounts
  <2>3. /\ s.written \in Nat /\ s.taken \in Nat /\ s.written <= s.taken /\ s.taken <= Received(s)
        /\ s.written = Size(s.kind) /\ (Received(s) = Size(s.kind) => s.pos = Len(Wire[s.kind]))
    BY DEF UpBase, UpCore, UpNumbers, Whole
  <2> QED
    BY <2>2, <2>3
<1>7. Saving(t)
  BY <1>2, <1>3, <1>6 DEF Saving, Early
<1> QED
  BY <1>3, <1>4, <1>5, <1>7 DEF UpBase, t

\* save_metadata of such an upload, or the answer to a body that is not what the
\* client has announced.
LEMMA SaveMetadataIs ==
    ASSUME NEW s, Bodies, UpBase(s), Whole(s), Early(s), ~s.writing, s.auth # "started"
    PROVE  LET t == SaveMetadata(s)
           IN  UpBase(t) /\ Held(s, t) /\ (t.phase = "cleanup" \/ Saving(t))
<1> DEFINE a == [s EXCEPT !.phase = "save", !.saving = TRUE, !.checksShutdown = FALSE]
           b == DigestIsBad(s)
<1>1. SaveMetadata(s) \in {a, Fail(b)}
  BY DEF SaveMetadata
<1>2. UpBase(a) /\ Saving(a) /\ Held(s, a)
  BY SaveStarts
<1> HIDE DEF a
<1>3. IsUp(s)
  BY DEF UpBase, UpCore
<1>4. UpKept(s, b, {"state"})
  BY <1>3 DEF DigestIsBad, UpKept, IsUp, UpFields
<1> HIDE DEF b
<1>5. /\ Held(s, b) /\ b.phase = s.phase /\ b.saving = s.saving /\ b.replies = s.replies
      /\ b.aborted = s.aborted /\ b.error = s.error /\ b.authFailed = s.authFailed
      /\ b.writeFailed = s.writeFailed /\ IsUp(b) /\ b.auth = s.auth
  BY <1>4 DEF UpKept, UpFields, Held, Calm, CoreFields
<1>6. UpCore(b) /\ (Whole(b) <=> Whole(s)) /\ (Good(b) <=> Good(s)) /\ b.saved = s.saved
  BY <1>5, CoreStays DEF UpBase, Held
<1>7. UpBase(b)
  BY <1>5, <1>6 DEF UpBase, UpMarks
<1>8. Out(b, Fail(b))
  BY <1>5, <1>7, ErringIs, FailEnds
<1>9. UpBase(Fail(b)) /\ Held(s, Fail(b)) /\ Fail(b).phase = "cleanup"
  BY <1>5, <1>8, HeldAgain DEF Out, WaitsForAuth
<1> QED
  BY <1>1, <1>2, <1>9

\* Action::next saves what is whole, or ends the upload.
LEMMA NextTaskIs ==
    ASSUME NEW s, Bodies, UpBase(s), s.phase \in {"stream", "save", "cleanup"},
           s.saving => s.error, s.phase = "save" => s.saved = "yes",
           s.phase # "cleanup" => ~Stopping(s) /\ s.auth # "started",
           s.phase = "stream" => Early(s) /\ (~Interrupted(s) => Whole(s) /\ ~s.writing)
    PROVE  /\ UpBase(NextTask(s)) /\ Held(s, NextTask(s))
           /\ NextTask(s).phase = "cleanup" \/ Saving(NextTask(s))
<1>1. CASE s.phase = "cleanup"
  BY <1>1, NextCleanupTaskIs DEF NextTask
<1>2. CASE s.phase # "cleanup" /\ Interrupted(s)
  <2>1. NextTask(s) \in {ClientReadError(s), StartCleanup(s)}
    BY <1>2 DEF NextTask, Interrupt
  <2>2. UpBase(StartCleanup(s)) /\ StartCleanup(s).phase = "cleanup" /\ Held(s, StartCleanup(s))
    BY StartCleanupEnds
  <2>3. Out(s, ClientReadError(s))
    BY ErringIs, FailEnds DEF UpBase, UpCore
  <2> QED
    BY <1>2, <2>1, <2>2, <2>3 DEF Out, WaitsForAuth
<1>3. CASE s.phase = "save" /\ ~Interrupted(s)
  <2>1. NextTask(s) = SendResponse(s)
    BY <1>3 DEF NextTask
  <2>2. Out(s, SendResponse(s))
    BY <1>3, SendResponseEnds DEF Good
  <2> QED
    BY <1>3, <2>1, <2>2 DEF Out, WaitsForAuth
<1>4. CASE s.phase = "stream" /\ ~Interrupted(s)
  <2>1. NextTask(s) = SaveMetadata(s)
    BY <1>4 DEF NextTask
  <2> QED
    BY <1>4, <2>1, SaveMetadataIs
<1> QED
  BY <1>1, <1>2, <1>3, <1>4

-----------------------------------------------------------------------------
(* Within an event of the stream, or of an upload that has ended.          *)

Mid(s) == s.phase = "cleanup" \/ (Given(s) /\ Early(s))

\* The answer may wait for the authentication server.
MayWait(s) ==
    s.phase = "cleanup" \/ ~WaitsForAuth(s) \/ s.readError # "none" \/ s.shutdown \/ s.writeFailed

\* Within an event of the stream, an answer that is sent or waits ends the event well.
LEMMA MidOut ==
    ASSUME NEW s, NEW t, Mid(s), MayWait(s), Out(s, t)
    PROVE  UpOK(t)
<1>1. UpBase(t) /\ (t.phase = "cleanup" \/ (WaitsForAuth(s) /\ UpKept(s, t, {"error", "aborted"})))
  BY DEF Out
<1>2. CASE s.phase # "cleanup" /\ WaitsForAuth(s) /\ UpKept(s, t, {"error", "aborted"})
  <2>1. Given(s) /\ Early(s) /\ (s.readError # "none" \/ s.shutdown \/ s.writeFailed) /\ ~s.authFailed
    BY <1>2 DEF Mid, MayWait, Given, WaitsForAuth
  <2>2. Early(t) /\ ~t.authFailed
    BY <1>2, <2>1 DEF UpKept, UpFields, Early
  <2>3. Given(t)
    BY <1>2, <2>1 DEF UpKept, UpFields, Given
  <2> QED
    BY <1>1, <2>2, <2>3 DEF UpOK, UpPhase, Streaming
<1>3. CASE s.phase = "cleanup" /\ UpKept(s, t, {"error", "aborted"})
  <2>1. t.phase = "cleanup"
    BY <1>3 DEF UpKept, UpFields
  <2> QED
    BY <1>1, <2>1 DEF UpOK, UpPhase
<1> QED
  BY <1>1, <1>2, <1>3 DEF UpOK, UpPhase

\* Within an event only what has failed is still being saved.
LEMMA MidSaves ==
    ASSUME NEW s, UpBase(s), Mid(s)
    PROVE  s.saving => s.error
  BY DEF UpBase, UpMarks, Mid, Early

\* Within an event, the answer to what has failed or is whole.
LEMMA MidSend ==
    ASSUME NEW s, UpBase(s), Mid(s), MayWait(s), s.error \/ Good(s)
    PROVE  UpOK(SendResponse(s)) /\ Held(s, SendResponse(s))
<1>1. Out(s, SendResponse(s))
  BY MidSaves, SendResponseEnds
<1> QED
  BY <1>1, MidOut DEF Out

\* Within an event, the answer to an error.
LEMMA MidFail ==
    ASSUME NEW s, IsUp(s), UpBase(Erring(s)), Mid(s), MayWait(s)
    PROVE  /\ UpOK(Fail(s)) /\ Held(s, Fail(s))
           /\ UpOK(ClientReadError(s)) /\ Held(s, ClientReadError(s))
<1>1. Out(s, Fail(s)) /\ Out(s, ClientReadError(s))
  BY FailEnds
<1> QED
  BY <1>1, MidOut DEF Out

\* Within an event, the answer to a shutdown.
LEMMA MidRollback ==
    ASSUME NEW s, NEW c, UpBase(s), Mid(s), s.shutdown
    PROVE  UpOK(Rollback(s, c)) /\ Held(s, Rollback(s, c))
<1> DEFINE t == Rollback(s, c)
           C == {"timer", "ignore", "paused", "scheduled", "error", "aborted"}
<1>1. RolledBack(s, t)
  BY MidSaves, RollbackEnds
<1> HIDE DEF t
<1>2. UpBase(t) /\ Held(s, t)
  BY <1>1 DEF RolledBack
<1>3. CASE s.phase = "cleanup"
  <2>1. t.phase = "cleanup"
    BY <1>1, <1>3 DEF RolledBack, UpKept, UpFields
  <2> QED
    BY <1>2, <2>1 DEF UpOK, UpPhase, t
<1>4. CASE s.phase # "cleanup" /\ UpKept(s, t, C) /\ t.ignore /\ (s.paused => t.paused)
  <2>1. Given(s) /\ Early(s)
    BY <1>4 DEF Mid
  <2>2. Early(t)
    BY <1>4, <2>1 DEF UpKept, UpFields, Early
  <2>3. Given(t)
    BY <1>4, <2>1 DEF UpKept, UpFields, Given
  <2> QED
    BY <1>2, <1>4, <2>2, <2>3 DEF UpOK, UpPhase, Streaming, t
<1> QED
  BY <1>1, <1>2, <1>3, <1>4 DEF RolledBack, UpOK, UpPhase, t

\* Reading that is paused or resumed changes nothing else.
LEMMA PauseStays ==
    ASSUME NEW s, NEW t, UpOK(s),
           s.phase = "stream" => ~s.writeFailed \/ t.paused \/ t.paused = s.paused,
           UpKept(s, t, {"timer", "paused"})
    PROVE  UpOK(t)
<1>1. /\ Calm(s, t) /\ t.phase = s.phase /\ t.saving = s.saving /\ t.state = s.state
      /\ t.aborted = s.aborted /\ t.replies = s.replies /\ t.error = s.error /\ t.authFailed = s.authFailed
      /\ t.writeFailed = s.writeFailed
  BY DEF UpKept, UpFields, Calm, CoreFields
<1>2. UpCore(t) /\ (Whole(t) <=> Whole(s)) /\ (Good(t) <=> Good(s)) /\ t.saved = s.saved
  BY <1>1, CoreStays DEF UpOK, UpBase
<1>3. UpBase(t)
  BY <1>1, <1>2 DEF UpOK, UpBase, UpMarks
<1>4. ASSUME Setup(s) PROVE Setup(t)
  BY <1>4 DEF UpKept, UpFields, Setup
<1>5. ASSUME Streaming(s) PROVE Streaming(t)
  BY <1>5 DEF UpKept, UpFields, Streaming, Given
<1>6. Early(s) => Early(t)
  BY DEF UpKept, UpFields, Early
<1>7. Saving(s) => Saving(t)
  BY DEF UpKept, UpFields, Saving
<1> QED
  BY <1>1, <1>3, <1>4, <1>5, <1>6, <1>7 DEF UpOK, UpPhase

-----------------------------------------------------------------------------
(* Writes and signatures.                                                  *)

\* send_chunk_details_if_any asks about signatures that were parsed, and no others.
LEMMA SendChunksIs ==
    ASSUME NEW s, Bodies, UpBase(s), IsChunked(s.kind)
    PROVE  LET t == SendChunkDetailsIfAny(s)
           IN  UpBase(t) /\ UpKept(s, t, {"sent", "authInProgress", "auth", "asked"})
<1> DEFINE C == {"sent", "authInProgress", "auth", "asked"}
           n == Parsed(s)
           m == s.asked + 1
           t == [s EXCEPT !.sent = n, !.authInProgress = TRUE]
           u == [t EXCEPT !.auth = "started", !.asked = m]
<1>1. IsUp(s) /\ s.kind \in Kind /\ s.pos \in 0 .. Len(Wire[s.kind]) /\ UpNumbers(s)
  BY DEF UpBase, UpCore, UpNumbers
<1>2. n \in Nat
  BY <1>1, UpCounts
<1>3. s.sent <= n /\ s.sent \in Nat /\ s.asked \in Nat /\ s.asked <= s.sent /\ n = Parsed(s)
  BY <1>1 DEF UpNumbers
<1> HIDE DEF n
<1>4. UpKept(s, t, C) /\ t.sent = n /\ t.auth = s.auth /\ t.asked = s.asked
  BY <1>1 DEF UpKept, IsUp, UpFields
<1>5. SendChunkDetailsIfAny(s) = IF n = s.sent THEN s ELSE IF s.auth = "started" THEN t ELSE u
  BY <1>3, <1>4 DEF SendChunkDetailsIfAny, TriggerRequest
<1> HIDE DEF t, m
<1>6. UpKept(s, u, C) /\ u.sent = n /\ u.auth = "started" /\ u.asked = m
  BY <1>4 DEF UpKept, IsUp, UpFields
<1> HIDE DEF u
<1>7. ASSUME NEW v, UpKept(s, v, C), v.sent \in Nat, v.asked \in Nat, v.asked <= v.sent,
             v.sent <= n, v.asked - Due(v) = s.asked - Due(s)
      PROVE  UpBase(v)
  <2>1. /\ v.kind = s.kind /\ v.pos = s.pos /\ v.taken = s.taken /\ v.written = s.written
        /\ v.writing = s.writing /\ v.inProgress = s.inProgress /\ v.frozen = s.frozen
        /\ v.readError = s.readError /\ v.checked = s.checked /\ v.authFailed = s.authFailed
        /\ v.phase = s.phase /\ v.saving = s.saving /\ v.asserts = s.asserts /\ IsUp(v)
        /\ v.saved = s.saved /\ v.aborted = s.aborted /\ v.replies = s.replies /\ v.error = s.error /\ v.writeFailed = s.writeFailed
    BY <1>7 DEF UpKept, UpFields
  <2>2. Received(v) = Received(s) /\ Parsed(v) = n /\ Due(v) \in {0, 1} /\ Due(s) \in {0, 1}
    BY <1>3, <2>1 DEF Received, Parsed, Due
  <2>3. UpNumbers(v)
    BY <1>1, <1>2, <1>3, <1>7, <2>1, <2>2 DEF UpNumbers
  <2>4. UpCore(v) /\ (Whole(v) <=> Whole(s)) /\ (Good(v) <=> Good(s)) /\ v.saved = s.saved
    BY <2>1, <2>3 DEF UpBase, UpCore, Whole, Good, Misled, WritesNothing, MayHappen
  <2> QED
    BY <2>1, <2>4 DEF UpBase, UpMarks
<1>8. UpBase(t)
  BY <1>2, <1>3, <1>4, <1>7 DEF Due
<1>9. n # s.sent /\ s.auth # "started" => UpBase(u)
  BY <1>2, <1>3, <1>6, <1>7 DEF Due, m
<1>10. UpKept(s, s, C)
  BY <1>1 DEF UpKept
<1> QED
  BY <1>4, <1>5, <1>6, <1>8, <1>9, <1>10

\* A block goes to Motr.
WriteFields == {"sent", "authInProgress", "auth", "asked", "taken", "writing", "inProgress"}

\* write_object takes at most one payload of what is buffered.
LEMMA WriteObjectIs ==
    ASSUME NEW s, Bodies, UpBase(s)
    PROVE  LET t == WriteObject(s)
           IN  /\ UpBase(t) /\ UpKept(s, t, WriteFields) /\ t.writing
               /\ t.taken = s.taken + Smaller(Buffered(s), Payload)
<1> DEFINE c == IF IsChunked(s.kind) THEN SendChunkDetailsIfAny(s) ELSE s
           n == c.taken + Smaller(Buffered(c), Payload)
           t == [c EXCEPT !.taken = n, !.writing = TRUE, !.inProgress = TRUE]
<1>1. WriteObject(s) = t
  BY DEF WriteObject
<1>2. UpBase(c) /\ UpKept(s, c, {"sent", "authInProgress", "auth", "asked"})
  BY SendChunksIs DEF UpBase, UpCore, UpKept
<1> HIDE DEF c
<1>3. c.taken = s.taken /\ Buffered(c) = Buffered(s)
  BY <1>2 DEF UpKept, UpFields, Buffered, Received
<1>4. /\ c.kind \in Kind /\ c.pos \in 0 .. Len(Wire[c.kind]) /\ UpNumbers(c)
      /\ IsUp(c) /\ UpMarks(c) /\ UpCore(c)
  BY <1>2 DEF UpBase, UpCore, UpNumbers
<1>5. Received(c) \in Nat
  BY <1>4, UpCounts
<1>6. n \in Nat /\ c.taken <= n /\ n <= Received(c)
  BY <1>4, <1>5, PayloadAssumption DEF UpNumbers, Smaller, Buffered
<1>7. n = s.taken + Smaller(Buffered(s), Payload)
  BY <1>3
<1> HIDE DEF n
<1>8. UpKept(c, t, {"taken", "writing", "inProgress"}) /\ t.taken = n /\ t.writing /\ t.inProgress
  BY <1>4 DEF UpKept, IsUp, UpFields
<1> HIDE DEF t
<1>9. /\ t.kind = c.kind /\ t.pos = c.pos /\ t.sent = c.sent /\ t.written = c.written
      /\ t.asked = c.asked /\ t.auth = c.auth /\ t.frozen = c.frozen
      /\ t.readError = c.readError /\ t.checked = c.checked /\ t.authFailed = c.authFailed
      /\ t.phase = c.phase /\ t.saving = c.saving /\ t.asserts = c.asserts /\ IsUp(t)
      /\ t.saved = c.saved /\ t.aborted = c.aborted /\ t.replies = c.replies /\ t.error = c.error /\ t.writeFailed = c.writeFailed
  BY <1>8 DEF UpKept, UpFields
<1>10. Received(t) = Received(c) /\ Parsed(t) = Parsed(c) /\ Due(t) = Due(c)
  BY <1>9 DEF Received, Parsed, Due
<1>11. UpNumbers(t)
  BY <1>4, <1>6, <1>8, <1>9, <1>10 DEF UpNumbers
<1>12. UpCore(t) /\ (Whole(t) <=> Whole(c)) /\ (Good(t) <=> Good(c)) /\ t.saved = c.saved
  BY <1>4, <1>8, <1>9, <1>11 DEF UpCore, Whole, Good, Misled, WritesNothing, MayHappen
<1>13. UpBase(t)
  BY <1>4, <1>9, <1>12 DEF UpBase, UpMarks
<1>14. UpKept(s, t, WriteFields)
  BY <1>2, <1>8 DEF UpKept, WriteFields
<1> QED
  BY <1>1, <1>7, <1>8, <1>13, <1>14

\* An upload that has not failed and is not all written goes on.
Going(s) ==
    s.phase = "cleanup" \/
      (Given(s) /\ Early(s) /\ ~s.authFailed /\ ~s.writeFailed /\ (s.writeCompleted => s.readError # "none"))

\* An upload that goes on may write.
LEMMA GoingWrites ==
    ASSUME NEW s, Bodies, UpBase(s), Going(s)
    PROVE  LET t == WriteObject(s)
           IN  UpOK(t) /\ (t.phase = "stream" => ~t.writeFailed)
<1> DEFINE t == WriteObject(s)
<1>1. UpBase(t) /\ UpKept(s, t, WriteFields) /\ t.writing
  BY WriteObjectIs
<1> HIDE DEF t
<1>2. CASE s.phase = "cleanup"
  <2>1. t.phase = "cleanup"
    BY <1>1, <1>2 DEF UpKept, UpFields, WriteFields
  <2> QED
    BY <1>1, <2>1 DEF UpOK, UpPhase, t
<1>3. CASE s.phase # "cleanup"
  <2>1. /\ Given(s) /\ Early(s) /\ ~s.authFailed /\ ~s.writeFailed
        /\ s.writeCompleted => s.readError # "none"
    BY <1>3 DEF Going
  <2>2. Early(t) /\ ~t.writeFailed /\ ~t.authFailed
    BY <1>1, <2>1 DEF UpKept, UpFields, WriteFields, Early
  <2>3. Given(t)
    BY <1>1, <2>1 DEF UpKept, UpFields, WriteFields, Given
  <2> QED
    BY <1>1, <2>2, <2>3 DEF UpOK, UpPhase, Streaming, t
<1> QED
  BY <1>2, <1>3

-----------------------------------------------------------------------------
(* What is buffered.                                                       *)

\* The read ahead is one payload or more, and one read is no more than a payload.
LEMMA LimitIs == Limit \in Nat /\ Payload <= Limit /\ MaxRead \in Nat \ {0} /\ MaxRead <= Payload
<1>1. Payload \in Nat /\ ReadAhead \in Nat /\ ReadAhead >= 1 /\ Payload >= 1
  BY PayloadAssumption, ReadAheadAssumption
<1>2. Payload * ReadAhead \in Nat /\ Payload * ReadAhead >= Payload
  BY <1>1
<1> QED
  BY <1>1, <1>2, MaxReadAssumption DEF Limit

\* What is buffered is a number: no more is taken than was received.
LEMMA BufferedIs ==
    ASSUME NEW s, Bodies, UpBase(s)
    PROVE  Buffered(s) \in Nat
<1>1. s.kind \in Kind /\ s.pos \in 0 .. Len(Wire[s.kind]) /\ UpNumbers(s)
  BY DEF UpBase, UpCore, UpNumbers
<1>2. Received(s) \in Nat
  BY <1>1, UpCounts
<1> QED
  BY <1>1, <1>2 DEF UpNumbers, Buffered

\* An input that is as it was or stopped since stays bounded.
LEMMA StillBounded ==
    ASSUME NEW s, NEW t, Still(s, t), UpBounded(s)
    PROVE  UpBounded(t)
<1>1. Received(t) = Received(s) /\ Buffered(t) = Buffered(s)
  BY DEF Still, Received, Buffered
<1>2. Reading(t) => Reading(s)
  BY DEF Still, Reading
<1> QED
  BY <1>1, <1>2 DEF Still, UpBounded

\* After a write there is room below the read ahead.
LEMMA WriteMakesRoom ==
    ASSUME NEW s, NEW u, Bodies, UpBase(s), UpBounded(s), ~s.listener => s.frozen,
           UpKept(WriteObject(s), u, {"timer", "paused"})
    PROVE  UpBounded(u)
<1> DEFINE w == WriteObject(s)
<1>1. UpBase(w) /\ UpKept(s, w, WriteFields) /\ w.taken = s.taken + Smaller(Buffered(s), Payload)
  BY WriteObjectIs
<1> HIDE DEF w
<1>2. UpKept(w, u, {"timer", "paused"})
  BY DEF w
<1>3. /\ u.kind = s.kind /\ u.pos = s.pos /\ u.taken = w.taken /\ u.frozen = s.frozen
      /\ u.listener = s.listener
  BY <1>1, <1>2 DEF UpKept, UpFields, WriteFields
<1>4. Received(u) = Received(s) /\ s.taken \in Nat /\ Buffered(s) \in Nat /\ Received(s) \in Nat
  <2>1. s.kind \in Kind /\ s.pos \in 0 .. Len(Wire[s.kind]) /\ s.taken \in Nat
    BY DEF UpBase, UpCore, UpNumbers
  <2> QED
    BY <1>3, <2>1, UpCounts, BufferedIs DEF Received
<1>5. Buffered(u) = Buffered(s) - Smaller(Buffered(s), Payload)
  BY <1>1, <1>3, <1>4, LimitIs, PayloadAssumption DEF Buffered, Smaller
<1>6. Buffered(s) < Limit + MaxRead
  BY DEF UpBounded
<1>7. Buffered(u) < Limit /\ Buffered(u) <= Buffered(s) /\ Buffered(u) \in Nat
  BY <1>4, <1>5, <1>6, LimitIs, PayloadAssumption DEF Smaller
<1>8. Buffered(u) < Limit + MaxRead
  BY <1>7, LimitIs
<1>9. ~s.listener => Buffered(u) <= MaxRead
  BY <1>4, <1>7, LimitIs DEF UpBounded
<1> QED
  BY <1>3, <1>4, <1>7, <1>8, <1>9 DEF UpBounded

-----------------------------------------------------------------------------
(* A Motr write ends.                                                      *)

\* Just after the end of a write, before the action acts on it.
WriteOver(s) ==
    /\ Mid(s) /\ ~s.writing
    /\ s.phase = "stream" => ~s.writeFailed /\ (s.writeCompleted => s.readError # "none")

\* The end of a write: what was taken is written.
LEMMA WriteIsOver ==
    ASSUME NEW s, Bodies, UpOK(s), s.writing
    PROVE  LET t == [s EXCEPT !.writing = FALSE, !.inProgress = FALSE, !.written = s.taken]
           IN  UpBase(t) /\ WriteOver(t) /\ t.written = t.taken
                 /\ UpKept(s, t, {"writing", "inProgress", "written"})
<1> DEFINE n == s.taken
           t == [s EXCEPT !.writing = FALSE, !.inProgress = FALSE, !.written = n]
<1>1. /\ IsUp(s) /\ s.kind \in Kind /\ s.pos \in 0 .. Len(Wire[s.kind]) /\ UpNumbers(s)
      /\ UpMarks(s) /\ UpCore(s) /\ n = s.taken
  BY DEF UpOK, UpBase, UpCore, UpNumbers
<1> HIDE DEF n
<1>2. /\ UpKept(s, t, {"writing", "inProgress", "written"}) /\ ~t.writing /\ ~t.inProgress
      /\ t.written = n
  BY <1>1 DEF UpKept, IsUp, UpFields
<1> HIDE DEF t
<1>3. /\ t.kind = s.kind /\ t.pos = s.pos /\ t.sent = s.sent /\ t.taken = s.taken
      /\ t.asked = s.asked /\ t.auth = s.auth /\ t.frozen = s.frozen
      /\ t.readError = s.readError /\ t.checked = s.checked /\ t.authFailed = s.authFailed
      /\ t.phase = s.phase /\ t.saving = s.saving /\ t.replies = s.replies /\ IsUp(t)
      /\ t.aborted = s.aborted /\ t.error = s.error /\ t.writeFailed = s.writeFailed
      /\ t.writeCompleted = s.writeCompleted /\ t.saved = s.saved /\ t.asserts = s.asserts
  BY <1>2 DEF UpKept, UpFields
<1>4. Received(t) = Received(s) /\ Parsed(t) = Parsed(s) /\ Due(t) = Due(s)
  BY <1>3 DEF Received, Parsed, Due
<1>5. Received(s) \in Nat /\ Size(s.kind) \in Nat /\ Received(s) <= Size(s.kind)
  BY <1>1, UpCounts
<1>6. UpNumbers(t)
  BY <1>1, <1>2, <1>3, <1>4, <1>5 DEF UpNumbers
<1>7. Whole(s) => Whole(t)
  <2>1. s.written = Size(s.kind) => n = Size(s.kind)
    BY <1>1, <1>5 DEF UpNumbers
  <2> QED
    BY <1>2, <1>3, <2>1 DEF Whole
<1>8. UpBase(t)
  <2>1. Good(t) <=> Good(s)
    BY <1>3 DEF Good, Misled, WritesNothing, MayHappen
  <2> QED
    BY <1>1, <1>2, <1>3, <1>6, <1>7, <2>1 DEF UpBase, UpCore, UpMarks
<1>9. WriteOver(t)
  <2>1. Mid(s) /\ (s.phase = "stream" => ~s.writeFailed /\ (s.writeCompleted => s.readError # "none"))
    BY DEF UpOK, UpPhase, Setup, Saving, Streaming, Given, Mid
  <2>2. Early(s) => Early(t)
    BY <1>2 DEF UpKept, UpFields, Early
  <2>3. ASSUME Given(s) PROVE Given(t)
    BY <1>2, <2>1, <2>3 DEF UpKept, UpFields, Given
  <2> QED
    BY <1>2, <1>3, <2>1, <2>2, <2>3 DEF WriteOver, Mid
<1> QED
  BY <1>1, <1>2, <1>3, <1>8, <1>9 DEF t, n

\* All is written when nothing is left of an input that is complete.
LEMMA AllIsWritten ==
    ASSUME NEW s, Bodies, UpBase(s), s.written = s.taken, s.frozen, s.readError = "none", ~CanWrite(s)
    PROVE  s.written = Size(s.kind)
<1>1. s.kind \in Kind /\ s.pos \in 0 .. Len(Wire[s.kind]) /\ UpNumbers(s)
  BY DEF UpBase, UpCore, UpNumbers
<1>2. Received(s) \in Nat
  BY <1>1, UpCounts
<1> QED
  BY <1>1, <1>2 DEF UpNumbers, CanWrite, Buffered

\* What changes the state of the action only.
LEMMA StateIsFree ==
    ASSUME NEW s, NEW t, UpBase(s), UpKept(s, t, {"state", "writeCompleted", "timer", "paused"})
    PROVE  UpBase(t)
<1>1. /\ Calm(s, t) /\ t.phase = s.phase /\ t.saving = s.saving
      /\ t.aborted = s.aborted /\ t.replies = s.replies /\ t.error = s.error /\ t.authFailed = s.authFailed
      /\ t.writeFailed = s.writeFailed
  BY DEF UpKept, UpFields, Calm, CoreFields
<1>2. UpCore(t) /\ (Whole(t) <=> Whole(s)) /\ (Good(t) <=> Good(s)) /\ t.saved = s.saved
  BY <1>1, CoreStays DEF UpBase
<1> QED
  BY <1>1, <1>2 DEF UpBase, UpMarks

\* The checks that come before have found nothing.
Clear(s) == WriteOver(s) /\ ~s.shutdown /\ s.readError = "none" /\ ~s.authFailed

\* An upload whose write ended without any error goes on.
LEMMA ClearGoes ==
    ASSUME NEW s, UpBase(s), Clear(s)
    PROVE  Going(s) /\ UpOK(s) /\ (s.phase = "stream" => ~s.writeFailed)
  BY DEF Clear, WriteOver, Mid, Going, UpOK, UpPhase, Streaming, Given

\* All is written: the metadata is saved, or the signatures are waited for.
LEMMA WrittenAllIs ==
    ASSUME NEW s, NEW t, Bodies, UpBase(s), Clear(s), s.written = Size(s.kind), s.kind # "object",
           UpKept(s, t, {"state", "writeCompleted"}), t.writeCompleted,
           t.state = s.state \/ t.state = "writeComplete"
    PROVE  UpOK(WrittenAll(t)) /\ Still(s, WrittenAll(t))
<1>1. UpBase(t)
  <2>1. UpKept(s, t, {"state", "writeCompleted", "timer", "paused"})
    BY DEF UpKept
  <2> QED
    BY <2>1, StateIsFree
<1>2. /\ t.kind = s.kind /\ t.written = s.written /\ t.phase = s.phase /\ t.readError = s.readError
      /\ t.writing = s.writing /\ t.shutdown = s.shutdown /\ t.authFailed = s.authFailed
      /\ t.writeFailed = s.writeFailed /\ (Early(s) => Early(t))
  BY DEF UpKept, UpFields, Early
<1>3. Mid(t)
  <2>1. ASSUME Given(s) PROVE Given(t)
    BY <2>1 DEF UpKept, UpFields, Given, Clear, WriteOver
  <2> QED
    BY <1>2, <2>1 DEF Clear, WriteOver, Mid
<1>4. /\ t.kind \in Kind /\ t.pos \in 0 .. Len(Wire[t.kind]) /\ UpNumbers(t)
      /\ ~IsChunked(t.kind) => t.auth = "init"
  BY <1>1 DEF UpBase, UpCore, UpNumbers
<1>5. Chunks(t.kind) \in Nat /\ Parsed(t) \in Nat /\ Parsed(t) <= Chunks(t.kind)
  BY <1>4, UpCounts
<1>6. Still(s, t)
  BY DEF UpKept, UpFields, Still
<1>7. CASE t.kind = "part" \/ t.authCompleted
  <2>1. t.phase = "stream" => t.auth # "started" /\ Whole(t)
    <3>1. CASE ~IsChunked(t.kind)
      BY <1>2, <1>4, <3>1 DEF Whole
    <3>2. CASE IsChunked(t.kind) /\ t.phase = "stream"
      <4>1. t.checked = Chunks(t.kind)
        BY <1>2, <1>3, <1>7, <3>2 DEF Mid, Given, Clear, WriteOver, IsChunked
      <4>2. t.auth # "started"
        BY <1>4, <1>5, <4>1 DEF UpNumbers, Due
      <4> QED
        BY <1>2, <4>1, <4>2 DEF Whole
    <3> QED
      BY <3>1, <3>2
  <2>2. ~Stopping(t)
    BY <1>2 DEF Stopping, Clear
  <2>3. t.phase \in {"stream", "cleanup"} /\ (t.phase = "stream" => Early(t) /\ ~t.writing)
    BY <1>2, <1>3 DEF Mid, Given, Clear, WriteOver
  <2>4. /\ UpBase(NextTask(t)) /\ (NextTask(t).phase = "cleanup" \/ Saving(NextTask(t)))
        /\ Held(t, NextTask(t))
    BY <1>1, <1>3, <2>1, <2>2, <2>3, MidSaves, NextTaskIs
  <2>5. Still(s, NextTask(t))
    BY <1>6, <2>4, HeldIsStill, StillAgain
  <2> QED
    BY <1>7, <2>4, <2>5 DEF WrittenAll, UpOK, UpPhase
<1>8. CASE ~(t.kind = "part" \/ t.authCompleted)
  <2> DEFINE u == SendChunkDetailsIfAny(t)
  <2>1. IsChunked(t.kind)
    BY <1>2, <1>4, <1>8 DEF Bodies, IsChunked
  <2>2. UpBase(u) /\ UpKept(t, u, {"sent", "authInProgress", "auth", "asked"})
    BY <1>1, <2>1, SendChunksIs
  <2>3. WrittenAll(t) = u
    BY <1>8 DEF WrittenAll
  <2> HIDE DEF u
  <2>4. u.phase = t.phase /\ ~u.authFailed /\ (Early(t) => Early(u))
    BY <1>2, <2>2 DEF UpKept, UpFields, Early, Clear
  <2>5. ASSUME Given(t) PROVE Given(u)
    BY <1>2, <2>2, <2>5 DEF UpKept, UpFields, Given, Clear
  <2>6. Still(t, u)
    BY <2>2 DEF UpKept, UpFields, Still
  <2>7. Still(s, u)
    BY <1>6, <2>6, StillAgain
  <2> QED
    BY <1>3, <2>2, <2>3, <2>4, <2>5, <2>7 DEF Mid, UpOK, UpPhase, Streaming
<1> QED
  BY <1>7, <1>8

\* After a write of a simple object: the next write, the next task or more to read.
LEMMA WrittenObjectIs ==
    ASSUME NEW s, NEW low, Bodies, UpBase(s), Clear(s), s.written = s.taken, s.kind = "object"
    PROVE  /\ UpOK(WrittenObject(s, low))
           /\ UpBounded(s) /\ (~s.listener => s.frozen) => UpBounded(WrittenObject(s, low))
<1> DEFINE w == WriteObject(s)
           a == [s EXCEPT !.state = "writeComplete"]
           b == [s EXCEPT !.state = "writeFailed"]
<1>1. IsUp(s) /\ s.auth = "init" /\ UpOK(s)
  BY ClearGoes DEF UpBase, UpCore, IsChunked
<1>2. WrittenObject(s, low) =
        IF CanWrite(s) THEN IF low THEN Pause(w) ELSE IF ~w.frozen THEN Resume(w, TRUE) ELSE w
        ELSE IF s.frozen THEN NextTask(a) ELSE IF low THEN Fail(b) ELSE s
  BY DEF WrittenObject
<1>3. UpOK(w) /\ (w.phase = "stream" => ~w.writeFailed)
  BY ClearGoes, GoingWrites
<1>4. ASSUME NEW u, UpKept(w, u, {"timer", "paused"}), UpBounded(s), ~s.listener => s.frozen
      PROVE  UpBounded(u)
  BY <1>4, WriteMakesRoom
<1> HIDE DEF w
<1>5. /\ UpOK(Pause(w)) /\ UpOK(Resume(w, TRUE))
      /\ UpBounded(s) /\ (~s.listener => s.frozen) =>
            UpBounded(w) /\ UpBounded(Pause(w)) /\ UpBounded(Resume(w, TRUE))
  <2>1. IsUp(w)
    BY <1>3 DEF UpOK, UpBase, UpCore
  <2>2. /\ UpKept(w, w, {"timer", "paused"}) /\ UpKept(w, Pause(w), {"timer", "paused"})
        /\ UpKept(w, Resume(w, TRUE), {"timer", "paused"})
    BY <2>1, PauseIs, ResumeIs DEF UpKept
  <2>3. UpOK(Pause(w)) /\ UpOK(Resume(w, TRUE))
    BY <1>3, <2>2, PauseStays
  <2> QED
    BY <1>4, <2>2, <2>3
<1>6. UpKept(s, a, {"state", "writeCompleted", "timer", "paused"}) /\ a.state = "writeComplete"
  BY <1>1 DEF UpKept, IsUp, UpFields
<1>7. UpKept(s, b, {"state", "writeCompleted", "timer", "paused"}) /\ b.state = "writeFailed"
  BY <1>1 DEF UpKept, IsUp, UpFields
<1>8. a.writeCompleted = s.writeCompleted /\ b.writeCompleted = s.writeCompleted
      /\ a.paused = s.paused /\ b.paused = s.paused
  BY <1>1 DEF IsUp, UpFields
<1> HIDE DEF a, b
<1>9. ASSUME NEW u, UpKept(s, u, {"state", "writeCompleted", "timer", "paused"}),
             u.state \notin {"metadataSaved", "completed"}, u.writeCompleted = s.writeCompleted,
             u.paused = s.paused
      PROVE  /\ UpBase(u) /\ Mid(u) /\ u.auth = "init" /\ ~Stopping(u) /\ u.phase = s.phase
             /\ u.writing = s.writing /\ u.kind = s.kind /\ u.written = s.written /\ IsUp(u)
             /\ Still(s, u)
  <2>1. UpBase(u)
    BY <1>9, StateIsFree
  <2>2. (Early(s) => Early(u)) /\ u.phase = s.phase
    BY <1>9 DEF UpKept, UpFields, Early
  <2>3. ASSUME Given(s) PROVE Given(u)
    BY <1>9, <2>3 DEF UpKept, UpFields, Given
  <2>4. Mid(u)
    BY <2>2, <2>3 DEF Clear, WriteOver, Mid
  <2> QED
    BY <1>1, <1>9, <2>1, <2>4 DEF UpKept, UpFields, Stopping, Clear, Still
<1>10. ASSUME ~CanWrite(s), s.frozen PROVE UpOK(NextTask(a)) /\ Still(s, NextTask(a))
  <2>1. /\ UpBase(a) /\ Mid(a) /\ a.auth = "init" /\ ~Stopping(a) /\ a.phase = s.phase
        /\ a.writing = s.writing /\ a.kind = s.kind /\ a.written = s.written /\ Still(s, a)
    BY <1>6, <1>8, <1>9
  <2>2. Whole(a)
    BY <1>10, <2>1, AllIsWritten DEF Whole, Clear, IsChunked
  <2>3. a.phase \in {"stream", "cleanup"} /\ (a.phase = "stream" => Early(a) /\ ~a.writing)
    BY <2>1 DEF Mid, Given, Clear, WriteOver
  <2>4. /\ UpBase(NextTask(a)) /\ (NextTask(a).phase = "cleanup" \/ Saving(NextTask(a)))
        /\ Held(a, NextTask(a))
    BY <2>1, <2>2, <2>3, MidSaves, NextTaskIs
  <2>5. Still(s, NextTask(a))
    BY <2>1, <2>4, HeldIsStill, StillAgain
  <2> QED
    BY <2>4, <2>5 DEF UpOK, UpPhase
<1>11. UpOK(Fail(b)) /\ Still(s, Fail(b))
  <2>1. UpBase(b) /\ Mid(b) /\ b.auth = "init" /\ IsUp(b) /\ Still(s, b)
    BY <1>7, <1>8, <1>9
  <2>2. UpBase(Erring(b)) /\ MayWait(b)
    BY <2>1, ErringIs DEF MayWait, WaitsForAuth
  <2>3. UpOK(Fail(b)) /\ Held(b, Fail(b))
    BY <2>1, <2>2, MidFail
  <2> QED
    BY <2>1, <2>3, HeldIsStill, StillAgain
<1>12. ASSUME UpBounded(s) PROVE UpBounded(Fail(b)) /\ (~CanWrite(s) /\ s.frozen => UpBounded(NextTask(a)))
  BY <1>10, <1>11, <1>12, StillBounded
<1> QED
  BY <1>1, <1>2, <1>3, <1>5, <1>10, <1>11, <1>12

\* After a write of a part or of a chunked object, likewise.
LEMMA WrittenPartIs ==
    ASSUME NEW s, Bodies, UpBase(s), Clear(s), s.written = s.taken, s.kind # "object"
    PROVE  /\ UpOK(WrittenPart(s)) /\ UpOK(WrittenChunked(s))
           /\ UpBounded(s) /\ (~s.listener => s.frozen) =>
                 UpBounded(WrittenPart(s)) /\ UpBounded(WrittenChunked(s))
<1> DEFINE w == WriteObject(s)
           a == [s EXCEPT !.writeCompleted = TRUE, !.state = "writeComplete"]
           b == [s EXCEPT !.writeCompleted = TRUE]
<1>1. IsUp(s) /\ UpOK(s) /\ (s.phase = "stream" => ~s.writeFailed)
  BY ClearGoes DEF UpBase, UpCore
<1>2. /\ WrittenPart(s) = IF CanWrite(s) THEN w ELSE IF s.frozen THEN WrittenAll(a)
                          ELSE Resume(s, TRUE)
      /\ WrittenChunked(s) = IF CanWrite(s) THEN IF ~w.frozen THEN Resume(w, TRUE) ELSE w
                             ELSE IF s.frozen THEN WrittenAll(b) ELSE Resume(s, TRUE)
  BY DEF WrittenPart, WrittenChunked
<1>3. UpOK(w) /\ (w.phase = "stream" => ~w.writeFailed)
  BY ClearGoes, GoingWrites
<1>4. ASSUME NEW u, UpKept(w, u, {"timer", "paused"}), UpBounded(s), ~s.listener => s.frozen
      PROVE  UpBounded(u)
  BY <1>4, WriteMakesRoom
<1> HIDE DEF w
<1>5. /\ UpOK(Resume(s, TRUE)) /\ UpOK(Resume(w, TRUE))
      /\ UpBounded(s) /\ (~s.listener => s.frozen) => UpBounded(w) /\ UpBounded(Resume(w, TRUE))
  <2>1. IsUp(w)
    BY <1>3 DEF UpOK, UpBase, UpCore
  <2>2. UpKept(w, w, {"timer", "paused"}) /\ UpKept(w, Resume(w, TRUE), {"timer", "paused"})
    BY <2>1, ResumeIs DEF UpKept
  <2>3. UpOK(Resume(s, TRUE)) /\ UpOK(Resume(w, TRUE))
    BY <1>1, <1>3, <2>1, ResumeIs, PauseStays
  <2> QED
    BY <1>4, <2>2, <2>3
\* Less than a block is left, and more is read.
<1>6. ASSUME UpBounded(s), ~s.listener => s.frozen, ~CanWrite(s), ~s.frozen
      PROVE  UpBounded(Resume(s, TRUE))
  <2> DEFINE u == Resume(s, TRUE)
  <2>1. UpKept(s, u, {"timer", "paused"})
    BY <1>1, ResumeIs
  <2> HIDE DEF u
  <2>2. u.kind = s.kind /\ u.pos = s.pos /\ u.taken = s.taken /\ u.frozen = s.frozen
        /\ u.listener = s.listener
    BY <2>1 DEF UpKept, UpFields
  <2>3. Received(u) = Received(s) /\ Buffered(u) = Buffered(s)
    BY <2>2 DEF Received, Buffered
  <2>4. Buffered(s) < Limit
    BY <1>6, BufferedIs, LimitIs, PayloadAssumption DEF CanWrite
  <2> QED
    BY <1>6, <2>2, <2>3, <2>4 DEF UpBounded, u
<1>7. UpKept(s, a, {"state", "writeCompleted"}) /\ a.state = "writeComplete" /\ a.writeCompleted
  BY <1>1 DEF UpKept, IsUp, UpFields
<1>8. UpKept(s, b, {"state", "writeCompleted"}) /\ b.state = s.state /\ b.writeCompleted
  BY <1>1 DEF UpKept, IsUp, UpFields
<1> HIDE DEF a, b
<1>9. ASSUME ~CanWrite(s), s.frozen
      PROVE  /\ UpOK(WrittenAll(a)) /\ UpOK(WrittenAll(b))
             /\ UpBounded(s) => UpBounded(WrittenAll(a)) /\ UpBounded(WrittenAll(b))
  <2>1. s.written = Size(s.kind)
    BY <1>9, AllIsWritten DEF Clear
  <2>2. /\ UpOK(WrittenAll(a)) /\ UpOK(WrittenAll(b))
        /\ Still(s, WrittenAll(a)) /\ Still(s, WrittenAll(b))
    BY <1>7, <1>8, <2>1, WrittenAllIs
  <2> QED
    BY <2>2, StillBounded
<1> QED
  BY <1>2, <1>3, <1>5, <1>9, <1>6

\* write_object_successful of the three actions, with all its checks.
LEMMA WriteSucceeds ==
    ASSUME NEW s, NEW low, Bodies, UpOK(s), s.writing
    PROVE  /\ UpOK(WriteObjectSuccessful(s, low))
           /\ UpBounded(s) => UpBounded(WriteObjectSuccessful(s, low))
<1> DEFINE t == [s EXCEPT !.writing = FALSE, !.inProgress = FALSE, !.written = s.taken]
           st == IF t.kind = "chunkedPart" THEN "writeFailed" ELSE t.state
           f == [t EXCEPT !.state = st]
<1>1. /\ UpBase(t) /\ WriteOver(t) /\ t.written = t.taken
      /\ UpKept(s, t, {"writing", "inProgress", "written"})
  BY WriteIsOver
<1>2. WriteObjectSuccessful(s, low) =
        IF t.shutdown THEN Rollback(t, FALSE)
        ELSE IF t.readError # "none" THEN ClientReadError(t)
        ELSE IF t.authFailed THEN SendResponse(f)
        ELSE CASE t.kind = "object" -> WrittenObject(t, low)
               [] t.kind = "chunked" -> WrittenChunked(t)
               [] OTHER -> WrittenPart(t)
  BY DEF WriteObjectSuccessful
<1> HIDE DEF t
<1>3. st = t.state \/ st = "writeFailed"
  OBVIOUS
<1> HIDE DEF st
<1>4. IsUp(t) /\ Mid(t) /\ UpMarks(t)
  BY <1>1 DEF UpBase, UpCore, WriteOver
<1>5. UpBounded(s) => UpBounded(t) /\ (~t.listener => t.frozen)
  <2>1. ~t.writing
    BY <1>1 DEF WriteOver
  <2>2. Still(s, t)
    BY <1>1, <2>1 DEF UpKept, UpFields, Still
  <2>3. UpBounded(s) => UpBounded(t)
    BY <2>2, StillBounded
  <2>4. UpBounded(s) /\ ~t.listener => t.frozen
    BY <2>2 DEF UpBounded, Still
  <2> QED
    BY <2>3, <2>4
<1>6. CASE t.shutdown
  <2>1. UpOK(Rollback(t, FALSE)) /\ Held(t, Rollback(t, FALSE))
    BY <1>1, <1>4, <1>6, MidRollback
  <2>2. UpBounded(t) => UpBounded(Rollback(t, FALSE))
    BY <2>1, HeldIsStill, StillBounded
  <2> QED
    BY <1>2, <1>6, <1>5, <2>1, <2>2
<1>7. CASE ~t.shutdown /\ t.readError # "none"
  <2>1. UpBase(Erring(t)) /\ MayWait(t)
    BY <1>1, <1>4, <1>7, ErringIs DEF MayWait
  <2>2. UpOK(ClientReadError(t)) /\ Held(t, ClientReadError(t))
    BY <1>4, <2>1, MidFail
  <2>3. UpBounded(t) => UpBounded(ClientReadError(t))
    BY <2>2, HeldIsStill, StillBounded
  <2> QED
    BY <1>2, <1>7, <1>5, <2>2, <2>3
<1>8. CASE ~t.shutdown /\ t.readError = "none" /\ t.authFailed
  <2>1. UpKept(t, f, {"state", "writeCompleted", "timer", "paused"}) /\ f.state = st
        /\ f.writeCompleted = t.writeCompleted /\ f.paused = t.paused
    BY <1>4 DEF UpKept, IsUp, UpFields
  <2>2. SendResponse(f) = WriteObjectSuccessful(s, low)
    BY <1>2, <1>8
  <2> HIDE DEF f
  <2>3. UpBase(f)
    BY <1>1, <1>3, <2>1, StateIsFree
  <2>4. (Early(t) => Early(f)) /\ f.phase = t.phase /\ f.authFailed
    BY <1>8, <2>1 DEF UpKept, UpFields, Early
  <2>5. ASSUME Given(t) PROVE Given(f)
    BY <2>1, <2>5 DEF UpKept, UpFields, Given
  <2>6. Mid(f) /\ MayWait(f) /\ f.error
    BY <1>4, <2>3, <2>4, <2>5 DEF Mid, MayWait, WaitsForAuth, Given, UpBase, UpMarks
  <2>7. UpOK(SendResponse(f)) /\ Held(f, SendResponse(f))
    BY <2>3, <2>6, MidSend
  <2>8. Still(t, f)
    BY <2>1 DEF UpKept, UpFields, Still
  <2>9. UpBounded(t) => UpBounded(SendResponse(f))
    BY <2>7, <2>8, HeldIsStill, StillAgain, StillBounded
  <2> QED
    BY <1>5, <2>2, <2>7, <2>9
<1>9. CASE ~t.shutdown /\ t.readError = "none" /\ ~t.authFailed
  <2>1. Clear(t)
    BY <1>1, <1>9 DEF Clear
  <2>2. /\ t.kind = "object" => UpOK(WrittenObject(t, low))
        /\ t.kind # "object" => UpOK(WrittenPart(t)) /\ UpOK(WrittenChunked(t))
        /\ UpBounded(s) =>
              /\ t.kind = "object" => UpBounded(WrittenObject(t, low))
              /\ t.kind # "object" => UpBounded(WrittenPart(t)) /\ UpBounded(WrittenChunked(t))
    BY <1>1, <1>5, <2>1, WrittenObjectIs, WrittenPartIs
  <2> QED
    BY <1>2, <1>9, <2>2
<1> QED
  BY <1>6, <1>7, <1>8, <1>9

\* What a failed write leaves, whatever the action has marked of it so far.
FailFields ==
    {"writing", "inProgress", "state", "writeCompleted", "writeFailed", "aborted", "error",
     "paused", "timer"}

\* A write that failed writes nothing, and leaves an error if it is marked.
LEMMA FailedWriteIs ==
    ASSUME NEW s, NEW u, UpOK(s), s.writing, UpKept(s, u, FailFields), ~u.writing, ~u.inProgress,
           u.state = "writeFailed", s.error => u.error,
           u.error \/ (u.aborted = s.aborted /\ u.writeFailed = s.writeFailed)
    PROVE  UpBase(u)
<1>1. /\ u.kind = s.kind /\ u.pos = s.pos /\ u.sent = s.sent /\ u.taken = s.taken
      /\ u.asked = s.asked /\ u.auth = s.auth /\ u.frozen = s.frozen /\ u.written = s.written
      /\ u.readError = s.readError /\ u.checked = s.checked /\ u.authFailed = s.authFailed
      /\ u.phase = s.phase /\ u.saving = s.saving /\ IsUp(u) /\ u.replies = s.replies
      /\ u.saved = s.saved /\ u.asserts = s.asserts
  BY DEF UpKept, UpFields, FailFields
<1>2. Received(u) = Received(s) /\ Parsed(u) = Parsed(s) /\ Due(u) = Due(s)
  BY <1>1 DEF Received, Parsed, Due
<1>3. UpNumbers(u)
  BY <1>1, <1>2 DEF UpOK, UpBase, UpCore, UpNumbers
<1>4. UpCore(u) /\ (Whole(u) <=> Whole(s)) /\ (Good(u) <=> Good(s)) /\ u.saved = s.saved
  BY <1>1, <1>3 DEF UpOK, UpBase, UpCore, Whole, Good, Misled, WritesNothing, MayHappen
<1> QED
  BY <1>1, <1>4 DEF UpOK, UpBase, UpMarks

\* A write that failed is no new write.
LEMMA FailedWriteIsStill ==
    ASSUME NEW s, NEW u, NEW v, s.writing, UpKept(s, u, FailFields), s.paused => u.paused, Held(u, v)
    PROVE  Still(s, v)
<1>1. Still(s, u)
  BY DEF UpKept, UpFields, FailFields, Still
<1> QED
  BY <1>1, HeldIsStill, StillAgain

\* A write that failed leaves the upload within an event of the stream.
LEMMA FailedWriteMid ==
    ASSUME NEW s, NEW u, UpOK(s), s.writing, UpKept(s, u, FailFields), ~u.writing,
           \/ u.readError # "none"
           \/ u.writeFailed /\ (u.paused \/ ~u.connected)
    PROVE  Mid(u)
<1>1. Mid(s)
  BY DEF UpOK, UpPhase, Setup, Saving, Streaming, Mid
<1>2. u.phase = s.phase /\ (Early(s) => Early(u))
  BY DEF UpKept, UpFields, FailFields, Early
<1>3. ASSUME Given(s) PROVE Given(u)
  BY <1>3 DEF UpKept, UpFields, FailFields, Given
<1> QED
  BY <1>1, <1>2, <1>3 DEF Mid

\* write_object_failed of a simple object and of a part.
LEMMA ObjectWriteFails ==
    ASSUME NEW s, UpOK(s), s.writing, s.kind = "object" \/ s.kind = "part"
    PROVE  /\ s.kind = "object" => UpOK(ObjectWriteFailed(s)) /\ Still(s, ObjectWriteFailed(s))
           /\ s.kind = "part" => UpOK(PartWriteFailed(s)) /\ Still(s, PartWriteFailed(s))
<1> DEFINE h == WriteHasFailed(s)
           p == [h EXCEPT !.writeCompleted = TRUE]
<1>1. IsUp(s) /\ s.auth = "init"
  BY DEF UpOK, UpBase, UpCore, IsChunked
<1>2. /\ UpKept(s, h, {"writing", "inProgress", "state"}) /\ ~h.writing /\ ~h.inProgress
      /\ h.state = "writeFailed"
  BY <1>1 DEF WriteHasFailed, UpKept, IsUp, UpFields
<1>3. /\ ObjectWriteFailed(s) \in {ClientReadError(h), Fail(h)}
      /\ s.kind = "part" => PartWriteFailed(s) \in {ClientReadError(p), Fail(p)}
  BY DEF ObjectWriteFailed, PartWriteFailed
<1> HIDE DEF h
<1>4. /\ UpKept(s, p, {"writing", "inProgress", "state", "writeCompleted"}) /\ ~p.writing
      /\ ~p.inProgress /\ p.state = "writeFailed"
  BY <1>2 DEF UpKept, IsUp, UpFields
<1> HIDE DEF p
<1>5. ASSUME NEW u, UpKept(s, u, {"writing", "inProgress", "state", "writeCompleted"}),
             ~u.writing, ~u.inProgress, u.state = "writeFailed"
      PROVE  /\ UpOK(Fail(u)) /\ UpOK(ClientReadError(u))
             /\ Still(s, Fail(u)) /\ Still(s, ClientReadError(u))
  <2>1. /\ UpKept(s, u, FailFields) /\ u.error = s.error /\ u.aborted = s.aborted
        /\ u.writeFailed = s.writeFailed /\ u.auth = "init" /\ IsUp(u) /\ u.paused = s.paused
    BY <1>1, <1>5 DEF UpKept, UpFields, FailFields
  <2>2. UpBase(u)
    BY <1>5, <2>1, FailedWriteIs
  <2>3. Out(u, Fail(u)) /\ Out(u, ClientReadError(u))
    BY <2>1, <2>2, ErringIs, FailEnds
  <2>4. Still(s, Fail(u)) /\ Still(s, ClientReadError(u))
    BY <2>1, <2>3, FailedWriteIsStill DEF Out
  <2> QED
    BY <2>1, <2>3, <2>4 DEF Out, WaitsForAuth, UpOK, UpPhase
<1>6. UpKept(s, h, {"writing", "inProgress", "state", "writeCompleted"})
  BY <1>2 DEF UpKept
<1> QED
  BY <1>2, <1>3, <1>4, <1>5, <1>6

\* write_object_failed of a part in signed chunks.
LEMMA ChunkedPartWriteFails ==
    ASSUME NEW s, UpOK(s), s.writing, s.kind = "chunkedPart"
    PROVE  UpOK(PartWriteFailed(s)) /\ Still(s, PartWriteFailed(s))
<1> DEFINE h == WriteHasFailed(s)
           t == [h EXCEPT !.writeCompleted = TRUE]
           e == [t EXCEPT !.error = TRUE]
           p == Pause(e)
           w == [p EXCEPT !.writeFailed = TRUE, !.aborted = TRUE]
<1>1. IsUp(s)
  BY DEF UpOK, UpBase, UpCore
<1>2. PartWriteFailed(s) = IF s.readError # "none" THEN ClientReadError(t)
                           ELSE IF w.authInProgress THEN w ELSE SendResponse(w)
  BY DEF PartWriteFailed
<1>3. /\ UpKept(s, h, {"writing", "inProgress", "state"}) /\ ~h.writing /\ ~h.inProgress
      /\ h.state = "writeFailed"
  BY <1>1 DEF WriteHasFailed, UpKept, IsUp, UpFields
<1> HIDE DEF h
<1>4. /\ UpKept(s, t, {"writing", "inProgress", "state", "writeCompleted"}) /\ ~t.writing
      /\ ~t.inProgress /\ t.state = "writeFailed"
  BY <1>3 DEF UpKept, IsUp, UpFields
<1> HIDE DEF t
<1>5. UpKept(t, e, {"error"}) /\ e.error
  BY <1>4 DEF UpKept, IsUp, UpFields
<1> HIDE DEF e
<1>6. /\ UpKept(e, p, {"timer", "paused"}) /\ (e.paused => p.paused)
      /\ p.paused \/ ~e.connected \/ e.readError # "none"
  BY <1>5, PauseIs DEF UpKept
<1> HIDE DEF p
<1>7. UpKept(p, w, {"writeFailed", "aborted"}) /\ w.writeFailed /\ w.aborted
  BY <1>6 DEF UpKept, IsUp, UpFields
<1> HIDE DEF w
<1>8. CASE s.readError # "none"
  <2>1. /\ UpKept(s, t, FailFields) /\ t.error = s.error /\ t.aborted = s.aborted
        /\ t.writeFailed = s.writeFailed /\ t.readError = s.readError /\ IsUp(t)
        /\ t.paused = s.paused
    BY <1>4 DEF UpKept, UpFields, FailFields
  <2>2. UpBase(t) /\ Mid(t)
    BY <1>4, <1>8, <2>1, FailedWriteIs, FailedWriteMid
  <2>3. UpBase(Erring(t)) /\ MayWait(t)
    BY <1>8, <2>1, <2>2, ErringIs DEF MayWait
  <2>4. UpOK(ClientReadError(t)) /\ Held(t, ClientReadError(t))
    BY <2>1, <2>2, <2>3, MidFail
  <2> QED
    BY <1>2, <1>8, <2>1, <2>4, FailedWriteIsStill
<1>9. CASE s.readError = "none"
  <2>1. UpKept(s, w, FailFields)
    BY <1>4, <1>5, <1>6, <1>7 DEF UpKept, FailFields
  <2>2. ~w.writing /\ ~w.inProgress /\ w.state = "writeFailed" /\ w.error
        /\ (w.paused \/ ~w.connected) /\ (s.paused => w.paused) /\ IsUp(w)
    BY <1>4, <1>5, <1>6, <1>7, <1>9 DEF UpKept, UpFields
  <2>3. UpBase(w) /\ Mid(w)
    BY <1>7, <2>1, <2>2, FailedWriteIs, FailedWriteMid
  <2>4. UpOK(w)
    BY <1>7, <2>3 DEF Mid, UpOK, UpPhase, Streaming
  <2>5. UpOK(SendResponse(w)) /\ Held(w, SendResponse(w)) /\ Held(w, w)
    BY <1>7, <2>2, <2>3, MidSend DEF MayWait, Held, Calm
  <2> QED
    BY <1>2, <1>9, <2>1, <2>2, <2>4, <2>5, FailedWriteIsStill
<1> QED
  BY <1>8, <1>9

\* write_object_failed of an object in signed chunks.
LEMMA ChunkedWriteFails ==
    ASSUME NEW s, UpOK(s), s.writing
    PROVE  UpOK(ChunkedWriteFailed(s)) /\ Still(s, ChunkedWriteFailed(s))
<1> DEFINE h == WriteHasFailed(s)
           t == [h EXCEPT !.writeFailed = TRUE]
           p == Pause(t)
           q == [p EXCEPT !.aborted = TRUE]
           e == [q EXCEPT !.error = TRUE]
           w == [q EXCEPT !.error = TRUE, !.writeCompleted = TRUE]
<1>1. IsUp(s)
  BY DEF UpOK, UpBase, UpCore
<1>2. ChunkedWriteFailed(s) = IF s.readError # "none" THEN ClientReadError(q)
                              ELSE IF s.shutdown THEN Rollback(e, FALSE)
                              ELSE IF w.authInProgress THEN w ELSE SendResponse(w)
  BY DEF ChunkedWriteFailed
<1>3. /\ UpKept(s, h, {"writing", "inProgress", "state"}) /\ ~h.writing /\ ~h.inProgress
      /\ h.state = "writeFailed"
  BY <1>1 DEF WriteHasFailed, UpKept, IsUp, UpFields
<1> HIDE DEF h
<1>4. /\ UpKept(s, t, {"writing", "inProgress", "state", "writeFailed"}) /\ ~t.writing
      /\ ~t.inProgress /\ t.state = "writeFailed" /\ t.writeFailed
  BY <1>3 DEF UpKept, IsUp, UpFields
<1> HIDE DEF t
<1>5. /\ UpKept(t, p, {"timer", "paused"}) /\ (t.paused => p.paused)
      /\ p.paused \/ ~t.connected \/ t.readError # "none"
  BY <1>4, PauseIs DEF UpKept
<1> HIDE DEF p
<1>6. UpKept(p, q, {"aborted"})
  BY <1>5 DEF UpKept, IsUp, UpFields
<1> HIDE DEF q
<1>7. UpKept(q, e, {"error"}) /\ e.error /\ e = Erring(q)
  BY <1>6 DEF UpKept, IsUp, UpFields, Erring
<1>8. UpKept(q, w, {"error", "writeCompleted"}) /\ w.error
  BY <1>6 DEF UpKept, IsUp, UpFields
<1> HIDE DEF e, w
<1>9. /\ UpKept(s, q, FailFields) /\ ~q.writing /\ ~q.inProgress /\ q.state = "writeFailed"
      /\ q.writeFailed /\ (q.paused \/ ~q.connected \/ q.readError # "none")
      /\ q.readError = s.readError /\ q.shutdown = s.shutdown /\ (s.paused => q.paused)
  <2>1. UpKept(s, q, FailFields)
    BY <1>4, <1>5, <1>6 DEF UpKept, FailFields
  <2> QED
    BY <1>4, <1>5, <1>6, <2>1 DEF UpKept, UpFields, FailFields
<1>10. /\ UpKept(s, e, FailFields) /\ ~e.writing /\ ~e.inProgress /\ e.state = "writeFailed"
       /\ e.writeFailed /\ (e.paused \/ ~e.connected \/ e.readError # "none")
       /\ e.readError = s.readError /\ e.shutdown = s.shutdown /\ (s.paused => e.paused)
  <2>1. UpKept(s, e, FailFields)
    BY <1>7, <1>9 DEF UpKept, FailFields
  <2> QED
    BY <1>7, <1>9, <2>1 DEF UpKept, UpFields, FailFields
<1>11. /\ UpKept(s, w, FailFields) /\ ~w.writing /\ ~w.inProgress /\ w.state = "writeFailed"
       /\ w.writeFailed /\ (w.paused \/ ~w.connected \/ w.readError # "none")
       /\ w.readError = s.readError /\ w.shutdown = s.shutdown /\ (s.paused => w.paused)
       /\ Held(w, w)
  <2>1. UpKept(s, w, FailFields)
    BY <1>8, <1>9 DEF UpKept, FailFields
  <2> QED
    BY <1>8, <1>9, <2>1 DEF UpKept, UpFields, FailFields, Held, Calm
<1>12. UpBase(e) /\ UpBase(w)
  BY <1>7, <1>8, <1>10, <1>11, FailedWriteIs
<1>13. Mid(q) /\ Mid(e) /\ Mid(w)
  BY <1>9, <1>10, <1>11, FailedWriteMid
<1>14. UpOK(ClientReadError(q)) /\ Held(q, ClientReadError(q))
  BY <1>7, <1>9, <1>12, <1>13, MidFail DEF MayWait, UpKept
<1>15. s.shutdown => UpOK(Rollback(e, FALSE)) /\ Held(e, Rollback(e, FALSE))
  BY <1>10, <1>12, <1>13, MidRollback
<1>16. UpOK(w)
  BY <1>11, <1>12, <1>13 DEF Mid, UpOK, UpPhase, Streaming
<1>17. UpOK(SendResponse(w)) /\ Held(w, SendResponse(w))
  BY <1>8, <1>11, <1>12, <1>13, MidSend DEF MayWait
<1>18. /\ Still(s, ClientReadError(q)) /\ (s.shutdown => Still(s, Rollback(e, FALSE)))
       /\ Still(s, w) /\ Still(s, SendResponse(w))
  BY <1>9, <1>10, <1>11, <1>14, <1>15, <1>17, FailedWriteIsStill
<1> QED
  BY <1>2, <1>14, <1>15, <1>16, <1>17, <1>18

\* write_object_failed of the three actions.
LEMMA WriteFails ==
    ASSUME NEW s, Bodies, UpOK(s), s.writing
    PROVE  UpOK(WriteObjectFailed(s)) /\ Still(s, WriteObjectFailed(s))
<1>1. s.kind \in {"object", "part", "chunked", "chunkedPart"}
  BY DEF UpOK, UpBase, UpCore, Bodies
<1>2. CASE s.kind = "object" \/ s.kind = "part"
  BY <1>2, ObjectWriteFails DEF WriteObjectFailed
<1>3. CASE s.kind = "chunkedPart"
  BY <1>3, ChunkedPartWriteFails DEF WriteObjectFailed
<1>4. CASE s.kind = "chunked"
  BY <1>4, ChunkedWriteFails DEF WriteObjectFailed
<1> QED
  BY <1>1, <1>2, <1>3, <1>4

-----------------------------------------------------------------------------
(* The authentication server answers.                                      *)

\* The server confirms a signature: the next one is asked, or the action called.
LEMMA AuthSucceeds ==
    ASSUME NEW s, Bodies, UpOK(s), s.auth = "started"
    PROVE  LET t == Confirmed(s)
               r == IF CycleEnds(t) THEN ChunkAuthSuccessful(t) ELSE NextChunk(t)
           IN  UpOK(r) /\ Still(s, r)
<1> DEFINE n == s.checked + 1
           t == Confirmed(s)
           m == t.asked + 1
           x == [t EXCEPT !.auth = "started", !.asked = m]
           u == [t EXCEPT !.authInProgress = FALSE, !.authCompleted = TRUE]
<1>1. /\ IsUp(s) /\ s.kind \in Kind /\ s.pos \in 0 .. Len(Wire[s.kind]) /\ UpNumbers(s)
      /\ UpMarks(s) /\ UpCore(s) /\ IsChunked(s.kind)
  BY DEF UpOK, UpBase, UpCore, UpNumbers
<1>2. Mid(s)
  BY DEF UpOK, UpPhase, Setup, Saving, Streaming, Mid
<1>3. Chunks(s.kind) \in Nat /\ Parsed(s) \in Nat /\ Parsed(s) <= Chunks(s.kind)
  BY <1>1, UpCounts
<1>4. /\ NextChunk(t) = IF t.sent - t.asked = 0 THEN t ELSE x
      /\ ChunkAuthSuccessful(t) = IF u.shutdown THEN Rollback(u, TRUE)
                                  ELSE IF ~u.writeCompleted THEN u
                                  ELSE IF u.writeFailed THEN SendResponse(u) ELSE NextTask(u)
      /\ CycleEnds(t) <=> t.aborted \/ (t.sent = Chunks(t.kind) /\ t.sent - t.asked = 0)
  BY DEF NextChunk, TriggerRequest, ChunkAuthSuccessful, CycleEnds, LastChunkAdded, Queued
<1>5. n = s.checked + 1 /\ Confirmed(s) = [s EXCEPT !.auth = "succeded", !.checked = n]
  BY DEF Confirmed
<1> HIDE DEF n
<1>6. UpKept(s, t, {"auth", "checked"}) /\ t.auth = "succeded" /\ t.checked = n
  BY <1>1, <1>5 DEF UpKept, IsUp, UpFields
<1> HIDE DEF t, m
<1>7. UpKept(t, x, {"auth", "asked"}) /\ x.auth = "started" /\ x.asked = m
  BY <1>6 DEF UpKept, IsUp, UpFields
<1>8. UpKept(t, u, {"authInProgress", "authCompleted"}) /\ ~u.authInProgress /\ u.authCompleted
  BY <1>6 DEF UpKept, IsUp, UpFields
<1> HIDE DEF x, u
<1>9. Still(s, t) /\ Still(s, x) /\ Still(s, u)
  <2>1. Still(s, t)
    BY <1>6 DEF UpKept, UpFields, Still
  <2>2. Still(t, x) /\ Still(t, u)
    BY <1>7, <1>8 DEF UpKept, UpFields, Still
  <2> QED
    BY <2>1, <2>2, StillAgain
\* Before the answer not all was confirmed.
<1>10. /\ s.checked \in Nat /\ s.checked + 1 <= s.asked /\ s.asked <= s.sent /\ s.sent <= Parsed(s)
      /\ s.asked \in Nat /\ s.sent \in Nat /\ (~s.authFailed => s.asked = s.checked + 1)
      /\ s.checked # Chunks(s.kind)
  BY <1>1, <1>3 DEF UpNumbers, Due
<1>11. ~Whole(s)
  BY <1>1, <1>10 DEF Whole
<1>12. ASSUME NEW v,
              UpKept(s, v, {"auth", "checked", "asked", "authInProgress", "authCompleted"}),
              v.checked = n, v.asked \in Nat, v.asked <= v.sent, v.checked + Due(v) <= v.asked,
              ~s.authFailed => v.asked = v.checked + Due(v)
       PROVE  UpBase(v)
  <2>1. /\ v.kind = s.kind /\ v.pos = s.pos /\ v.sent = s.sent /\ v.taken = s.taken
        /\ v.frozen = s.frozen /\ v.written = s.written /\ v.writeFailed = s.writeFailed
        /\ v.readError = s.readError /\ v.authFailed = s.authFailed /\ v.state = s.state
        /\ v.phase = s.phase /\ v.saving = s.saving /\ IsUp(v) /\ v.error = s.error
        /\ v.aborted = s.aborted /\ v.writing = s.writing /\ v.inProgress = s.inProgress
        /\ v.replies = s.replies /\ v.saved = s.saved /\ v.asserts = s.asserts
    BY <1>12 DEF UpKept, UpFields
  <2>2. Received(v) = Received(s) /\ Parsed(v) = Parsed(s)
    BY <2>1 DEF Received, Parsed
  <2>3. n \in Nat
    BY <1>5, <1>10
  <2>4. UpNumbers(v)
    BY <1>1, <1>12, <2>1, <2>2, <2>3 DEF UpNumbers
  <2>5. UpCore(v) /\ (Good(v) <=> Good(s))
    BY <1>1, <2>1, <2>4 DEF UpCore, Good, Misled, WritesNothing, MayHappen
  <2> QED
    BY <1>1, <1>11, <2>1, <2>5 DEF UpBase, UpMarks
<1>13. UpBase(t)
  <2>1. UpKept(s, t, {"auth", "checked", "asked", "authInProgress", "authCompleted"})
        /\ t.asked = s.asked /\ t.sent = s.sent /\ Due(t) = 0
    BY <1>6 DEF UpKept, UpFields, Due
  <2>2. /\ t.asked \in Nat /\ t.asked <= t.sent /\ t.checked + Due(t) <= t.asked
        /\ ~s.authFailed => t.asked = t.checked + Due(t)
    BY <1>5, <1>6, <1>10, <2>1
  <2> QED
    BY <1>6, <1>12, <2>1, <2>2
<1>14. UpBase(u)
  <2>1. UpKept(s, u, {"auth", "checked", "asked", "authInProgress", "authCompleted"})
    BY <1>6, <1>8 DEF UpKept
  <2>2. u.asked = s.asked /\ u.sent = s.sent /\ Due(u) = 0 /\ u.checked = n
    BY <1>6, <1>8 DEF UpKept, UpFields, Due
  <2>3. /\ u.asked \in Nat /\ u.asked <= u.sent /\ u.checked + Due(u) <= u.asked
        /\ ~s.authFailed => u.asked = u.checked + Due(u)
    BY <1>5, <1>10, <2>2
  <2> QED
    BY <1>12, <2>1, <2>2, <2>3
<1>15. t.sent - t.asked # 0 => UpBase(x)
  <2>1. UpKept(s, x, {"auth", "checked", "asked", "authInProgress", "authCompleted"})
    BY <1>6, <1>7 DEF UpKept
  <2>2. x.asked = m /\ x.sent = s.sent /\ Due(x) = 1 /\ x.checked = n /\ t.asked = s.asked /\ t.sent = s.sent
    BY <1>6, <1>7 DEF UpKept, UpFields, Due
  <2>3. m = s.asked + 1
    BY <2>2 DEF m
  <2>4. /\ t.sent - t.asked # 0 => x.asked <= x.sent
        /\ x.asked \in Nat /\ x.checked + Due(x) <= x.asked
        /\ ~s.authFailed => x.asked = x.checked + Due(x)
    BY <1>5, <1>10, <2>2, <2>3
  <2> QED
    BY <1>12, <2>1, <2>2, <2>4
<1>16. ASSUME ~CycleEnds(t) PROVE UpOK(NextChunk(t)) /\ Still(s, NextChunk(t))
  <2>1. Early(s) => Early(t) /\ Early(x)
    BY <1>6, <1>7 DEF UpKept, UpFields, Early
  <2>2. ASSUME Given(s) PROVE Given(t) /\ ~t.authFailed
    BY <1>6, <1>10, <2>2 DEF UpKept, UpFields, Given
  <2>3. ASSUME Given(t), ~t.authFailed PROVE Given(x) /\ ~x.authFailed
    BY <1>7, <2>3 DEF UpKept, UpFields, Given
  <2>4. t.phase = s.phase /\ x.phase = s.phase
    BY <1>6, <1>7 DEF UpKept, UpFields
  <2>5. UpPhase(t) /\ UpPhase(x)
    BY <1>2, <2>1, <2>2, <2>3, <2>4 DEF Mid, UpPhase, Streaming
  <2> QED
    BY <1>4, <1>9, <1>13, <1>15, <2>5 DEF UpOK
<1>17. ASSUME CycleEnds(t) PROVE UpOK(ChunkAuthSuccessful(t)) /\ Still(s, ChunkAuthSuccessful(t))
  <2>1. /\ u.phase = s.phase /\ u.auth = "succeded" /\ u.checked = n /\ (Early(s) => Early(u))
        /\ u.authFailed = s.authFailed /\ u.kind = s.kind /\ u.aborted = s.aborted
        /\ u.shutdown = s.shutdown /\ u.readError = s.readError /\ u.writing = s.writing
        /\ u.writeFailed = s.writeFailed /\ u.writeCompleted = s.writeCompleted
        /\ u.written = s.written /\ t.asked = s.asked /\ t.sent = s.sent /\ t.kind = s.kind
        /\ t.aborted = s.aborted
    BY <1>6, <1>8 DEF UpKept, UpFields, Early
  <2>2. Given(s) => s.aborted \/ n = Chunks(s.kind)
    <3>1. Given(s) => ~s.authFailed
      BY DEF Given
    <3>2. s.aborted \/ (s.sent = Chunks(s.kind) /\ s.sent - s.asked = 0)
      BY <1>4, <1>17, <2>1
    <3> QED
      BY <1>5, <1>10, <3>1, <3>2
  <2>3. ASSUME Given(s) PROVE Given(u) /\ ~u.authFailed
    <3>1. /\ ~s.authFailed
          /\ s.aborted => s.readError # "none" \/ s.shutdown \/ s.writeFailed
      BY <2>3 DEF Given
    <3>2. \/ s.readError # "none" \/ s.shutdown \/ s.writeFailed \/ u.checked = Chunks(u.kind)
      BY <2>1, <2>2, <2>3, <3>1
    <3>3. u.phase = "stream" /\ u.paused = s.paused /\ u.connected = s.connected
      BY <1>6, <1>8, <2>3 DEF UpKept, UpFields, Given
    <3> QED
      BY <2>1, <2>3, <3>1, <3>2, <3>3 DEF Given
  <2>4. Mid(u) /\ (u.phase = "cleanup" \/ ~u.authFailed)
    BY <1>2, <2>1, <2>3 DEF Mid
  <2>5. u.shutdown => UpOK(Rollback(u, TRUE)) /\ Held(u, Rollback(u, TRUE))
    BY <1>14, <2>4, MidRollback
  <2>6. UpOK(u)
    BY <1>14, <2>4 DEF Mid, UpOK, UpPhase, Streaming
  <2>7. u.writeFailed => UpOK(SendResponse(u)) /\ Held(u, SendResponse(u))
    BY <1>14, <2>1, <2>4, MidSend DEF MayWait, WaitsForAuth, UpBase, UpMarks
  <2>8. ASSUME ~u.shutdown, u.writeCompleted, ~u.writeFailed
        PROVE  UpOK(NextTask(u)) /\ Held(u, NextTask(u))
    <3>1. ASSUME u.phase = "stream", ~Interrupted(u) PROVE Whole(u)
      <4>1. Given(s) /\ u.readError = "none" /\ ~s.aborted
        BY <1>2, <2>1, <2>8, <3>1 DEF Mid, Interrupted, Given
      <4> QED
        BY <2>1, <2>2, <2>8, <4>1 DEF Given, Whole
    <3>2. u.phase = "stream" => Early(u) /\ (~Interrupted(u) => ~u.writing)
      BY <2>4, <2>8 DEF Mid, Given, Interrupted
    <3>3. ~Stopping(u) /\ u.phase \in {"stream", "cleanup"}
      BY <2>4, <2>8 DEF Stopping, Mid, Given
    <3>4. /\ UpBase(NextTask(u)) /\ (NextTask(u).phase = "cleanup" \/ Saving(NextTask(u)))
          /\ Held(u, NextTask(u))
      BY <1>14, <2>1, <2>4, <3>1, <3>2, <3>3, MidSaves, NextTaskIs
    <3> QED
      BY <3>4 DEF UpOK, UpPhase
  <2>9. ASSUME NEW v, Held(u, v) PROVE Still(s, v)
    BY <1>9, <2>9, HeldIsStill, StillAgain
  <2> QED
    BY <1>4, <1>9, <2>5, <2>6, <2>7, <2>8, <2>9
<1> QED
  BY <1>16, <1>17 DEF t

\* The server rejects a signature: no more are asked and nothing is saved.
LEMMA AuthFails ==
    ASSUME NEW s, Bodies, UpOK(s), s.auth = "started"
    PROVE  UpOK(ChunkAuthFailed(s)) /\ Still(s, ChunkAuthFailed(s))
<1> DEFINE p == PartSignatureIsBad(s)
           c == [p EXCEPT !.authInProgress = FALSE, !.state = "dataSignatureCheckFailed"]
           t == IF s.kind = "chunked" THEN c ELSE p
           C == {"auth", "authFailed", "authCompleted", "error", "authInProgress", "state"}
<1>1. IsUp(s) /\ UpNumbers(s) /\ UpMarks(s) /\ UpCore(s) /\ IsChunked(s.kind)
  BY DEF UpOK, UpBase, UpCore, UpNumbers
<1>2. Mid(s)
  BY DEF UpOK, UpPhase, Setup, Saving, Streaming, Mid
<1>3. ChunkAuthFailed(s) = IF t.shutdown THEN Rollback(t, TRUE) ELSE IF t.inProgress THEN t
                           ELSE SendResponse(t)
  BY DEF ChunkAuthFailed, ChunkSignatureIsBad
<1>4. /\ UpKept(s, p, C) /\ p.auth = "failed" /\ p.authFailed /\ p.authCompleted /\ p.error
      /\ p.state = s.state
  BY <1>1 DEF PartSignatureIsBad, UpKept, IsUp, UpFields
<1> HIDE DEF p
<1>5. /\ UpKept(s, c, C) /\ c.auth = "failed" /\ c.authFailed /\ c.authCompleted /\ c.error
      /\ c.state = "dataSignatureCheckFailed"
  BY <1>4 DEF UpKept, IsUp, UpFields
<1> HIDE DEF c
<1>6. /\ UpKept(s, t, C) /\ t.auth = "failed" /\ t.authFailed /\ t.authCompleted /\ t.error
      /\ t.state = s.state \/ t.state = "dataSignatureCheckFailed"
  BY <1>4, <1>5
<1> HIDE DEF t
<1>7. /\ t.kind = s.kind /\ t.pos = s.pos /\ t.sent = s.sent /\ t.taken = s.taken
      /\ t.frozen = s.frozen /\ t.written = s.written /\ t.writeFailed = s.writeFailed
      /\ t.readError = s.readError /\ t.asked = s.asked /\ t.checked = s.checked
      /\ t.phase = s.phase /\ t.saving = s.saving /\ IsUp(t) /\ t.shutdown = s.shutdown
      /\ t.aborted = s.aborted /\ t.writing = s.writing /\ t.inProgress = s.inProgress
      /\ t.replies = s.replies /\ t.saved = s.saved /\ t.asserts = s.asserts
  BY <1>6 DEF UpKept, UpFields
<1>8. UpBase(t)
  <2>1. Received(t) = Received(s) /\ Parsed(t) = Parsed(s) /\ Due(t) = 0 /\ Due(s) = 1
    BY <1>6, <1>7 DEF Received, Parsed, Due
  <2>2. UpNumbers(t)
    BY <1>1, <1>6, <1>7, <2>1 DEF UpNumbers
  <2>3. UpCore(t) /\ (Whole(t) <=> Whole(s)) /\ (Good(t) <=> Good(s)) /\ t.saved = s.saved
    BY <1>1, <1>7, <2>2 DEF UpCore, Whole, Good, Misled, WritesNothing, MayHappen
  <2> QED
    BY <1>1, <1>6, <1>7, <2>3 DEF UpBase, UpMarks
<1>9. Mid(t)
  <2>1. Early(s) => Early(t)
    BY <1>6 DEF UpKept, UpFields, Early
  <2>2. ASSUME Given(s) PROVE Given(t)
    BY <1>6, <2>2 DEF UpKept, UpFields, Given
  <2> QED
    BY <1>2, <1>7, <2>1, <2>2 DEF Mid
<1>10. t.shutdown => UpOK(Rollback(t, TRUE)) /\ Held(t, Rollback(t, TRUE))
  BY <1>8, <1>9, MidRollback
<1>11. t.inProgress => UpOK(t)
  <2>1. t.inProgress => t.writing
    BY <1>8 DEF UpBase, UpCore
  <2> QED
    BY <1>8, <1>9, <2>1 DEF Mid, UpOK, UpPhase, Streaming
<1>12. UpOK(SendResponse(t)) /\ Held(t, SendResponse(t))
  BY <1>6, <1>8, <1>9, MidSend DEF MayWait, WaitsForAuth
<1>13. Still(s, t)
  BY <1>6 DEF UpKept, UpFields, Still
<1>14. ASSUME NEW v, Held(t, v) PROVE Still(s, v)
  BY <1>13, <1>14, HeldIsStill, StillAgain
<1> QED
  BY <1>3, <1>10, <1>11, <1>12, <1>13, <1>14

-----------------------------------------------------------------------------
(* The input.                                                              *)

\* A read that failed is handled now, or by the write under way.
LEMMA ReadErrorIs ==
    ASSUME NEW s, UpOK(s), s.readError # "none", s.listener
    PROVE  UpOK(ConsumeIncomingContent(s)) /\ Held(s, ConsumeIncomingContent(s))
<1>1. ConsumeIncomingContent(s) \in {s, Fail(s), ClientReadError(s)}
  BY DEF ConsumeIncomingContent, ObjectReadError, PartReadError
<1>2. IsUp(s) /\ UpBase(s)
  BY DEF UpOK, UpBase, UpCore
<1>3. UpBase(Erring(s))
  BY <1>2, ErringIs
<1>4. Held(s, s)
  BY <1>2 DEF Held, Calm
<1>5. CASE Mid(s)
  BY <1>1, <1>2, <1>3, <1>4, <1>5, MidFail DEF MayWait
<1>6. CASE Saving(s)
  <2>1. Out(s, Fail(s)) /\ Out(s, ClientReadError(s))
    BY <1>2, <1>3, FailEnds
  <2> QED
    BY <1>1, <1>4, <1>6, <2>1 DEF Out, Saving, WaitsForAuth, UpOK, UpPhase
<1> QED
  BY <1>5, <1>6 DEF UpOK, UpPhase, Setup, Streaming, Mid

\* The error is noted.
LEMMA NotedErrorIs ==
    ASSUME NEW s, NEW t, UpOK(s), UpKept(s, t, {"readError", "timer", "frozen", "ignore"}),
           t.readError # "none", s.ignore => t.ignore
    PROVE  UpOK(t)
<1>1. /\ t.kind = s.kind /\ t.pos = s.pos /\ t.sent = s.sent /\ t.taken = s.taken
      /\ t.written = s.written /\ t.writeFailed = s.writeFailed /\ t.state = s.state
      /\ t.asked = s.asked /\ t.checked = s.checked /\ t.auth = s.auth
      /\ t.phase = s.phase /\ t.saving = s.saving /\ IsUp(t) /\ t.error = s.error
      /\ t.authFailed = s.authFailed
      /\ t.aborted = s.aborted /\ t.writing = s.writing /\ t.inProgress = s.inProgress
      /\ t.replies = s.replies /\ t.saved = s.saved /\ t.asserts = s.asserts
  BY DEF UpKept, UpFields
<1>2. Received(t) = Received(s) /\ Parsed(t) = Parsed(s) /\ Due(t) = Due(s)
  BY <1>1 DEF Received, Parsed, Due
<1>3. UpNumbers(t)
  BY <1>1, <1>2 DEF UpOK, UpBase, UpCore, UpNumbers
<1>4. UpCore(t) /\ (Whole(t) <=> Whole(s)) /\ (Good(t) <=> Good(s)) /\ t.saved = s.saved
  BY <1>1, <1>3 DEF UpOK, UpBase, UpCore, Whole, Good, Misled, WritesNothing, MayHappen
<1>5. UpBase(t)
  BY <1>1, <1>4 DEF UpOK, UpBase, UpMarks
<1>6. ASSUME Setup(s) PROVE Setup(t)
  BY <1>6 DEF UpKept, UpFields, Setup
<1>7. ASSUME Streaming(s) PROVE Streaming(t)
  BY <1>7 DEF UpKept, UpFields, Streaming, Given
<1>8. Early(s) => Early(t)
  BY DEF UpKept, UpFields, Early
<1>9. Saving(s) => Saving(t)
  BY DEF UpKept, UpFields, Saving
<1> QED
  BY <1>1, <1>5, <1>6, <1>7, <1>8, <1>9 DEF UpOK, UpPhase

\* The read timer runs out.
LEMMA TimeoutIs ==
    ASSUME UpIInv, ReadTimeout
    PROVE  UpIInv' /\ (UpBounded(up) => UpBounded(up)')
<1> DEFINE t == [up EXCEPT !.readError = "RequestTimeout", !.timer = FALSE, !.frozen = TRUE]
<1>1. IsUp(up) /\ UpOK(up)
  BY DEF UpIInv, UpOK, UpBase, UpCore
<1>2. up' = IF t.listener THEN ConsumeIncomingContent(t) ELSE t
  BY DEF ReadTimeout
<1>3. UpKept(up, t, {"readError", "timer", "frozen", "ignore"}) /\ t.readError = "RequestTimeout"
      /\ t.ignore = up.ignore /\ t.frozen
  BY <1>1 DEF UpKept, IsUp, UpFields
<1> HIDE DEF t
<1>4. UpOK(t)
  BY <1>1, <1>3, NotedErrorIs
<1>5. t.listener => UpOK(ConsumeIncomingContent(t)) /\ Held(t, ConsumeIncomingContent(t))
  BY <1>3, <1>4, ReadErrorIs
<1>6. UpBounded(up) => UpBounded(t)
  <2>1. t.kind = up.kind /\ t.pos = up.pos /\ t.taken = up.taken /\ t.listener = up.listener
    BY <1>3 DEF UpKept, UpFields
  <2>2. Received(t) = Received(up) /\ Buffered(t) = Buffered(up)
    BY <2>1 DEF Received, Buffered
  <2> QED
    BY <1>3, <2>1, <2>2 DEF UpBounded, Reading
<1> DEFINE u == up'
<1>7. u = IF t.listener THEN ConsumeIncomingContent(t) ELSE t
  BY <1>2
<1> HIDE DEF u
<1>8. UpOK(u) /\ (UpBounded(up) => UpBounded(u))
  BY <1>4, <1>5, <1>6, <1>7, HeldIsStill, StillBounded
<1> QED
  BY <1>8 DEF UpIInv, u

\* What may arrive: the upload is not all written, has not failed to write and
\* has not failed its signatures while no write is under way.
LEMMA ContentIsAdded ==
    ASSUME NEW s, NEW n \in 1 .. (Len(Wire[s.kind]) - s.pos), Bodies, UpOK(s),
           s.readError = "none", s.connected, ~s.paused, ~s.ignore, ~Split(s, n)
    PROVE  LET a == AddContent(s, n)
           IN  /\ UpOK(a) /\ UpKept(s, a, {"pos", "frozen"}) /\ a.pos = s.pos + n
               /\ a.phase = "stream" => ~a.writeFailed /\ (~a.writing => Going(a))
               /\ a.phase # "save"
               /\ ~s.frozen /\ (a.frozen <=> Received(a) = Size(a.kind))
<1> DEFINE l == s.pos + n
           b == [s EXCEPT !.pos = l]
           z == (b.frozen \/ Pending(b) = 0)
           a == [b EXCEPT !.frozen = z]
<1>1. /\ IsUp(s) /\ s.kind \in Kind /\ s.pos \in 0 .. Len(Wire[s.kind]) /\ UpNumbers(s)
      /\ UpMarks(s) /\ UpCore(s)
  BY DEF UpOK, UpBase, UpCore, UpNumbers
<1>2. /\ AddContent(s, n) = a
      /\ Split(s, n) <=> Pending(a) = 0 /\ a.pos < Len(Wire[s.kind])
  BY DEF AddContent, Split
<1>3. /\ Len(Wire[s.kind]) \in Nat /\ s.pos \in Nat /\ Received(s) \in Nat /\ Size(s.kind) \in Nat
      /\ Received(s) <= Size(s.kind) /\ Parsed(s) \in Nat
  BY <1>1, UpCounts
<1>4. l \in Nat /\ l <= Len(Wire[s.kind]) /\ s.pos < l /\ s.pos # Len(Wire[s.kind]) /\ l = s.pos + n
  BY <1>1, <1>3
<1> HIDE DEF l
<1>5. UpKept(s, b, {"pos"}) /\ b.pos = l
  BY <1>1 DEF UpKept, IsUp, UpFields
<1>6. b.kind = s.kind /\ b.frozen = s.frozen
  BY <1>5 DEF UpKept, UpFields
<1>7. ~s.frozen /\ Received(s) # Size(s.kind)
  BY <1>1, <1>4 DEF UpNumbers
<1>8. z <=> Received(b) = Size(s.kind)
  <2>1. b.kind \in Kind /\ b.pos \in 0 .. Len(Wire[b.kind])
    BY <1>1, <1>3, <1>4, <1>5, <1>6
  <2>2. Received(b) \in Nat
    BY <2>1, UpCounts
  <2> QED
    BY <1>3, <1>6, <1>7, <2>2 DEF Pending
<1> HIDE DEF b, z
<1>9. UpKept(b, a, {"frozen"}) /\ (a.frozen <=> z)
  BY <1>5 DEF UpKept, IsUp, UpFields
<1> HIDE DEF a
<1>10. UpKept(s, a, {"pos", "frozen"}) /\ a.pos = l /\ a.kind = b.kind /\ b.pos = l
  BY <1>5, <1>9 DEF UpKept, UpFields
<1>11. /\ a.kind = s.kind /\ a.sent = s.sent /\ a.taken = s.taken
       /\ a.written = s.written /\ a.writeFailed = s.writeFailed /\ a.state = s.state
       /\ a.asked = s.asked /\ a.checked = s.checked /\ a.auth = s.auth
       /\ a.phase = s.phase /\ a.saving = s.saving /\ IsUp(a) /\ a.error = s.error
       /\ a.authFailed = s.authFailed /\ a.readError = s.readError /\ a.ignore = s.ignore
       /\ a.aborted = s.aborted /\ a.writing = s.writing /\ a.inProgress = s.inProgress
       /\ a.replies = s.replies /\ a.saved = s.saved /\ a.asserts = s.asserts
       /\ a.writeCompleted = s.writeCompleted
  BY <1>10 DEF UpKept, UpFields
<1>12. /\ Received(a) = Received(b) /\ Received(s) <= Received(a) /\ Parsed(s) <= Parsed(a)
       /\ Received(a) \in Nat /\ Parsed(a) \in Nat /\ Due(a) = Due(s)
  <2>1. /\ CountOf(s.kind, s.pos, "data") <= CountOf(s.kind, l, "data")
        /\ CountOf(s.kind, s.pos, "sig") <= CountOf(s.kind, l, "sig")
        /\ CountOf(s.kind, l, "data") \in Nat /\ CountOf(s.kind, l, "sig") \in Nat
    BY <1>3, <1>4, CountGrows, CountIsNat
  <2> QED
    BY <1>6, <1>10, <1>11, <2>1 DEF Received, Parsed, Due
<1>13. Received(a) = Size(s.kind) => a.pos = Len(Wire[s.kind])
  BY <1>2, <1>3, <1>4, <1>10, <1>11, <1>12 DEF Pending
<1>14. UpBase(a)
  <2>1. UpNumbers(a)
    BY <1>1, <1>3, <1>4, <1>8, <1>9, <1>10, <1>11, <1>12, <1>13 DEF UpNumbers
  <2>2. UpCore(a) /\ (Whole(a) <=> Whole(s)) /\ (Good(a) <=> Good(s)) /\ a.saved = s.saved
    BY <1>1, <1>11, <2>1 DEF UpCore, Whole, Good, Misled, WritesNothing, MayHappen
  <2> QED
    BY <1>1, <1>11, <2>2 DEF UpBase, UpMarks
<1>15. s.written # Size(s.kind)
  BY <1>1, <1>3, <1>7 DEF UpNumbers
<1>16. ASSUME Streaming(s) PROVE ~s.writeFailed /\ ~s.writeCompleted /\ (s.authFailed => s.writing)
  BY <1>15, <1>16 DEF Streaming, Given
<1>17. ASSUME Streaming(s) PROVE Streaming(a) /\ Given(a)
  BY <1>10, <1>16, <1>17 DEF UpKept, UpFields, Streaming, Given
<1>18. ASSUME Setup(s) PROVE Setup(a)
  BY <1>10, <1>18 DEF UpKept, UpFields, Setup
<1>19. Early(s) => Early(a)
  BY <1>10 DEF UpKept, UpFields, Early
<1>20. ~Saving(s)
  BY <1>4 DEF Saving
<1>21. UpOK(a)
  BY <1>11, <1>14, <1>17, <1>18, <1>19, <1>20 DEF UpOK, UpPhase
<1>22. a.phase # "save"
  BY <1>11, <1>20 DEF UpOK, UpPhase, Setup, Streaming, Given
<1>23. a.phase = "stream" => ~a.writeFailed /\ (~a.writing => Going(a))
  BY <1>11, <1>16, <1>17, <1>19, <1>20 DEF UpOK, UpPhase, Setup, Going
<1>24. ~s.frozen /\ (a.frozen <=> Received(a) = Size(a.kind))
  BY <1>7, <1>8, <1>9, <1>11, <1>12
<1> QED
  BY <1>2, <1>4, <1>10, <1>21, <1>22, <1>23, <1>24

\* consume_incoming_content of data that has just come.
LEMMA ConsumeIs ==
    ASSUME NEW a, Bodies, UpOK(a), a.readError = "none", a.phase \in {"stream", "cleanup"},
           a.phase = "stream" => ~a.writeFailed /\ (~a.writing => Going(a))
    PROVE  LET r == ConsumeIncomingContent(a)
           IN  UpOK(r) /\ (r.phase = "stream" => ~r.writeFailed)
<1> DEFINE w == WriteIfReady(a)
<1>1. UpBase(a) /\ (a.inProgress <=> a.writing)
  BY DEF UpOK, UpBase, UpCore
<1>2. UpOK(w) /\ (w.phase = "stream" => ~w.writeFailed)
  <2>1. ~a.inProgress => Going(a)
    BY <1>1 DEF Going
  <2>2. UpOK(UploadCrashes(a)) /\ UploadCrashes(a).phase = "cleanup"
    BY <1>1, CrashEnds DEF UpBase, UpMarks, UpOK, UpPhase
  <2>3. WriteIfReady(a) \in {a, UploadCrashes(a)} \/ (~a.inProgress /\ WriteIfReady(a) = WriteObject(a))
    BY DEF WriteIfReady
  <2> QED
    BY <1>1, <2>1, <2>2, <2>3, GoingWrites
<1>3. ConsumeIncomingContent(a) \in {w, Pause(w)}
  BY DEF ConsumeIncomingContent, PauseIfAhead
<1> HIDE DEF w
<1>4. IsUp(w)
  BY <1>2 DEF UpOK, UpBase, UpCore
<1>5. UpKept(w, Pause(w), {"timer", "paused"})
  BY <1>4, PauseIs
<1>6. UpOK(Pause(w))
  BY <1>2, <1>5, PauseStays
<1>7. Pause(w).phase = w.phase /\ Pause(w).writeFailed = w.writeFailed
  BY <1>5 DEF UpKept, UpFields
<1> QED
  BY <1>2, <1>3, <1>6, <1>7

\* notify_incoming_data, with or without memory for what comes.
LEMMA NotifyIs ==
    ASSUME NEW s, NEW n \in 1 .. (Len(Wire[s.kind]) - s.pos), NEW low, Bodies, UpOK(s),
           s.connected, ~s.paused, ~s.ignore, ~Split(s, n)
    PROVE  UpOK(Notify(s, n, low))
<1> DEFINE q == StopTimer(s)
           e == [q EXCEPT !.ignore = TRUE, !.readError = "ServiceUnavailable"]
           a == AddContent(q, n)
           r == IF a.listener
                THEN IF Buffered(a) >= Payload \/ Pending(a) = 0 THEN ConsumeIncomingContent(a) ELSE a
                ELSE IF ~a.frozen THEN Pause(a) ELSE a
<1>1. Notify(s, n, low) =
        IF low THEN IF e.listener THEN ConsumeIncomingContent(e) ELSE e
        ELSE IF q.readError # "none" THEN q
        ELSE IF ~r.paused /\ ~r.frozen THEN StartTimer(r) ELSE r
  BY DEF Notify
<1>2. IsUp(s)
  BY DEF UpOK, UpBase, UpCore
<1>3. UpKept(s, q, {"timer"})
  BY <1>2 DEF StopTimer, UpKept, IsUp, UpFields
<1>4. q = [s EXCEPT !.timer = FALSE]
  BY DEF StopTimer
<1> HIDE DEF q
<1>5. /\ q.kind = s.kind /\ q.pos = s.pos /\ q.connected /\ ~q.paused /\ ~q.ignore /\ IsUp(q)
      /\ q.writeFailed = s.writeFailed /\ q.phase = s.phase
  BY <1>3 DEF UpKept, UpFields
<1>6. ASSUME NEW u, NEW v, UpOK(u), UpKept(u, v, {"timer"}) PROVE UpOK(v)
  <2>1. UpKept(u, v, {"timer", "paused"}) /\ v.paused = u.paused
    BY <1>6 DEF UpKept, UpFields
  <2> QED
    BY <1>6, <2>1, PauseStays
<1>7. UpOK(q)
  BY <1>3, <1>6
<1>8. UpOK(e) /\ (e.listener => UpOK(ConsumeIncomingContent(e)))
  <2>1. /\ UpKept(q, e, {"readError", "timer", "frozen", "ignore"}) /\ e.ignore
        /\ e.readError = "ServiceUnavailable"
    BY <1>5 DEF UpKept, IsUp, UpFields
  <2> HIDE DEF e
  <2>2. UpOK(e)
    BY <1>7, <2>1, NotedErrorIs
  <2> QED
    BY <2>1, <2>2, ReadErrorIs
<1>9. ASSUME q.readError = "none" PROVE UpOK(r) /\ UpOK(StartTimer(r))
  <2>1. ~Split(q, n)
    BY <1>2, <1>3, <1>4, <1>5 DEF Split, AddContent, Pending, Received, UpKept, IsUp, UpFields
  <2>2. /\ UpOK(a) /\ UpKept(q, a, {"pos", "frozen"}) /\ a.phase # "save"
        /\ a.phase = "stream" => ~a.writeFailed /\ (~a.writing => Going(a))
    BY <1>5, <1>7, <1>9, <2>1, ContentIsAdded
  <2> HIDE DEF a
  <2>3. a.readError = "none" /\ IsUp(a)
    BY <1>9, <2>2 DEF UpKept, UpFields
  <2>4. UpOK(Pause(a))
    BY <2>2, <2>3, PauseIs, PauseStays
  <2>5. a.listener => UpOK(ConsumeIncomingContent(a))
    <3>1. a.listener => a.phase \in {"stream", "cleanup"}
      BY <2>2 DEF UpOK, UpPhase, Setup, Saving, Streaming, Given
    <3> QED
      BY <2>2, <2>3, <3>1, ConsumeIs
  <2>6. UpOK(r)
    BY <2>2, <2>4, <2>5
  <2> HIDE DEF r
  <2>7. IsUp(r)
    BY <2>6 DEF UpOK, UpBase, UpCore
  <2>8. UpKept(r, StartTimer(r), {"timer"})
    BY <2>7 DEF StartTimer, UpKept, IsUp, UpFields
  <2> QED
    BY <1>6, <2>6, <2>8
<1> HIDE DEF e, r
<1> QED
  BY <1>1, <1>7, <1>8, <1>9

\* What arrives and what is written of it.
LEMMA ArrivedIsBounded ==
    ASSUME NEW s, NEW a, Bodies, UpOK(s), UpBounded(s), Reading(s), ~s.frozen,
           UpOK(a), UpKept(s, a, {"pos", "frozen"}), Received(a) - Received(s) \in 0 .. MaxRead,
           a.frozen <=> Received(a) = Size(a.kind)
    PROVE  /\ ~a.listener => UpBounded(IF ~a.frozen THEN Pause(a) ELSE a)
           /\ a.listener /\ Buffered(a) < Payload => UpBounded(a)
           /\ a.listener => UpBounded(ConsumeIncomingContent(a))
<1> DEFINE d == Received(a) - Received(s)
<1>1. /\ a.kind = s.kind /\ a.taken = s.taken /\ a.listener = s.listener /\ a.writing = s.writing
      /\ a.readError = "none" /\ IsUp(a) /\ a.inProgress = s.inProgress /\ UpBase(a)
      /\ UpBase(s) /\ (s.inProgress <=> s.writing)
  BY DEF UpKept, UpFields, Reading, UpOK, UpBase, UpCore
<1>2. Buffered(s) \in Nat /\ Buffered(a) \in Nat
  BY <1>1, BufferedIs
<1>3. Buffered(a) = Buffered(s) + d /\ d \in 0 .. MaxRead
  <2>1. s.kind \in Kind /\ s.pos \in 0 .. Len(Wire[s.kind]) /\ s.taken \in Nat
    BY <1>1 DEF UpBase, UpCore, UpNumbers
  <2>2. a.kind \in Kind /\ a.pos \in 0 .. Len(Wire[a.kind])
    BY <1>1 DEF UpBase, UpCore, UpNumbers
  <2>3. Received(s) \in Nat /\ Received(a) \in Nat
    BY <2>1, <2>2, UpCounts
  <2> QED
    BY <1>1, <2>1, <2>3 DEF Buffered
<1> HIDE DEF d
<1>4. \/ Buffered(s) < Limit
      \/ ~s.writing /\ s.listener /\ Buffered(s) <= MaxRead
  BY DEF UpBounded
<1>5. ASSUME ~a.listener PROVE UpBounded(IF ~a.frozen THEN Pause(a) ELSE a)
  <2>1. Buffered(s) = 0 /\ ~s.writing
    BY <1>1, <1>5 DEF UpBounded
  <2>2. Buffered(a) <= MaxRead /\ Buffered(a) < Limit + MaxRead
    BY <1>2, <1>3, <2>1, LimitIs, PayloadAssumption
  <2>3. CASE a.frozen
    BY <1>1, <1>5, <2>2, <2>3 DEF UpBounded
  <2>4. CASE ~a.frozen
    <3> DEFINE p == Pause(a)
    <3>1. /\ UpKept(a, p, {"timer", "paused"})
          /\ p.paused \/ ~a.connected \/ a.readError # "none"
      BY <1>1, PauseIs
    <3> HIDE DEF p
    <3>2. /\ p.kind = a.kind /\ p.pos = a.pos /\ p.taken = a.taken /\ p.frozen = a.frozen
          /\ p.writing = a.writing /\ p.listener = a.listener /\ ~Reading(p)
      BY <3>1 DEF UpKept, UpFields, Reading
    <3>3. Received(p) = Received(a) /\ Buffered(p) = Buffered(a)
      BY <3>2 DEF Received, Buffered
    <3>4. UpBounded(p)
      BY <1>1, <2>1, <2>2, <2>4, <3>2, <3>3 DEF UpBounded
    <3> QED
      BY <2>4, <3>4 DEF p
  <2> QED
    BY <2>3, <2>4
<1>6. ASSUME a.listener, Buffered(a) < Payload PROVE UpBounded(a)
  <2>1. Buffered(a) < Limit /\ Buffered(a) < Limit + MaxRead
    BY <1>2, <1>6, LimitIs, PayloadAssumption
  <2> QED
    BY <1>6, <2>1 DEF UpBounded
<1>7. ASSUME a.listener PROVE UpBounded(ConsumeIncomingContent(a))
  <2> DEFINE v == WriteIfReady(a)
             p == Pause(v)
             w == WriteObject(a)
             x == UploadCrashes(a)
  <2>1. /\ UpBase(w) /\ UpKept(a, w, WriteFields)
        /\ w.taken = a.taken + Smaller(Buffered(a), Payload)
    BY <1>1, WriteObjectIs
  <2>2. v = IF ~a.inProgress /\ (a.frozen \/ Buffered(a) >= Payload)
            THEN IF a.asserts /\ Buffered(a) = 0 THEN x ELSE w ELSE a
    BY <1>2, PayloadAssumption DEF WriteIfReady
  <2>3. ConsumeIncomingContent(a) = IF ~v.frozen /\ Buffered(v) >= Limit THEN p ELSE v
    BY <1>1 DEF ConsumeIncomingContent, PauseIfAhead, Limit
  <2> HIDE DEF v, w
  <2>10. /\ x.kind = a.kind /\ x.pos = a.pos /\ x.taken = a.taken /\ x.frozen = a.frozen
         /\ x.listener = a.listener /\ IsUp(x)
    <3>1. UpKept(a, x, {"phase", "gone", "crashed"})
      BY <1>1, CrashIs
    <3> HIDE DEF x
    <3> QED
      BY <3>1 DEF UpKept, UpFields
  <2> HIDE DEF x
  <2>11. Received(x) = Received(a) /\ Buffered(x) = Buffered(a)
    BY <2>10 DEF Received, Buffered
  <2>4. Received(w) = Received(a) /\ Buffered(w) = Buffered(a) - Smaller(Buffered(a), Payload)
    <3>1. w.kind = a.kind /\ w.pos = a.pos
      BY <2>1 DEF UpKept, UpFields, WriteFields
    <3>2. a.taken \in Nat /\ a.kind \in Kind /\ a.pos \in 0 .. Len(Wire[a.kind])
      BY <1>1 DEF UpBase, UpCore, UpNumbers
    <3>3. Received(a) \in Nat
      BY <3>2, UpCounts
    <3> QED
      BY <1>2, <2>1, <3>1, <3>2, <3>3, PayloadAssumption DEF Received, Buffered, Smaller
  <2>5. Buffered(v) \in Nat /\ Buffered(v) < Limit + MaxRead
    <3>1. CASE s.writing
      <4>1. v = a
        BY <1>1, <2>2, <3>1
      <4> QED
        BY <1>2, <1>3, <1>4, <3>1, <4>1, LimitIs
    <3>2. CASE ~s.writing /\ (a.frozen \/ Buffered(a) >= Payload)
      <4>1. v = w \/ (v = x /\ Buffered(a) = 0)
        BY <1>1, <2>2, <3>2
      <4>2. Buffered(a) < Limit + MaxRead \/ Buffered(a) <= MaxRead + MaxRead
        BY <1>2, <1>3, <1>4, LimitIs
      <4> QED
        BY <1>2, <2>4, <2>11, <4>1, <4>2, LimitIs, PayloadAssumption DEF Smaller
    <3>3. CASE ~(a.frozen \/ Buffered(a) >= Payload)
      <4>1. v = a /\ ~(Buffered(a) >= Payload)
        BY <2>2, <3>3
      <4> QED
        BY <1>2, <4>1, LimitIs, PayloadAssumption
    <3> QED
      BY <3>1, <3>2, <3>3
  <2>6. /\ Received(v) = Received(a) /\ v.kind = a.kind /\ v.frozen = a.frozen
        /\ v.listener = a.listener /\ IsUp(v)
    BY <1>1, <2>1, <2>2, <2>4, <2>10, <2>11 DEF UpKept, UpFields, WriteFields
  <2>7. CASE v.frozen \/ ~(Buffered(v) >= Limit)
    <3>1. ConsumeIncomingContent(a) = v
      BY <2>3, <2>7
    <3>2. v.frozen \/ Buffered(v) < Limit
      BY <2>5, <2>7, LimitIs
    <3> QED
      BY <1>7, <2>5, <2>6, <3>1, <3>2 DEF UpBounded
  <2>8. CASE ~v.frozen /\ Buffered(v) >= Limit
    <3>1. /\ UpKept(v, p, {"timer", "paused"})
          /\ p.paused \/ ~v.connected \/ v.readError # "none"
      BY <2>6, PauseIs
    <3>2. ConsumeIncomingContent(a) = p
      BY <2>3, <2>8
    <3> HIDE DEF p
    <3>3. /\ p.kind = v.kind /\ p.pos = v.pos /\ p.taken = v.taken /\ p.frozen = v.frozen
          /\ p.listener = v.listener /\ ~Reading(p)
      BY <3>1 DEF UpKept, UpFields, Reading
    <3>4. Received(p) = Received(v) /\ Buffered(p) = Buffered(v)
      BY <3>3 DEF Received, Buffered
    <3> QED
      BY <1>7, <2>5, <2>6, <3>2, <3>3, <3>4 DEF UpBounded
  <2> QED
    BY <2>7, <2>8
<1> QED
  BY <1>5, <1>6, <1>7

\* notify_incoming_data pauses reading before too much is buffered.
LEMMA NotifyIsBounded ==
    ASSUME NEW s, NEW n \in 1 .. (Len(Wire[s.kind]) - s.pos), NEW low, Bodies, UpOK(s),
           UpBounded(s), s.connected, ~s.paused, ~s.ignore, ~Split(s, n),
           CountOf(s.kind, s.pos + n, "data") - CountOf(s.kind, s.pos, "data") <= MaxRead
    PROVE  UpBounded(Notify(s, n, low))
<1> DEFINE q == StopTimer(s)
           e == [q EXCEPT !.ignore = TRUE, !.readError = "ServiceUnavailable"]
           a == AddContent(q, n)
           c == ConsumeIncomingContent(a)
           r == IF a.listener THEN IF Buffered(a) >= Payload \/ Pending(a) = 0 THEN c ELSE a
                ELSE IF ~a.frozen THEN Pause(a) ELSE a
<1>1. Notify(s, n, low) =
        IF low THEN IF e.listener THEN ConsumeIncomingContent(e) ELSE e
        ELSE IF q.readError # "none" THEN q
        ELSE IF ~r.paused /\ ~r.frozen THEN StartTimer(r) ELSE r
  BY DEF Notify
<1>2. IsUp(s)
  BY DEF UpOK, UpBase, UpCore
<1>3. UpKept(s, q, {"timer"}) /\ q = [s EXCEPT !.timer = FALSE]
  BY <1>2 DEF StopTimer, UpKept, IsUp, UpFields
<1> HIDE DEF q
<1>4. /\ q.kind = s.kind /\ q.pos = s.pos /\ q.connected /\ ~q.paused /\ ~q.ignore /\ IsUp(q)
      /\ Still(s, q)
  BY <1>3 DEF UpKept, UpFields, Still
<1>5. UpBounded(q)
  BY <1>4, StillBounded
<1>6. UpOK(q)
  <2>1. UpKept(s, q, {"timer", "paused"}) /\ q.paused = s.paused
    BY <1>3 DEF UpKept, UpFields
  <2> QED
    BY <2>1, PauseStays
<1>7. UpBounded(e) /\ (e.listener => UpBounded(ConsumeIncomingContent(e)))
  <2>1. /\ UpKept(q, e, {"readError", "timer", "frozen", "ignore"}) /\ e.ignore
        /\ e.readError = "ServiceUnavailable" /\ e.frozen = q.frozen
    BY <1>4 DEF UpKept, IsUp, UpFields
  <2> HIDE DEF e
  <2>2. UpOK(e)
    BY <1>6, <2>1, NotedErrorIs
  <2>3. /\ e.kind = q.kind /\ e.pos = q.pos /\ e.taken = q.taken /\ e.writing = q.writing
        /\ e.listener = q.listener /\ ~Reading(e)
    BY <2>1 DEF UpKept, UpFields, Reading
  <2>4. Received(e) = Received(q) /\ Buffered(e) = Buffered(q)
    BY <2>3 DEF Received, Buffered
  <2>5. UpBounded(e)
    BY <1>5, <2>1, <2>3, <2>4 DEF UpBounded
  <2>6. e.listener => Held(e, ConsumeIncomingContent(e))
    BY <2>1, <2>2, ReadErrorIs
  <2> QED
    BY <2>5, <2>6, HeldIsStill, StillBounded
<1>8. ASSUME q.readError = "none" PROVE UpBounded(r) /\ UpBounded(StartTimer(r))
  <2>1. ~Split(q, n)
    BY <1>2, <1>3, <1>4 DEF Split, AddContent, Pending, Received, UpKept, IsUp, UpFields
  <2>2. /\ UpOK(a) /\ UpKept(q, a, {"pos", "frozen"}) /\ ~q.frozen /\ a.pos = q.pos + n
        /\ a.phase # "save" /\ (a.frozen <=> Received(a) = Size(a.kind))
        /\ a.phase = "stream" => ~a.writeFailed /\ (~a.writing => Going(a))
    BY <1>4, <1>6, <1>8, <2>1, ContentIsAdded
  <2> HIDE DEF a
  <2>3. Received(a) - Received(q) \in 0 .. MaxRead
    <3>1. a.kind = s.kind /\ a.pos = s.pos + n
      BY <1>4, <2>2 DEF UpKept, UpFields
    <3>2. s.pos \in Nat
      BY UpCounts DEF UpOK, UpBase, UpCore, UpNumbers
    <3>3. /\ CountOf(s.kind, s.pos, "data") \in Nat /\ CountOf(s.kind, s.pos + n, "data") \in Nat
          /\ CountOf(s.kind, s.pos, "data") <= CountOf(s.kind, s.pos + n, "data")
      BY <3>2, CountIsNat, CountGrows
    <3> QED
      BY <1>4, <3>1, <3>3, LimitIs DEF Received
  <2>4. Reading(q)
    BY <1>4, <1>8 DEF Reading
  <2>5. /\ ~a.listener => UpBounded(IF ~a.frozen THEN Pause(a) ELSE a)
        /\ a.listener /\ Buffered(a) < Payload => UpBounded(a)
        /\ a.listener => UpBounded(c)
    BY <1>5, <1>6, <2>2, <2>3, <2>4, ArrivedIsBounded
  <2>6. ~(Buffered(a) >= Payload) => Buffered(a) < Payload
    BY <2>2, BufferedIs, PayloadAssumption DEF UpOK
  <2> HIDE DEF c
  <2>7. UpBounded(r)
    BY <2>5, <2>6
  <2>8. IsUp(a) /\ IsUp(Pause(a)) /\ (a.listener => IsUp(c))
    <3>1. IsUp(a) /\ a.readError = "none"
      BY <1>8, <2>2 DEF UpKept, UpFields
    <3>2. a.listener => a.phase \in {"stream", "cleanup"}
      BY <2>2 DEF UpOK, UpPhase, Setup, Saving, Streaming, Given
    <3>3. a.listener => UpOK(c)
      BY <2>2, <3>1, <3>2, ConsumeIs DEF c
    <3> QED
      BY <3>1, <3>3, PauseIs DEF UpKept, UpOK, UpBase, UpCore
  <2>9. IsUp(r)
    BY <2>8
  <2> HIDE DEF r
  <2>10. Still(r, StartTimer(r))
    BY <2>9 DEF StartTimer, Still, IsUp, UpFields
  <2> QED
    BY <2>7, <2>10, StillBounded
<1> HIDE DEF e, r
<1> QED
  BY <1>1, <1>5, <1>7, <1>8

\* A read of a signed body fills no more than MaxRead buffers, any other one.
LEMMA ReadSizesFit ==
    ASSUME NEW s, NEW n \in ReadSizes(s), Bodies, UpBase(s)
    PROVE  CountOf(s.kind, s.pos + n, "data") - CountOf(s.kind, s.pos, "data") <= MaxRead
<1>1. /\ IsUp(s) /\ s.kind \in Kind /\ s.pos \in 0 .. Len(Wire[s.kind])
      /\ n \in 1 .. (Len(Wire[s.kind]) - s.pos)
  BY DEF UpBase, UpCore, UpNumbers, ReadSizes
<1>2. Len(Wire[s.kind]) \in Nat /\ s.pos \in Nat
  BY <1>1, UpCounts
<1>3. CASE IsChunked(s.kind)
  <2> DEFINE l == s.pos + n
             b == [s EXCEPT !.pos = l]
             z == (b.frozen \/ Pending(b) = 0)
             a == [b EXCEPT !.frozen = z]
  <2>1. AddContent(s, n) = a
    BY DEF AddContent
  <2> HIDE DEF z, l
  <2>2. IsUp(b) /\ b.kind = s.kind /\ b.pos = l
    BY <1>1 DEF IsUp, UpFields
  <2> HIDE DEF b
  <2>3. a.kind = s.kind /\ a.pos = l
    BY <2>2 DEF IsUp, UpFields
  <2>4. Received(AddContent(s, n)) - Received(s) <= MaxRead
    BY <1>3 DEF ReadSizes
  <2> QED
    BY <2>1, <2>3, <2>4 DEF Received, l
<1>4. CASE ~IsChunked(s.kind)
  <2>1. n = 1
    BY <1>4 DEF ReadSizes
  <2>2. \A i \in 1 .. Len(Wire[s.kind]) : Wire[s.kind][i] = "data"
    BY <1>1, <1>4, Zenon DEF Bodies
  <2> DEFINE w == Wire[s.kind]
             p == s.pos
             q == s.pos + n
  <2>3. p \in Nat /\ q \in Nat /\ q = p + 1 /\ p <= Len(w) /\ q <= Len(w)
    BY <1>1, <1>2, <2>1
  <2> HIDE DEF p, q
  <2>4. (\A i \in 1 .. p : w[i] = "data") /\ (\A i \in 1 .. q : w[i] = "data")
    BY <1>2, <2>2, <2>3
  <2>5. CountOf(s.kind, p, "data") = p /\ CountOf(s.kind, q, "data") = q
    BY <2>3, <2>4, CountOfData
  <2> QED
    BY <2>3, <2>5, LimitIs DEF p, q
<1> QED
  BY <1>3, <1>4

\* Data arrives.
LEMMA ArriveIs ==
    ASSUME Bodies, UpIInv, Arrive
    PROVE  UpIInv' /\ (UpBounded(up) => UpBounded(up)')
<1>1. PICK n \in ReadSizes(up), low \in Chance(up, "memory") :
         (Split(up, n) => MayHappen(up, "trailer")) /\ up' = Notify(up, n, low)
  BY DEF Arrive
<1>2. up.kind \in Kind
  BY DEF UpIInv, UpOK, UpBase, UpCore
<1>3. ~Split(up, n)
  BY <1>1, <1>2 DEF Bodies, MayHappen
<1>4. n \in 1 .. (Len(Wire[up.kind]) - up.pos)
  BY DEF ReadSizes
<1>5. up.connected /\ ~up.paused /\ ~up.ignore
  BY DEF Arrive
<1>6. UpOK(up) /\ UpBase(up)
  BY DEF UpIInv, UpOK
<1> DEFINE r == Notify(up, n, low)
<1>7. UpOK(r)
  BY <1>3, <1>4, <1>5, <1>6, NotifyIs
<1>8. UpBounded(up) => UpBounded(r)
  BY <1>3, <1>4, <1>5, <1>6, ReadSizesFit, NotifyIsBounded
<1> HIDE DEF r
<1>9. up' = r
  BY <1>1 DEF r
<1> QED
  BY <1>7, <1>8, <1>9 DEF UpIInv

-----------------------------------------------------------------------------
(* The other events.                                                       *)

\* The object is created, and streaming begins, or is given up.
LEMMA SetupIs ==
    ASSUME Bodies, UpIInv, SetupDone
    PROVE  UpIInv' /\ (UpBounded(up) => UpBounded(up)')
<1> DEFINE s == up
           t == [s EXCEPT !.phase = "stream"]
           l == [t EXCEPT !.listener = TRUE]
<1>1. UpOK(s) /\ UpBase(s) /\ UpCore(s) /\ IsUp(s) /\ UpMarks(s) /\ s.phase = "setup"
  BY DEF UpIInv, UpOK, UpBase, UpCore, SetupDone
<1>2. Setup(s) /\ Early(s)
  BY <1>1 DEF UpOK, UpPhase, Streaming, Given, Saving
<1>3. ~WaitsForAuth(s) /\ ~s.saving
  BY <1>2 DEF Setup, WaitsForAuth, Early
<1>4. CASE Interrupted(s)
  <2>1. up' \in {Rollback(s, FALSE), ClientReadError(s), StartCleanup(s)}
    BY <1>4 DEF SetupDone, Interrupt
  <2>2. UpOK(StartCleanup(s)) /\ Held(s, StartCleanup(s))
    BY <1>1, <1>3, StartCleanupEnds DEF UpOK, UpPhase
  <2>3. UpOK(ClientReadError(s)) /\ Held(s, ClientReadError(s))
    BY <1>1, <1>3, ErringIs, FailEnds DEF Out, UpOK, UpPhase
  <2>4. UpOK(Rollback(s, FALSE)) /\ Held(s, Rollback(s, FALSE))
    <3> DEFINE r == Rollback(s, FALSE)
    <3>1. RolledBack(s, r)
      BY <1>1, <1>3, RollbackEnds
    <3> HIDE DEF r
    <3>2. CASE r.phase = "cleanup"
      BY <3>1, <3>2 DEF RolledBack, UpOK, UpPhase, r
    <3>3. CASE r.phase # "cleanup"
      <4>1. /\ UpKept(s, r, {"timer", "ignore", "paused", "scheduled", "error", "aborted"})
            /\ r.aborted = s.aborted
        BY <1>3, <3>1, <3>3 DEF RolledBack
      <4>2. Setup(r) /\ Early(r)
        BY <1>2, <4>1 DEF UpKept, UpFields, Setup, Early
      <4> QED
        BY <3>1, <4>2 DEF RolledBack, UpOK, UpPhase, r
    <3> QED
      BY <3>2, <3>3
  <2>5. PICK r : r \in {Rollback(s, FALSE), ClientReadError(s), StartCleanup(s)} /\ up' = r
    BY <2>1
  <2>6. UpOK(r) /\ Held(s, r)
    BY <2>2, <2>3, <2>4, <2>5
  <2>7. UpBounded(s) => UpBounded(r)
    BY <2>6, HeldIsStill, StillBounded
  <2> QED
    BY <2>5, <2>6, <2>7 DEF UpIInv
<1>5. CASE ~Interrupted(s)
  <2>1. up' = IF Size(t.kind) = 0 THEN NextTask(t) ELSE IF Pending(t) = 0 THEN WriteObject(t)
              ELSE Resume(l, TRUE)
    BY <1>5 DEF SetupDone, InitiateDataStreaming
  <2>2. UpKept(s, t, {"phase"}) /\ t.phase = "stream"
    BY <1>1 DEF UpKept, IsUp, UpFields
  <2>3. Interrupted(t) = Interrupted(s)
    BY <2>2 DEF UpKept, UpFields, Interrupted, Stopping
  <2> HIDE DEF t
  <2>4. UpKept(s, l, {"phase", "listener"}) /\ l.phase = "stream" /\ l.listener
    BY <2>2 DEF UpKept, IsUp, UpFields
  <2> HIDE DEF l
  <2>5. ASSUME NEW u, UpKept(s, u, {"phase", "listener"}), u.phase = "stream"
        PROVE  /\ UpBase(u) /\ Given(u) /\ Early(u) /\ ~u.authFailed /\ ~u.writeFailed
               /\ ~u.writeCompleted /\ u.auth = "init" /\ ~u.writing /\ u.written = 0
               /\ u.kind = s.kind
    <3>1. Calm(s, u)
      BY <2>5 DEF UpKept, UpFields, Calm, CoreFields
    <3>2. UpCore(u) /\ (Whole(u) <=> Whole(s)) /\ (Good(u) <=> Good(s)) /\ u.saved = s.saved
      BY <1>1, <3>1, CoreStays
    <3>3. UpMarks(u)
      BY <1>1, <1>3, <2>5, <3>2 DEF UpKept, UpFields, UpMarks
    <3>4. /\ Early(u) /\ ~u.authFailed /\ ~u.writeFailed /\ ~u.writeCompleted /\ u.auth = "init"
          /\ ~u.writing /\ u.written = 0 /\ ~u.aborted /\ ~u.authCompleted /\ u.kind = s.kind
      BY <1>2, <2>5 DEF UpKept, UpFields, Setup, Early
    <3> QED
      BY <2>5, <3>2, <3>3, <3>4 DEF UpBase, Given
  <2>6. UpKept(s, t, {"phase", "listener"})
    BY <2>2 DEF UpKept
  <2>7. /\ UpBase(t) /\ Given(t) /\ Early(t) /\ ~t.authFailed /\ ~t.writeFailed
        /\ ~t.writeCompleted /\ t.auth = "init" /\ ~t.writing /\ t.written = 0 /\ t.kind = s.kind
    BY <2>2, <2>5, <2>6
  <2>8. UpBounded(s) => UpBounded(t)
    <3>1. Still(s, t)
      BY <2>2 DEF UpKept, UpFields, Still
    <3> QED
      BY <3>1, StillBounded
  <2>9. UpOK(WriteObject(t)) /\ (UpBounded(s) /\ Pending(t) = 0 => UpBounded(WriteObject(t)))
    <3> DEFINE w == WriteObject(t)
    <3>1. UpOK(w)
      BY <2>7, GoingWrites DEF Going
    <3>2. UpKept(w, w, {"timer", "paused"})
      BY <3>1 DEF UpOK, UpBase, UpCore, UpKept
    <3>3. Pending(t) = 0 => Received(t) = Size(t.kind)
      <4>1. t.kind \in Kind /\ t.pos \in 0 .. Len(Wire[t.kind])
        BY <2>7 DEF UpBase, UpCore, UpNumbers
      <4> QED
        BY <4>1, UpCounts DEF Pending
    <3>4. UpBounded(s) /\ Pending(t) = 0 => t.frozen
      BY <2>8, <3>3 DEF UpBounded
    <3>5. UpBounded(s) /\ Pending(t) = 0 => UpBounded(w)
      BY <2>7, <2>8, <3>2, <3>4, WriteMakesRoom
    <3> QED
      BY <3>1, <3>5
  <2>10. UpOK(Resume(l, TRUE)) /\ (UpBounded(s) => UpBounded(Resume(l, TRUE)))
    <3>1. UpOK(l) /\ ~l.writeFailed
      BY <2>4, <2>5 DEF UpOK, UpPhase, Streaming
    <3>2. UpKept(l, Resume(l, TRUE), {"timer", "paused"})
      BY <2>4, ResumeIs DEF UpKept
    <3>3. UpOK(Resume(l, TRUE))
      BY <3>1, <3>2, PauseStays
    <3> DEFINE r == Resume(l, TRUE)
    <3> HIDE DEF r
    <3>4. /\ r.kind = s.kind /\ r.pos = s.pos /\ r.taken = s.taken /\ r.frozen = s.frozen
          /\ r.writing = s.writing /\ r.listener
      BY <2>4, <3>2 DEF UpKept, UpFields, r
    <3>5. Received(r) = Received(s) /\ Buffered(r) = Buffered(s)
      BY <3>4 DEF Received, Buffered
    <3>6. UpBounded(s) => UpBounded(r)
      BY <1>2, <3>4, <3>5 DEF UpBounded, Setup
    <3> QED
      BY <3>3, <3>6 DEF r
  <2>11. ASSUME Size(t.kind) = 0
         PROVE  UpOK(NextTask(t)) /\ (UpBounded(s) => UpBounded(NextTask(t)))
    <3>1. ~IsChunked(t.kind)
      <4>1. t.kind \in Kind /\ (IsChunked(t.kind) => Size(t.kind) > 0)
        BY <1>1, <2>7, Zenon DEF Bodies, UpCore
      <4> QED
        BY <2>11, <4>1
    <3>2. Whole(t) /\ ~Stopping(t)
      BY <1>5, <2>3, <2>7, <2>11, <3>1 DEF Whole, Interrupted
    <3>3. /\ UpBase(NextTask(t)) /\ (NextTask(t).phase = "cleanup" \/ Saving(NextTask(t)))
          /\ Held(t, NextTask(t))
      BY <2>2, <2>7, <3>2, NextTaskIs DEF Early
    <3>4. UpBounded(s) => UpBounded(NextTask(t))
      BY <2>8, <3>3, HeldIsStill, StillBounded
    <3> QED
      BY <3>3, <3>4 DEF UpOK, UpPhase
  <2>12. PICK r : r = (IF Size(t.kind) = 0 THEN NextTask(t) ELSE IF Pending(t) = 0 THEN WriteObject(t)
                       ELSE Resume(l, TRUE)) /\ up' = r
    BY <2>1
  <2>13. UpOK(r) /\ (UpBounded(s) => UpBounded(r))
    BY <2>9, <2>10, <2>11, <2>12
  <2> QED
    BY <2>12, <2>13 DEF UpIInv
<1> QED
  BY <1>4, <1>5

\* The end of a save changes no data; only a save that succeeds is marked.
LEMMA SaveIsOver ==
    ASSUME NEW s, NEW u, UpOK(s), s.saving, UpKept(s, u, {"saving", "state", "saved"}), ~u.saving
    PROVE  /\ UpBase(u) /\ u.phase = s.phase /\ IsUp(u) /\ u.error = s.error /\ Still(s, u)
           /\ s.phase = "cleanup" => s.error
           /\ s.phase # "cleanup" => s.phase = "save" /\ ~Stopping(u) /\ u.auth # "started"
<1>1. UpCore(s) /\ UpMarks(s) /\ UpNumbers(s)
  BY DEF UpOK, UpBase, UpCore
<1>2. Whole(s) /\ s.saved = "no" /\ (Saving(s) \/ s.phase = "cleanup") /\ (s.phase = "save" \/ s.error)
  BY <1>1 DEF UpOK, UpPhase, Early, UpMarks
<1>3. /\ u.kind = s.kind /\ u.pos = s.pos /\ u.taken = s.taken /\ u.written = s.written
      /\ u.writing = s.writing /\ u.inProgress = s.inProgress /\ u.frozen = s.frozen
      /\ u.readError = s.readError /\ u.auth = s.auth /\ u.sent = s.sent /\ u.asked = s.asked
      /\ u.checked = s.checked /\ u.authFailed = s.authFailed /\ IsUp(u) /\ u.phase = s.phase
      /\ u.asserts = s.asserts /\ u.error = s.error /\ u.aborted = s.aborted
      /\ u.replies = s.replies /\ u.writeFailed = s.writeFailed
  BY DEF UpKept, UpFields
<1>4. Received(u) = Received(s) /\ Parsed(u) = Parsed(s) /\ Due(u) = Due(s)
  BY <1>3 DEF Received, Parsed, Due
<1>5. UpNumbers(u)
  BY <1>1, <1>3, <1>4 DEF UpNumbers
<1>6. UpCore(u) /\ Whole(u)
  BY <1>1, <1>2, <1>3, <1>5 DEF UpCore, Whole
<1>7. Good(s) => Good(u)
  BY <1>2, <1>3 DEF Good, Misled, WritesNothing, MayHappen
<1>8. UpMarks(u)
  BY <1>1, <1>3, <1>6, <1>7 DEF UpMarks
<1>9. s.phase # "cleanup" => s.phase = "save" /\ ~Stopping(u) /\ u.auth # "started"
  BY <1>2 DEF UpKept, UpFields, Saving, Stopping
<1>10. Still(s, u)
  BY DEF UpKept, UpFields, Still
<1> QED
  BY <1>2, <1>3, <1>6, <1>8, <1>9, <1>10 DEF UpBase

\* save_object_metadata_failed: the error is answered; that of a chunked object
\* may go unnoticed, and then an assertion fails, or the client is misled.
LEMMA SaveFails ==
    ASSUME NEW s, UpOK(s), s.saving, NEW r,
           \/ r = Fail(SaveHasFailed(s))
           \/ s.kind = "chunked" /\ r = SendResponse(SaveHasFailed(s))
    PROVE  UpOK(r) /\ Still(s, r)
<1> DEFINE b == SaveHasFailed(s)
<1>1. IsUp(s)
  BY DEF UpOK, UpBase, UpCore
<1>2. /\ UpKept(s, b, {"saving", "state", "saved"}) /\ ~b.saving /\ b.saved = "failed"
      /\ b.state = "metadataSaveFailed"
  BY <1>1 DEF SaveHasFailed, UpKept, IsUp, UpFields
<1>3. r = Fail(b) \/ (s.kind = "chunked" /\ r = SendResponse(b))
  OBVIOUS
<1> HIDE DEF b
<1>4. /\ UpBase(b) /\ b.phase = s.phase /\ IsUp(b) /\ b.error = s.error /\ Still(s, b)
      /\ s.phase = "cleanup" => s.error
      /\ s.phase # "cleanup" => s.phase = "save" /\ ~Stopping(b) /\ b.auth # "started"
  BY <1>2, SaveIsOver
<1>5. UpBase(Erring(b))
  BY <1>4, ErringIs
<1>6. CASE s.phase = "cleanup"
  <2>1. Mid(b) /\ MayWait(b) /\ b.error
    BY <1>4, <1>6 DEF Mid, MayWait
  <2>2. /\ UpOK(Fail(b)) /\ Held(b, Fail(b))
        /\ UpOK(SendResponse(b)) /\ Held(b, SendResponse(b))
    BY <1>4, <1>5, <2>1, MidFail, MidSend
  <2> QED
    BY <1>3, <1>4, <2>2, HeldIsStill, StillAgain
<1>7. CASE s.phase # "cleanup" /\ r = Fail(b)
  <2>1. Out(b, Fail(b))
    BY <1>4, <1>5, FailEnds
  <2>2. UpOK(Fail(b)) /\ Held(b, Fail(b))
    BY <1>4, <1>7, <2>1 DEF Out, WaitsForAuth, UpOK, UpPhase
  <2> QED
    BY <1>4, <1>7, <2>2, HeldIsStill, StillAgain
<1>8. CASE s.phase # "cleanup" /\ s.kind = "chunked" /\ r = SendResponse(b)
  <2>1. b.kind = "chunked"
    BY <1>2, <1>8 DEF UpKept, UpFields
  <2>2. CASE b.error \/ ~b.asserts
    <3>1. b.error \/ Good(b)
      BY <1>2, <2>1, <2>2 DEF Good, Misled
    <3>2. Out(b, SendResponse(b))
      BY <1>2, <1>4, <3>1, SendResponseEnds
    <3>3. UpOK(r) /\ Held(b, r)
      BY <1>4, <1>8, <3>2 DEF Out, WaitsForAuth, UpOK, UpPhase
    <3> QED
      BY <1>4, <3>3, HeldIsStill, StillAgain
  <2>3. CASE ~b.error /\ b.asserts
    <3>1. r = UploadCrashes(b)
      BY <1>2, <1>4, <1>8, <2>1, <2>3
         DEF SendResponse, ChunkedResponse, WaitsForAuth, ObjectResponse, OutcomeIsExpected
    <3>2. UpOK(r) /\ Held(b, r)
      BY <1>2, <1>4, <3>1, CrashEnds DEF UpOK, UpPhase
    <3> QED
      BY <1>4, <3>2, HeldIsStill, StillAgain
  <2> QED
    BY <2>2, <2>3
<1> QED
  BY <1>3, <1>6, <1>7, <1>8

\* The save of the metadata ends, with success or not.
LEMMA SaveIs ==
    ASSUME Bodies, UpIInv, SaveEnds
    PROVE  UpIInv' /\ Still(up, up')
<1> DEFINE s == up
           a == [s EXCEPT !.saving = FALSE, !.state = "metadataSaved", !.saved = "yes"]
<1>1. UpOK(s) /\ IsUp(s) /\ s.saving
  BY DEF UpIInv, UpOK, UpBase, UpCore, SaveEnds
<1>2. PICK r : /\ up' = r
               /\ \/ r = NextTask(a)
                  \/ r = Fail(SaveHasFailed(s))
                  \/ s.kind = "chunked" /\ r = SendResponse(SaveHasFailed(s))
  BY DEF SaveEnds
<1>3. UpKept(s, a, {"saving", "state", "saved"}) /\ ~a.saving /\ a.saved = "yes"
  BY <1>1 DEF UpKept, IsUp, UpFields
<1> HIDE DEF a
<1>4. UpOK(NextTask(a)) /\ Still(s, NextTask(a))
  <2>1. /\ UpBase(a) /\ a.phase = s.phase /\ Still(s, a)
        /\ s.phase # "cleanup" => s.phase = "save" /\ ~Stopping(a) /\ a.auth # "started"
    BY <1>1, <1>3, SaveIsOver
  <2>2. /\ UpBase(NextTask(a)) /\ (NextTask(a).phase = "cleanup" \/ Saving(NextTask(a)))
        /\ Held(a, NextTask(a))
    BY <1>3, <2>1, NextTaskIs
  <2> QED
    BY <2>1, <2>2, HeldIsStill, StillAgain DEF UpOK, UpPhase
<1>5. UpOK(r) /\ Still(s, r)
  BY <1>1, <1>2, <1>4, SaveFails
<1> QED
  BY <1>2, <1>5 DEF UpIInv

\* An operation of the clean up ends.
LEMMA CleanupIs ==
    ASSUME Bodies, UpIInv, CleanupEnds
    PROVE  UpIInv' /\ Still(up, up')
<1> DEFINE n == up.ops - 1
           t == [up EXCEPT !.ops = n]
<1>1. UpOK(up) /\ UpBase(up) /\ IsUp(up) /\ up.ops > 0 /\ up' = NextTask(t)
  BY DEF UpIInv, UpOK, UpBase, UpCore, CleanupEnds
<1>2. up.phase = "cleanup"
  BY <1>1 DEF UpOK, UpPhase, Early, Saving
<1> HIDE DEF n
<1>3. UpKept(up, t, {"ops"})
  BY <1>1 DEF UpKept, IsUp, UpFields
<1> HIDE DEF t
<1>4. /\ Held(up, t) /\ t.phase = "cleanup" /\ t.saving = up.saving /\ t.aborted = up.aborted
      /\ t.error = up.error /\ t.replies = up.replies
  BY <1>2, <1>3 DEF UpKept, UpFields, Held, Calm, CoreFields
<1>5. UpBase(t) /\ Mid(t)
  BY <1>1, <1>2, <1>4, MidSaves, EndsWell DEF Mid
<1>6. /\ UpBase(NextTask(t)) /\ (NextTask(t).phase = "cleanup" \/ Saving(NextTask(t)))
      /\ Held(t, NextTask(t))
  BY <1>4, <1>5, MidSaves, NextTaskIs
<1>7. Still(up, NextTask(t))
  BY <1>4, <1>6, HeldIsStill, StillAgain
<1> QED
  BY <1>1, <1>6, <1>7 DEF UpIInv, UpOK, UpPhase

\* The client leaves, the request ends, the server begins to shut down.
LEMMA LeaveIs ==
    ASSUME UpIInv, ClientLeaves \/ RequestEnds \/ ShutdownBegins
    PROVE  UpIInv' /\ Still(up, up')
<1> DEFINE C == {"connected", "timer", "shutdown"}
<1>1. UpOK(up) /\ UpBase(up) /\ IsUp(up)
  BY DEF UpIInv, UpOK, UpBase, UpCore
<1>2. /\ UpKept(up, [up EXCEPT !.connected = FALSE, !.timer = FALSE], C)
      /\ ~[up EXCEPT !.connected = FALSE, !.timer = FALSE].connected
      /\ [up EXCEPT !.connected = FALSE, !.timer = FALSE].shutdown = up.shutdown
  BY <1>1 DEF UpKept, IsUp, UpFields
<1>3. /\ UpKept(up, [up EXCEPT !.shutdown = TRUE], C) /\ [up EXCEPT !.shutdown = TRUE].shutdown
      /\ [up EXCEPT !.shutdown = TRUE].connected = up.connected
  BY <1>1 DEF UpKept, IsUp, UpFields
<1>4. /\ UpKept(up, up', C) /\ (up.shutdown => up'.shutdown) /\ (~up.connected => ~up'.connected)
  BY <1>2, <1>3 DEF ClientLeaves, RequestEnds, ShutdownBegins, ClientHasDisconnected
<1> DEFINE t == up'
<1> HIDE DEF t
<1>5. UpKept(up, t, C) /\ (up.shutdown => t.shutdown) /\ (~up.connected => ~t.connected)
  BY <1>4 DEF t
<1>6. /\ Calm(up, t) /\ t.phase = up.phase /\ t.saving = up.saving /\ t.replies = up.replies
      /\ t.aborted = up.aborted /\ t.error = up.error /\ t.authFailed = up.authFailed
      /\ t.writeFailed = up.writeFailed
  BY <1>5 DEF UpKept, UpFields, Calm, CoreFields
<1>7. UpCore(t) /\ (Whole(t) <=> Whole(up)) /\ (Good(t) <=> Good(up)) /\ t.saved = up.saved
  BY <1>1, <1>6, CoreStays DEF UpBase
<1>8. UpBase(t)
  BY <1>1, <1>6, <1>7 DEF UpBase, UpMarks
<1>9. ASSUME Setup(up) PROVE Setup(t)
  BY <1>5, <1>9 DEF UpKept, UpFields, Setup
<1>10. ASSUME Streaming(up) PROVE Streaming(t)
  BY <1>5, <1>10 DEF UpKept, UpFields, Streaming, Given
<1>11. Early(up) => Early(t)
  BY <1>5 DEF UpKept, UpFields, Early
<1>12. Saving(up) => Saving(t)
  BY <1>5 DEF UpKept, UpFields, Saving
<1>13. UpOK(t)
  BY <1>1, <1>6, <1>8, <1>9, <1>10, <1>11, <1>12 DEF UpOK, UpPhase
<1>14. Still(up, t)
  BY <1>5 DEF UpKept, UpFields, Still
<1> QED
  BY <1>13, <1>14 DEF UpIInv, t

\* A new upload has nothing buffered, written or asked.
LEMMA UploadBegins ==
    ASSUME Bodies, UpInit
    PROVE  UpBoundIInv
<1>1. PICK k \in Kind, b \in BOOLEAN, d \in BOOLEAN : up = NewUpload(k, b, d)
  BY DEF UpInit
<1> DEFINE z == (Size(k) = 0)
           y == (Size(k) > 0)
           l == Len(Wire[k])
<1>2. /\ l \in Nat /\ (IsChunked(k) => Size(k) > 0)
      /\ ~IsChunked(k) => \A i \in 1 .. l : Wire[k][i] = "data"
  <2>1. /\ Wire[k] \in Seq({"data", "sig"}) /\ (IsChunked(k) => Size(k) > 0)
        /\ ~IsChunked(k) => \A i \in 1 .. l : Wire[k][i] = "data"
    BY Zenon DEF Bodies
  <2>2. l \in Nat
    BY <2>1
  <2> QED
    BY <2>1, <2>2
<1>3. Size(k) \in Nat /\ CountOf(k, 0, "data") = 0 /\ CountOf(k, 0, "sig") = 0
  <2>1. Size(k) \in Nat
    BY <1>2, CountIsNat DEF Size
  <2>2. ASSUME NEW sort PROVE CountOf(k, 0, sort) = 0
    <3>1. {i \in 1 .. 0 : Wire[k][i] = sort} = {}
      OBVIOUS
    <3> QED
      BY <3>1, FS_EmptySet DEF CountOf
  <2> QED
    BY <2>1, <2>2
<1>4. Size(k) = 0 => l = 0
  BY <1>2, CountOfData DEF Size
<1> HIDE DEF z, y, l
<1>5. /\ IsUp(up) /\ up.kind = k /\ up.phase = "setup" /\ up.state = "newObjOidCreated"
      /\ ~up.error /\ up.pos = 0 /\ up.taken = 0 /\ up.written = 0 /\ ~up.writing
      /\ ~up.inProgress /\ (up.frozen <=> z) /\ up.readError = "none" /\ ~up.listener
      /\ up.auth = "init" /\ up.sent = 0 /\ up.asked = 0 /\ up.checked = 0 /\ ~up.aborted
      /\ ~up.authInProgress /\ ~up.authCompleted /\ ~up.authFailed /\ ~up.writeFailed
      /\ ~up.writeCompleted /\ ~up.saving /\ up.replies = 0 /\ up.ops = 0 /\ up.checksShutdown
      /\ up.saved = "no" /\ ~up.crashed /\ ~up.gone
  BY <1>1 DEF NewUpload, IsUp, UpFields, z
<1>6. Received(up) = 0 /\ Parsed(up) = 0 /\ Due(up) = 0
  BY <1>3, <1>5 DEF Received, Parsed, Due
<1>7. UpNumbers(up)
  BY <1>2, <1>3, <1>4, <1>5, <1>6 DEF UpNumbers, z, l
<1>8. UpBase(up)
  BY <1>1, <1>5, <1>7 DEF UpBase, UpCore, UpMarks
<1>9. Setup(up) /\ Early(up)
  BY <1>5 DEF Setup, Early
<1>10. UpBounded(up)
  <2>1. Buffered(up) = 0 /\ up.kind = k /\ (Size(k) = 0 => up.frozen)
    BY <1>5, <1>6 DEF Buffered, z
  <2>2. /\ Buffered(up) < Limit + MaxRead /\ Buffered(up) < Limit
        /\ Buffered(up) <= MaxRead
    BY <2>1, LimitIs, PayloadAssumption
  <2>3. Received(up) = Size(up.kind) => up.frozen
    BY <1>6, <2>1
  <2> QED
    BY <1>5, <2>1, <2>2, <2>3 DEF UpBounded
<1> QED
  BY <1>8, <1>9, <1>10 DEF UpBoundIInv, UpIInv, UpOK, UpPhase

\* Every step of an upload keeps the invariant.
LEMMA UploadSteps ==
    ASSUME Bodies, UpBoundIInv, [UpNext]_up
    PROVE  UpBoundIInv'
<1> USE DEF UpBoundIInv
<1>1. CASE SetupDone
  BY <1>1, SetupIs
<1>2. CASE Arrive
  BY <1>2, ArriveIs
<1>3. CASE ReadTimeout
  BY <1>3, TimeoutIs
<1>4. CASE WriteEnds
  <2>1. UpOK(up) /\ up.writing
    BY <1>4 DEF WriteEnds, UpIInv
  <2>2. PICK r : /\ up' = r
                 /\ \/ \E low \in Chance(up, "memory") : r = WriteObjectSuccessful(up, low)
                    \/ r = WriteObjectFailed(up)
    BY <1>4 DEF WriteEnds
  <2>3. UpOK(r) /\ UpBounded(r)
    BY <2>1, <2>2, WriteSucceeds, WriteFails, StillBounded
  <2> QED
    BY <2>2, <2>3 DEF UpIInv
<1>5. CASE AuthAnswers
  <2> DEFINE t == Confirmed(up)
  <2>1. UpOK(up) /\ up.auth = "started"
    BY <1>5 DEF AuthAnswers, UpIInv
  <2>2. PICK r : /\ up' = r
                 /\ \/ r = IF CycleEnds(t) THEN ChunkAuthSuccessful(t) ELSE NextChunk(t)
                    \/ r = ChunkAuthFailed(up)
    BY <1>5 DEF AuthAnswers
  <2>3. UpOK(r) /\ Still(up, r)
    BY <2>1, <2>2, AuthSucceeds, AuthFails
  <2>4. UpBounded(r)
    BY <2>3, StillBounded
  <2> QED
    BY <2>2, <2>3, <2>4 DEF UpIInv
<1>6. CASE SaveEnds \/ CleanupEnds \/ ClientLeaves \/ RequestEnds \/ ShutdownBegins
  <2>1. UpIInv' /\ Still(up, up')
    BY <1>6, SaveIs, CleanupIs, LeaveIs
  <2>2. PICK r : r = up'
    OBVIOUS
  <2>3. UpBounded(r)
    BY <2>1, <2>2, StillBounded
  <2> QED
    BY <2>1, <2>2, <2>3
<1>7. CASE UNCHANGED up
  BY <1>7 DEF UpIInv
<1> QED
  BY <1>1, <1>2, <1>3, <1>4, <1>5, <1>6, <1>7 DEF UpNext

-----------------------------------------------------------------------------
(* The theorems.                                                           *)

\* Whatever fails and whenever, what is confirmed was asked and what is written
\* was received, an upload that was given up is not saved, no event of the
\* stream comes while the metadata is saved, and reading goes on only while
\* there is room.
THEOREM UploadInvariantHolds == Bodies /\ UpSpec => []UpBoundIInv
<1> SUFFICES ASSUME Bodies PROVE UpSpec => []UpBoundIInv
  OBVIOUS
<1>1. UpInit => UpBoundIInv
  BY UploadBegins
<1>2. UpBoundIInv /\ [UpNext]_up => UpBoundIInv'
  BY UploadSteps
<1> QED
  BY <1>1, <1>2, PTL DEF UpSpec

\* Metadata is saved only of an upload whose data is all in Motr and whose
\* chunks the authentication server has all confirmed, and the client is told of
\* a success only after a save that succeeded, but for the client that the code
\* misleads in a build without assertions.
THEOREM SavedIsAlwaysWhole == Bodies /\ UpSpec => []SavedIsWhole
<1>1. UpIInv => SavedIsWhole
  <2> SUFFICES ASSUME UpIInv PROVE SavedIsWhole
    OBVIOUS
  <2>1. UpMarks(up)
    BY DEF UpIInv, UpOK, UpBase
  <2> QED
    BY <2>1 DEF UpMarks, SavedIsWhole, Whole, Good
<1>2. UpBoundIInv => UpIInv
  BY DEF UpBoundIInv
<1> QED
  BY <1>1, <1>2, UploadInvariantHolds, PTL

\* However fast the client sends and however slow Motr is, what waits for a
\* write stays within the read ahead and one read.
THEOREM InputIsAlwaysBounded == Bodies /\ UpSpec => []InputIsBounded
<1>1. UpBoundIInv => InputIsBounded
  BY DEF UpBoundIInv, UpBounded, InputIsBounded, Limit
<1> QED
  BY <1>1, UploadInvariantHolds, PTL

-----------------------------------------------------------------------------
(* What is under way when an upload is gone.                               *)

\* A body without signatures is not read so slowly that its read timer runs out
\* during a write, and memory for a signed body does not run short: either ends
\* the action at once, while a write or a question is under way.
InTime ==
    /\ <<"object", "slow">> \notin Fault
    /\ \A k \in Kind : IsChunked(k) => <<k, "memory">> \notin Fault

\* No write, no question to the authentication server and no save is under way.
Rest(s) == ~s.writing /\ s.auth # "started" /\ ~s.saving

\* Once the clean up has begun: the server shuts down and keeps the action for as
\* long as an operation of it runs, or only a clean up task is under way and
\* nobody reads any more, or a failed assertion has ended the server.
Ended(s) ==
    \/ s.crashed /\ s.gone
    \/ Stopping(s) /\ s.scheduled
    \/ Rest(s) /\ s.ops \in {0, 1} /\ ~s.timer /\ (s.ignore \/ ~s.connected)

\* What reading may still bring: a timer runs only while data is expected, and
\* a question is noted as long as it is under way.
Inputs(s) ==
    /\ s.auth = "started" => s.authInProgress
    /\ s.timer => ~s.frozen /\ s.readError = "none" /\ s.connected
    /\ \/ s.readError \in {"none", "RequestTimeout"}
       \/ s.readError = "ServiceUnavailable" /\ s.ignore /\ ~IsChunked(s.kind)
    /\ ~IsChunked(s.kind) => s.auth = "init"

\* The inductive invariant: a gone action is one whose clean up has come to its
\* end, unless the server has crashed.
UpIdle(s) ==
    /\ Inputs(s)
    /\ s.phase = "stream" /\ s.writeCompleted => ~s.writing
    /\ s.phase = "cleanup" => Ended(s)
    /\ s.gone => s.phase = "cleanup" /\ (s.crashed \/ (Rest(s) /\ s.ops = 0))

\* A failed assertion leaves no action to call back.
LEMMA CrashIsIdle ==
    ASSUME NEW s, IsUp(s), UpIdle(s)
    PROVE  LET t == UploadCrashes(s)
           IN  UpIdle(t) /\ IsUp(t) /\ t.crashed /\ t.gone
<1> DEFINE t == UploadCrashes(s)
<1>1. UpKept(s, t, {"phase", "gone", "crashed"}) /\ t.phase = "cleanup" /\ t.gone /\ t.crashed
  BY CrashIs
<1> HIDE DEF t
<1>2. UpIdle(t) /\ IsUp(t)
  BY <1>1 DEF UpKept, UpFields, UpIdle, Inputs, Ended
<1> QED
  BY <1>1, <1>2 DEF t

\* An action that may answer now: the server stops it, or it has nothing under
\* way but a question to the authentication server.
Loose(s) == Stopping(s) \/ (~s.writing /\ ~s.saving /\ s.ops = 0)

\* startcleanup: from an action with nothing under way, or one the server stops.
LEMMA CleanupStarts ==
    ASSUME NEW s, IsUp(s), UpIdle(s), ~s.gone,
           Stopping(s) \/ (Rest(s) /\ s.ops = 0 /\ ~s.timer /\ (s.ignore \/ ~s.connected))
    PROVE  UpIdle(StartCleanup(s)) /\ IsUp(StartCleanup(s))
<1> DEFINE t == [s EXCEPT !.phase = "cleanup", !.task = 0]
           e == (t.error \/ ~t.scheduled)
           n == IF t.connected /\ ~t.scheduled THEN t.replies + 1 ELSE t.replies
           m == t.ops + 1
           u == [t EXCEPT !.scheduled = TRUE, !.error = e, !.replies = n]
           v == [t EXCEPT !.ops = m, !.task = 1]
<1>1. StartCleanup(s) = IF t.state \notin Undoable(t.kind) /\ t.asserts THEN UploadCrashes(t)
                        ELSE IF t.shutdown /\ t.checksShutdown THEN u
                        ELSE IF t.state \notin Undoable(t.kind) THEN t ELSE v
  BY DEF StartCleanup
<1>2. UpKept(s, t, {"phase", "task"}) /\ t.phase = "cleanup"
  BY DEF UpKept, IsUp, UpFields
<1> HIDE DEF t, e, n
<1>3. UpKept(t, u, {"scheduled", "error", "replies"}) /\ u.scheduled
  BY <1>2 DEF UpKept, IsUp, UpFields
<1>4. s.ops = 0 => m = 1
  BY <1>2 DEF UpKept, UpFields
<1> HIDE DEF m
<1>5. UpKept(t, v, {"ops", "task"}) /\ v.ops = m
  BY <1>2 DEF UpKept, IsUp, UpFields
<1> HIDE DEF u, v
<1>6. ASSUME NEW w, UpKept(s, w, {"phase", "task", "scheduled", "error", "replies", "ops"}),
             w.phase = "cleanup", Ended(w)
      PROVE  UpIdle(w)
  <2>1. Inputs(w)
    BY <1>6 DEF UpKept, UpFields, UpIdle, Inputs
  <2>2. ~w.gone
    BY <1>6 DEF UpKept, UpFields
  <2> QED
    BY <1>6, <2>1, <2>2 DEF UpIdle
<1>0. UpIdle(UploadCrashes(t)) /\ IsUp(UploadCrashes(t))
  <2> DEFINE w == UploadCrashes(t)
  <2>1. UpKept(t, w, {"phase", "gone", "crashed"}) /\ w.phase = "cleanup" /\ w.gone /\ w.crashed
    BY <1>2, CrashIs DEF UpKept
  <2> HIDE DEF w
  <2>2. UpKept(s, w, {"phase", "task", "gone", "crashed"})
    BY <1>2, <2>1 DEF UpKept
  <2>3. UpIdle(w) /\ IsUp(w)
    BY <2>1, <2>2 DEF UpKept, UpFields, UpIdle, Inputs, Ended
  <2> QED
    BY <2>3 DEF w
<1>7. CASE t.shutdown /\ t.checksShutdown
  <2>1. UpKept(s, u, {"phase", "task", "scheduled", "error", "replies", "ops"})
    BY <1>2, <1>3 DEF UpKept
  <2>2. u.phase = "cleanup" /\ Ended(u)
    BY <1>2, <1>3, <1>7 DEF UpKept, UpFields, Ended, Stopping
  <2> QED
    BY <1>0, <1>1, <1>6, <1>7, <2>1, <2>2 DEF UpKept
<1>8. CASE ~(t.shutdown /\ t.checksShutdown)
  <2>1. ~Stopping(s)
    BY <1>2, <1>8 DEF UpKept, UpFields, Stopping
  <2>2. /\ UpKept(s, t, {"phase", "task", "scheduled", "error", "replies", "ops"})
        /\ UpKept(s, v, {"phase", "task", "scheduled", "error", "replies", "ops"})
    BY <1>2, <1>5 DEF UpKept
  <2>3. t.phase = "cleanup" /\ Ended(t)
    BY <1>2, <2>1 DEF UpKept, UpFields, Ended, Rest
  <2>4. v.phase = "cleanup" /\ Ended(v)
    BY <1>2, <1>4, <1>5, <2>1 DEF UpKept, UpFields, Ended, Rest
  <2> QED
    BY <1>0, <1>1, <1>6, <1>8, <2>2, <2>3, <2>4 DEF UpKept
<1> QED
  BY <1>7, <1>8

\* What the answer and the noting of an error, of the outcome or of a shutdown leave.
NoteFields == {"replies", "state", "error", "aborted", "scheduled"}

\* They start and end no operation.
LEMMA NoteIsIdle ==
    ASSUME NEW s, NEW t, UpIdle(s), UpKept(s, t, NoteFields), s.scheduled => t.scheduled
    PROVE  UpIdle(t) /\ (Loose(s) => Loose(t)) /\ (s.gone = t.gone) /\ (Stopping(s) <=> Stopping(t))
  BY DEF UpKept, UpFields, NoteFields, UpIdle, Inputs, Ended, Rest, Loose, Stopping

\* The answer ends the reading before the clean up begins.
LEMMA ReplyIsIdle ==
    ASSUME NEW s, IsUp(s), UpIdle(s), ~s.gone, Stopping(s) \/ (Rest(s) /\ s.ops = 0)
    PROVE  UpIdle(Reply(s)) /\ IsUp(Reply(s))
<1> DEFINE n == s.replies + (IF s.connected THEN 1 ELSE 0)
           a == [s EXCEPT !.replies = n]
           b == StopProcessingIncomingData(a)
           c == Resume(b, FALSE)
<1>1. Reply(s) = StartCleanup(c)
  BY DEF Reply
<1> HIDE DEF n
<1>2. UpKept(s, a, {"replies"})
  BY DEF UpKept, IsUp, UpFields
<1> HIDE DEF a
<1>3. UpKept(a, b, {"timer", "ignore"}) /\ b.ignore /\ ~b.timer
  BY <1>2 DEF StopProcessingIncomingData, UpKept, IsUp, UpFields
<1> HIDE DEF b
<1>4. UpKept(b, c, {"timer", "paused"}) /\ ~c.timer
  <2>1. UpKept(b, [b EXCEPT !.paused = FALSE, !.timer = FALSE], {"timer", "paused"})
        /\ ~[b EXCEPT !.paused = FALSE, !.timer = FALSE].timer /\ UpKept(b, b, {"timer", "paused"})
    BY <1>3 DEF UpKept, IsUp, UpFields
  <2> QED
    BY <1>3, <2>1 DEF Resume
<1> HIDE DEF c
<1>5. UpKept(s, c, {"replies", "timer", "ignore", "paused"}) /\ c.ignore /\ ~c.timer
  BY <1>2, <1>3, <1>4 DEF UpKept, UpFields
<1>6. UpIdle(c)
  BY <1>5 DEF UpKept, UpFields, UpIdle, Inputs, Ended, Rest, Stopping
<1>7. /\ ~c.gone /\ IsUp(c)
      /\ Stopping(c) \/ (Rest(c) /\ c.ops = 0)
  BY <1>5 DEF UpKept, UpFields, Rest, Stopping
<1> QED
  BY <1>1, <1>5, <1>6, <1>7, CleanupStarts

\* send_response_to_s3_client: a signed upload waits for the question that is
\* under way.
LEMMA SendIsIdle ==
    ASSUME NEW s, IsUp(s), UpIdle(s), ~s.gone, Loose(s)
    PROVE  UpIdle(SendResponse(s)) /\ IsUp(SendResponse(s))
<1> DEFINE st == IF s.error THEN s.state ELSE "completed"
           q == [s EXCEPT !.state = st]
           w == [s EXCEPT !.aborted = TRUE]
<1>1. /\ ObjectResponse(s) \in {Reply(q), UploadCrashes(s)}
      /\ PartResponse(s) = IF WaitsForAuth(s) THEN w ELSE Reply(s)
      /\ ChunkedResponse(s) = IF WaitsForAuth(s) THEN w ELSE ObjectResponse(s)
  BY DEF ObjectResponse, PartResponse, ChunkedResponse
<1>0. UpIdle(UploadCrashes(s)) /\ IsUp(UploadCrashes(s))
  BY CrashIsIdle
<1> HIDE DEF st
<1>2. UpKept(s, q, {"state"}) /\ UpKept(s, w, {"aborted"})
  BY DEF UpKept, IsUp, UpFields
<1> HIDE DEF q, w
<1>3. UpIdle(w) /\ UpIdle(q) /\ IsUp(w) /\ IsUp(q) /\ ~q.gone
  <2>1. UpKept(s, q, NoteFields) /\ UpKept(s, w, NoteFields) /\ q.scheduled = s.scheduled
        /\ w.scheduled = s.scheduled /\ IsUp(q) /\ IsUp(w)
    BY <1>2 DEF UpKept, UpFields, NoteFields
  <2> QED
    BY <2>1, NoteIsIdle
<1>4. s.auth = "started" => IsChunked(s.kind) /\ s.authInProgress
  BY DEF UpIdle, Inputs
<1>5. ASSUME ~WaitsForAuth(s) PROVE Stopping(s) \/ (Rest(s) /\ s.ops = 0)
  BY <1>4, <1>5 DEF WaitsForAuth, Loose, Rest
<1>6. ASSUME ~WaitsForAuth(s)
      PROVE  UpIdle(Reply(s)) /\ IsUp(Reply(s)) /\ UpIdle(Reply(q)) /\ IsUp(Reply(q))
  <2>1. Stopping(q) \/ (Rest(q) /\ q.ops = 0)
    BY <1>2, <1>5, <1>6 DEF UpKept, UpFields, Stopping, Rest
  <2> QED
    BY <1>3, <1>5, <1>6, <2>1, ReplyIsIdle
<1>7. s.kind = "object" => ~WaitsForAuth(s)
  BY <1>4 DEF WaitsForAuth, IsChunked
<1> QED
  BY <1>0, <1>1, <1>3, <1>6, <1>7 DEF SendResponse

\* An error is answered, and client_read_error gives up, only when nothing but a
\* question is under way.
LEMMA FailIsIdle ==
    ASSUME NEW s, IsUp(s), UpIdle(s), ~s.gone, Loose(s)
    PROVE  /\ UpIdle(Fail(s)) /\ IsUp(Fail(s))
           /\ s.readError # "none" => UpIdle(ClientReadError(s)) /\ IsUp(ClientReadError(s))
<1> DEFINE e == Erring(s)
<1>1. UpKept(s, e, NoteFields) /\ e.scheduled = s.scheduled /\ IsUp(e)
  BY DEF Erring, UpKept, IsUp, UpFields, NoteFields
<1>2. Fail(s) = SendResponse(e) /\ ClientReadError(s) = IF s.readError = "RequestTimeout" THEN Fail(s) ELSE StartCleanup(e)
  BY DEF Fail, ClientReadError, Erring
<1> HIDE DEF e
<1>3. UpIdle(e) /\ ~e.gone /\ Loose(e)
  BY <1>1, NoteIsIdle
<1>4. UpIdle(Fail(s)) /\ IsUp(Fail(s))
  BY <1>1, <1>2, <1>3, SendIsIdle
<1>5. ASSUME s.readError # "none", s.readError # "RequestTimeout"
      PROVE  UpIdle(StartCleanup(e)) /\ IsUp(StartCleanup(e))
  <2>1. s.ignore /\ s.auth = "init" /\ ~s.timer
    BY <1>5 DEF UpIdle, Inputs
  <2>2. e.ignore /\ e.auth = "init" /\ ~e.timer
    BY <1>1, <2>1 DEF UpKept, UpFields, NoteFields
  <2> QED
    BY <1>1, <1>3, <2>2, CleanupStarts DEF Loose, Rest
<1> QED
  BY <1>2, <1>4, <1>5

\* Pausing and ending the reading only stop the timer.
LEMMA PauseIsIdle ==
    ASSUME NEW s, NEW t, UpIdle(s), UpKept(s, t, {"timer", "paused", "ignore"}),
           t.timer => s.timer, s.ignore => t.ignore
    PROVE  UpIdle(t) /\ (Loose(s) => Loose(t)) /\ (s.gone = t.gone) /\ (Stopping(s) <=> Stopping(t))
  BY DEF UpKept, UpFields, UpIdle, Inputs, Ended, Rest, Loose, Stopping

\* pause leaves all but the timer and its own mark.
LEMMA PauseStopsTimer ==
    ASSUME NEW s, IsUp(s)
    PROVE  UpKept(s, Pause(s), {"timer", "paused"}) /\ (Pause(s).timer => s.timer)
  BY DEF Pause, UpKept, IsUp, UpFields

\* check_shutdown_and_rollback answers, or leaves the action as loose as it was.
LEMMA RollbackIsIdle ==
    ASSUME NEW s, NEW c, IsUp(s), UpIdle(s), ~s.gone, Stopping(s)
    PROVE  UpIdle(Rollback(s, c)) /\ IsUp(Rollback(s, c))
<1> DEFINE t == StopProcessingIncomingData(s)
           p == Pause(t)
           q == [p EXCEPT !.scheduled = TRUE]
<1>1. Rollback(s, c) = IF c /\ t.aborted THEN SendResponse(t) ELSE IF t.scheduled THEN t ELSE Fail(q)
  BY DEF Rollback
<1>2. UpKept(s, t, {"timer", "ignore"}) /\ t.ignore /\ ~t.timer
  BY DEF StopProcessingIncomingData, UpKept, IsUp, UpFields
<1> HIDE DEF t
<1>3. IsUp(t) /\ UpIdle(t) /\ ~t.gone /\ Stopping(t) /\ Loose(t)
  <2>1. UpKept(s, t, {"timer", "paused", "ignore"}) /\ IsUp(t)
    BY <1>2 DEF UpKept
  <2> QED
    BY <1>2, <2>1, PauseIsIdle DEF Loose
<1>4. UpKept(t, p, {"timer", "paused"}) /\ (p.timer => t.timer)
  BY <1>3, PauseStopsTimer
<1> HIDE DEF p
<1>5. IsUp(p) /\ UpIdle(p) /\ ~p.gone /\ Stopping(p) /\ Loose(p)
  <2>1. UpKept(t, p, {"timer", "paused", "ignore"}) /\ IsUp(p) /\ (t.ignore => p.ignore)
    BY <1>4 DEF UpKept, UpFields
  <2> QED
    BY <1>3, <1>4, <2>1, PauseIsIdle
<1>6. UpKept(p, q, NoteFields) /\ q.scheduled /\ IsUp(q)
  BY <1>5 DEF UpKept, IsUp, UpFields, NoteFields
<1> HIDE DEF q
<1>7. UpIdle(q) /\ ~q.gone /\ Loose(q)
  BY <1>5, <1>6, NoteIsIdle
<1> QED
  BY <1>1, <1>3, <1>6, <1>7, SendIsIdle, FailIsIdle

\* The clean up goes from task to task, and the action is gone only after the last.
LEMMA NextCleanupIsIdle ==
    ASSUME NEW s, IsUp(s), UpIdle(s), ~s.gone, s.phase = "cleanup", Stopping(s) \/ s.ops = 0
    PROVE  UpIdle(NextCleanupTask(s))
<1> DEFINE i == s.task + 1
           j == s.ops + 1
           t == [s EXCEPT !.task = i, !.ops = j]
           u == [s EXCEPT !.gone = TRUE, !.timer = FALSE]
<1>1. /\ Stopping(s) => NextCleanupTask(s) = Rollback(s, FALSE)
      /\ ~Stopping(s) => NextCleanupTask(s) \in {t, u}
  BY DEF NextCleanupTask
<1>2. CASE Stopping(s)
  <2> HIDE DEF i, j, t, u
  <2>1. UpIdle(Rollback(s, FALSE))
    BY <1>2, RollbackIsIdle
  <2> QED
    BY <1>1, <1>2, <2>1
<1>3. CASE ~Stopping(s)
  <2>1. /\ Rest(s) /\ s.ops = 0 /\ ~s.timer /\ (s.ignore \/ ~s.connected)
        /\ j = 1
    BY <1>3 DEF UpIdle, Ended
  <2> HIDE DEF i, j
  <2>2. UpKept(s, t, {"task", "ops"}) /\ t.ops = 1
    BY <2>1 DEF UpKept, IsUp, UpFields
  <2>3. UpKept(s, u, {"gone", "timer"}) /\ ~u.timer
    BY DEF UpKept, IsUp, UpFields
  <2> HIDE DEF t, u
  <2>4. UpIdle(t)
    BY <2>1, <2>2 DEF UpKept, UpFields, UpIdle, Inputs, Ended, Rest
  <2>5. UpIdle(u)
    BY <2>1, <2>3 DEF UpKept, UpFields, UpIdle, Inputs, Ended, Rest
  <2> QED
    BY <1>1, <1>3, <2>4, <2>5
<1> QED
  BY <1>2, <1>3

\* next() of an action whose client left or whose server stops begins the
\* clean up.
LEMMA InterruptIsIdle ==
    ASSUME NEW s, IsUp(s), UpIdle(s), ~s.gone, Rest(s), s.ops = 0, Interrupted(s)
    PROVE  UpIdle(Interrupt(s))
<1>1. Loose(s) /\ (~s.connected => ~s.timer)
  BY DEF Loose, Rest, UpIdle, Inputs
<1>2. ~s.connected => UpIdle(StartCleanup(s))
  BY <1>1, CleanupStarts
<1>3. Stopping(s) => UpIdle(Rollback(s, FALSE))
  BY RollbackIsIdle
<1>4. s.readError # "none" => UpIdle(ClientReadError(s))
  BY <1>1, FailIsIdle
<1> QED
  BY <1>2, <1>3, <1>4 DEF Interrupt, Interrupted

\* next() otherwise starts the save, which is then all that is under way.
LEMMA NextIsIdle ==
    ASSUME NEW s, IsUp(s), UpIdle(s), ~s.gone, s.phase \in {"stream", "save", "cleanup"},
           s.phase = "cleanup" => Stopping(s) \/ s.ops = 0,
           s.phase # "cleanup" => Rest(s) /\ s.ops = 0
    PROVE  UpIdle(NextTask(s))
<1>1. CASE s.phase = "cleanup"
  BY <1>1, NextCleanupIsIdle DEF NextTask
<1>2. CASE s.phase # "cleanup" /\ Interrupted(s)
  BY <1>2, InterruptIsIdle DEF NextTask
<1>3. CASE s.phase = "save" /\ ~Interrupted(s)
  <2>1. Loose(s) /\ NextTask(s) = SendResponse(s)
    BY <1>3 DEF Loose, Rest, NextTask
  <2> QED
    BY <2>1, SendIsIdle
<1>4. CASE s.phase = "stream" /\ ~Interrupted(s)
  <2> DEFINE t == [s EXCEPT !.phase = "save", !.saving = TRUE, !.checksShutdown = FALSE]
             d == DigestIsBad(s)
  <2>1. NextTask(s) \in {t, Fail(d)}
    BY <1>4 DEF NextTask, SaveMetadata
  <2>2. UpKept(s, t, {"phase", "saving", "checksShutdown"}) /\ t.phase = "save"
    BY DEF UpKept, IsUp, UpFields
  <2>3. UpKept(s, d, NoteFields) /\ d.scheduled = s.scheduled /\ IsUp(d)
    BY DEF DigestIsBad, UpKept, IsUp, UpFields, NoteFields
  <2> HIDE DEF t, d
  <2>4. UpIdle(t)
    BY <1>4, <2>2 DEF UpKept, UpFields, UpIdle, Inputs
  <2>5. Loose(s)
    BY <1>4 DEF Loose, Rest
  <2>6. UpIdle(d) /\ ~d.gone /\ Loose(d)
    BY <2>3, <2>5, NoteIsIdle
  <2>7. UpIdle(Fail(d))
    BY <2>3, <2>6, FailIsIdle
  <2> QED
    BY <2>1, <2>4, <2>7
<1> QED
  BY <1>1, <1>2, <1>3, <1>4

\* send_chunk_details_if_any notes the question that it asks.
LEMMA ChunksAreNoted ==
    ASSUME NEW s, IsUp(s), s.auth = "started" => s.authInProgress
    PROVE  LET t == SendChunkDetailsIfAny(s)
           IN  /\ UpKept(s, t, {"sent", "authInProgress", "auth", "asked"})
               /\ t.auth = "started" => t.authInProgress
<1> DEFINE C == {"sent", "authInProgress", "auth", "asked"}
           n == Parsed(s)
           t == [s EXCEPT !.sent = n, !.authInProgress = TRUE]
           m == t.asked + 1
           u == [t EXCEPT !.auth = "started", !.asked = m]
<1>1. SendChunkDetailsIfAny(s) = IF n = s.sent THEN s ELSE IF s.auth = "started" THEN t ELSE u
  BY DEF SendChunkDetailsIfAny, TriggerRequest
<1> HIDE DEF n
<1>2. UpKept(s, t, C) /\ t.authInProgress
  BY DEF UpKept, IsUp, UpFields
<1> HIDE DEF t, m
<1>3. UpKept(t, u, {"auth", "asked"}) /\ UpKept(s, s, C)
  BY <1>2 DEF UpKept, IsUp, UpFields
<1> HIDE DEF u
<1>4. UpKept(s, u, C) /\ u.authInProgress
  BY <1>2, <1>3 DEF UpKept, UpFields
<1> QED
  BY <1>1, <1>2, <1>3, <1>4

\* write_object starts the one write, while the action streams or while the
\* server that stops keeps it.
LEMMA WriteIsIdle ==
    ASSUME NEW s, IsUp(s), UpIdle(s), ~s.gone, s.phase = "stream" => ~s.writeCompleted,
           s.phase = "cleanup" => Stopping(s) /\ s.scheduled
    PROVE  LET t == WriteObject(s)
           IN  UpIdle(t) /\ IsUp(t) /\ UpKept(s, t, WriteFields)
<1> DEFINE c == IF IsChunked(s.kind) THEN SendChunkDetailsIfAny(s) ELSE s
           n == c.taken + Smaller(Buffered(c), Payload)
           t == [c EXCEPT !.taken = n, !.writing = TRUE, !.inProgress = TRUE]
<1>1. WriteObject(s) = t
  BY DEF WriteObject
<1>2. /\ UpKept(s, c, {"sent", "authInProgress", "auth", "asked"})
      /\ c.auth = "started" => c.authInProgress
      /\ ~IsChunked(s.kind) => c.auth = "init"
  <2>1. (s.auth = "started" => s.authInProgress) /\ (~IsChunked(s.kind) => s.auth = "init")
    BY DEF UpIdle, Inputs
  <2>2. CASE IsChunked(s.kind)
    BY <2>1, <2>2, ChunksAreNoted
  <2>3. CASE ~IsChunked(s.kind)
    BY <2>1, <2>3 DEF UpKept
  <2> QED
    BY <2>2, <2>3
<1> HIDE DEF c, n
<1>3. UpKept(c, t, {"taken", "writing", "inProgress"})
  BY <1>2 DEF UpKept, IsUp, UpFields
<1> HIDE DEF t
<1>4. UpKept(s, t, WriteFields) /\ t.auth = c.auth /\ (t.authInProgress <=> c.authInProgress)
  BY <1>2, <1>3 DEF UpKept, UpFields, WriteFields
<1>5. UpIdle(t)
  BY <1>2, <1>4 DEF UpKept, UpFields, WriteFields, UpIdle, Inputs, Ended, Stopping
<1> QED
  BY <1>1, <1>4, <1>5 DEF UpKept

\* resume starts the timer only while data is expected and the client is there.
LEMMA ResumeIsIdle ==
    ASSUME NEW s, NEW b, IsUp(s), UpIdle(s), ~s.frozen, s.phase # "cleanup"
    PROVE  UpIdle(Resume(s, b))
<1> DEFINE r == [s EXCEPT !.paused = FALSE, !.timer = FALSE]
           q == [r EXCEPT !.timer = TRUE]
<1>1. UpKept(s, r, {"timer", "paused"}) /\ ~r.timer
  BY DEF UpKept, IsUp, UpFields
<1>2. UpKept(s, q, {"timer", "paused"})
  BY DEF UpKept, IsUp, UpFields
<1>3. \/ Resume(s, b) \in {s, r}
      \/ Resume(s, b) = q /\ s.connected /\ r.readError = "none"
  BY DEF Resume, StartTimer
<1> HIDE DEF q, r
<1>4. UpIdle(r)
  BY <1>1 DEF UpKept, UpFields, UpIdle, Inputs, Rest
<1>5. s.connected /\ r.readError = "none" => UpIdle(q)
  BY <1>1, <1>2 DEF UpKept, UpFields, UpIdle, Inputs, Rest
<1> QED
  BY <1>3, <1>4, <1>5

\* A write that has ended is no longer under way, whatever becomes of the rest.
LEMMA WriteOverIsIdle ==
    ASSUME NEW s, NEW t, UpOK(s), UpIdle(s), s.writing, ~s.gone, UpKept(s, t, FailFields \cup {"written"}),
           ~t.writing, t.timer => s.timer
    PROVE  /\ UpIdle(t) /\ ~t.gone /\ Loose(t) /\ IsUp(t)
           /\ t.shutdown => Stopping(t)
           /\ ~t.shutdown => t.phase = "stream" /\ t.ops = 0 /\ ~t.saving
<1>1. \/ s.phase = "stream" /\ Early(s)
      \/ s.phase = "cleanup" /\ Stopping(s) /\ s.scheduled
  BY DEF UpOK, UpPhase, Setup, Streaming, Given, Saving, UpIdle, Ended, Rest
<1>2. UpIdle(t) /\ ~t.gone
  BY <1>1 DEF UpKept, UpFields, FailFields, UpIdle, Inputs, Ended, Stopping
<1>3. CASE s.phase = "stream" /\ Early(s)
  BY <1>2, <1>3 DEF UpKept, UpFields, FailFields, Early, Loose, Stopping
<1>4. CASE s.phase = "cleanup" /\ Stopping(s) /\ s.scheduled
  BY <1>2, <1>4 DEF UpKept, UpFields, FailFields, Loose, Stopping
<1> QED
  BY <1>1, <1>3, <1>4

\* write_object_failed answers, or waits for the question that is under way.
LEMMA WriteFailsIdle ==
    ASSUME NEW s, UpOK(s), UpIdle(s), s.writing, ~s.gone
    PROVE  UpIdle(WriteObjectFailed(s))
<1>1. IsUp(s)
  BY DEF UpOK, UpBase, UpCore
<1>2. ASSUME NEW u, UpKept(s, u, FailFields), ~u.writing, u.timer => s.timer
      PROVE  /\ UpIdle(u) /\ UpIdle(Fail(u)) /\ UpIdle(SendResponse(u))
             /\ u.readError # "none" => UpIdle(ClientReadError(u))
             /\ s.shutdown => UpIdle(Rollback(u, FALSE))
  <2>1. UpKept(s, u, FailFields \cup {"written"}) /\ u.shutdown = s.shutdown
    BY <1>2 DEF UpKept, UpFields, FailFields
  <2>2. UpIdle(u) /\ ~u.gone /\ Loose(u) /\ IsUp(u) /\ (u.shutdown => Stopping(u))
    BY <1>2, <2>1, WriteOverIsIdle
  <2> QED
    BY <2>1, <2>2, FailIsIdle, SendIsIdle, RollbackIsIdle
<1> DEFINE a == WriteHasFailed(s)
           b == [a EXCEPT !.writeCompleted = TRUE]
           c == [b EXCEPT !.error = TRUE]
           d == [Pause(c) EXCEPT !.writeFailed = TRUE, !.aborted = TRUE]
           e == [a EXCEPT !.writeFailed = TRUE]
           q == [Pause(e) EXCEPT !.aborted = TRUE]
           w == [q EXCEPT !.error = TRUE, !.writeCompleted = TRUE]
           r == [q EXCEPT !.error = TRUE]
<1> DEFINE Over(u) == UpKept(s, u, FailFields) /\ ~u.writing /\ (u.timer => s.timer)
<1>3. Over(a) /\ IsUp(a) /\ a.readError = s.readError
  BY <1>1 DEF WriteHasFailed, UpKept, IsUp, UpFields, FailFields
<1>4. /\ ObjectWriteFailed(s) = IF s.readError # "none" THEN ClientReadError(a) ELSE Fail(a)
      /\ PartWriteFailed(s) = IF s.readError # "none" THEN ClientReadError(b)
                              ELSE IF s.kind = "part" THEN Fail(b)
                              ELSE IF d.authInProgress THEN d ELSE SendResponse(d)
      /\ ChunkedWriteFailed(s) = IF s.readError # "none" THEN ClientReadError(q)
                                 ELSE IF s.shutdown THEN Rollback(r, FALSE)
                                 ELSE IF w.authInProgress THEN w ELSE SendResponse(w)
  BY DEF ObjectWriteFailed, PartWriteFailed, ChunkedWriteFailed
<1> HIDE DEF a
<1>5. Over(b) /\ IsUp(b) /\ b.readError = s.readError
  BY <1>3 DEF UpKept, IsUp, UpFields, FailFields
<1>6. Over(e) /\ IsUp(e) /\ e.readError = s.readError
  BY <1>3 DEF UpKept, IsUp, UpFields, FailFields
<1> HIDE DEF b, e
<1>7. Over(c) /\ IsUp(c)
  BY <1>5 DEF UpKept, IsUp, UpFields, FailFields
<1> HIDE DEF c
<1>8. ASSUME NEW x, IsUp(x), Over(x) PROVE Over(Pause(x)) /\ IsUp(Pause(x)) /\ Pause(x).readError = x.readError
  <2>1. UpKept(x, Pause(x), {"timer", "paused"}) /\ (Pause(x).timer => x.timer)
    BY <1>8, PauseStopsTimer
  <2> QED
    BY <1>8, <2>1 DEF UpKept, UpFields, FailFields
<1>9. Over(d)
  <2> DEFINE x == Pause(c)
  <2>1. Over(x) /\ IsUp(x)
    BY <1>7, <1>8
  <2> HIDE DEF x
  <2>2. Over([x EXCEPT !.writeFailed = TRUE, !.aborted = TRUE])
    BY <2>1 DEF UpKept, IsUp, UpFields, FailFields
  <2> QED
    BY <2>2 DEF x
<1>10. Over(q) /\ IsUp(q) /\ q.readError = s.readError
  <2> DEFINE x == Pause(e)
  <2>1. Over(x) /\ IsUp(x) /\ x.readError = s.readError
    BY <1>6, <1>8
  <2> HIDE DEF x
  <2> DEFINE y == [x EXCEPT !.aborted = TRUE]
  <2>2. Over(y) /\ IsUp(y) /\ y.readError = s.readError
    BY <2>1 DEF UpKept, IsUp, UpFields, FailFields
  <2> QED
    BY <2>2 DEF x
<1> HIDE DEF q, d
<1>11. Over(w) /\ Over(r)
  BY <1>10 DEF UpKept, IsUp, UpFields, FailFields
<1> HIDE DEF w, r
<1>12. UpIdle(ObjectWriteFailed(s))
  BY <1>2, <1>3, <1>4
<1>13. UpIdle(PartWriteFailed(s))
  BY <1>2, <1>4, <1>5, <1>9
<1>14. UpIdle(ChunkedWriteFailed(s))
  BY <1>2, <1>4, <1>10, <1>11
<1> QED
  BY <1>12, <1>13, <1>14 DEF WriteObjectFailed

\* When all signatures are confirmed no question is under way.
LEMMA NoneIsAsked ==
    ASSUME NEW s, Bodies, UpBase(s), Given(s), s.readError = "none", ~s.authFailed, ~s.shutdown,
           ~s.writeFailed, s.kind = "part" \/ s.authCompleted
    PROVE  s.auth # "started"
<1>1. /\ s.kind \in Kind /\ s.pos \in 0 .. Len(Wire[s.kind]) /\ UpNumbers(s)
      /\ ~IsChunked(s.kind) => s.auth = "init"
  BY DEF UpBase, UpCore, UpNumbers
<1>2. Chunks(s.kind) \in Nat /\ Parsed(s) \in Nat /\ Parsed(s) <= Chunks(s.kind)
  BY <1>1, UpCounts
<1>3. CASE IsChunked(s.kind)
  <2>1. s.checked = Chunks(s.kind)
    BY <1>3 DEF Given, IsChunked
  <2> QED
    BY <1>1, <1>2, <2>1 DEF UpNumbers, Due
<1> QED
  BY <1>1, <1>3

\* write_object_successful writes on, saves, answers or waits, and never ends the
\* action under a question.
LEMMA WriteSucceedsIdle ==
    ASSUME NEW s, NEW low, Bodies, UpOK(s), UpIdle(s), s.writing, ~s.gone
    PROVE  UpIdle(WriteObjectSuccessful(s, low))
<1> DEFINE t == [s EXCEPT !.writing = FALSE, !.inProgress = FALSE, !.written = s.taken]
           st == IF t.kind = "chunkedPart" THEN "writeFailed" ELSE t.state
           f == [t EXCEPT !.state = st]
<1>1. /\ UpBase(t) /\ WriteOver(t) /\ UpKept(s, t, {"writing", "inProgress", "written"})
  BY WriteIsOver
<1>2. WriteObjectSuccessful(s, low) =
        IF t.shutdown THEN Rollback(t, FALSE)
        ELSE IF t.readError # "none" THEN ClientReadError(t)
        ELSE IF t.authFailed THEN SendResponse(f)
        ELSE CASE t.kind = "object" -> WrittenObject(t, low)
               [] t.kind = "chunked" -> WrittenChunked(t)
               [] OTHER -> WrittenPart(t)
  BY DEF WriteObjectSuccessful
<1> HIDE DEF t, st
<1>3. /\ UpIdle(t) /\ ~t.gone /\ Loose(t) /\ IsUp(t) /\ (t.shutdown => Stopping(t)) /\ ~t.writing
      /\ ~t.shutdown => t.phase = "stream" /\ t.ops = 0 /\ ~t.saving
  <2>1. UpKept(s, t, FailFields \cup {"written"}) /\ ~t.writing /\ (t.timer => s.timer)
    BY <1>1 DEF UpKept, UpFields, FailFields, WriteOver
  <2> QED
    BY <2>1, WriteOverIsIdle
<1>4. UpKept(t, f, NoteFields) /\ f.scheduled = t.scheduled /\ IsUp(f)
  BY <1>3 DEF UpKept, IsUp, UpFields, NoteFields
<1> HIDE DEF f
<1>5. UpIdle(f) /\ ~f.gone /\ Loose(f)
  BY <1>3, <1>4, NoteIsIdle
<1>6. t.shutdown => UpIdle(Rollback(t, FALSE))
  BY <1>3, RollbackIsIdle
<1>7. t.readError # "none" => UpIdle(ClientReadError(t))
  BY <1>3, FailIsIdle
<1>8. UpIdle(SendResponse(f))
  BY <1>4, <1>5, SendIsIdle
<1>9. ASSUME ~t.shutdown, t.readError = "none", ~t.authFailed
      PROVE  UpIdle(WrittenObject(t, low)) \/ t.kind # "object"
  <2> SUFFICES ASSUME t.kind = "object" PROVE UpIdle(WrittenObject(t, low))
    OBVIOUS
  <2> DEFINE w == WriteObject(t)
             a == [t EXCEPT !.state = "writeComplete"]
             b == [t EXCEPT !.state = "writeFailed"]
  <2>1. WrittenObject(t, low) = IF CanWrite(t)
                                THEN IF low THEN Pause(w) ELSE IF ~w.frozen THEN Resume(w, TRUE) ELSE w
                                ELSE IF t.frozen THEN NextTask(a) ELSE IF low THEN Fail(b) ELSE t
    BY DEF WrittenObject
  <2>2. ~t.writeCompleted /\ t.phase = "stream"
    BY <1>1, <1>3, <1>9 DEF WriteOver
  <2>3. UpIdle(w) /\ IsUp(w) /\ w.phase = "stream"
    <3>1. UpIdle(w) /\ IsUp(w) /\ UpKept(t, w, WriteFields)
      BY <1>3, <2>2, WriteIsIdle
    <3> HIDE DEF w
    <3>2. w.phase = "stream"
      BY <2>2, <3>1 DEF UpKept, UpFields, WriteFields
    <3> QED
      BY <3>1, <3>2
  <2>4. UpKept(t, a, NoteFields) /\ UpKept(t, b, NoteFields) /\ a.scheduled = t.scheduled
        /\ b.scheduled = t.scheduled /\ IsUp(a) /\ IsUp(b)
    BY <1>3 DEF UpKept, IsUp, UpFields, NoteFields
  <2> HIDE DEF w, a, b
  <2>5. UpIdle(a) /\ UpIdle(b) /\ ~a.gone /\ ~b.gone /\ Loose(b)
    BY <1>3, <2>4, NoteIsIdle
  <2>6. t.auth = "init"
    BY <1>3 DEF UpIdle, Inputs, IsChunked
  <2>7. a.phase = "stream" /\ Rest(a) /\ a.ops = 0
    BY <1>3, <1>9, <2>2, <2>4, <2>6 DEF UpKept, UpFields, NoteFields, Rest
  <2>8. UpIdle(NextTask(a))
    BY <2>4, <2>5, <2>7, NextIsIdle
  <2>9. UpIdle(Fail(b))
    BY <2>4, <2>5, FailIsIdle
  <2>10. UpIdle(Pause(w))
    <3>1. UpKept(w, Pause(w), {"timer", "paused"}) /\ (Pause(w).timer => w.timer)
      BY <2>3, PauseStopsTimer
    <3>2. UpKept(w, Pause(w), {"timer", "paused", "ignore"}) /\ Pause(w).ignore = w.ignore
      BY <3>1 DEF UpKept, UpFields
    <3> QED
      BY <2>3, <3>1, <3>2, PauseIsIdle
  <2>11. ~w.frozen => UpIdle(Resume(w, TRUE))
    BY <2>3, ResumeIsIdle
  <2> QED
    BY <1>3, <2>1, <2>3, <2>8, <2>9, <2>10, <2>11
<1>10. ASSUME ~t.shutdown, t.readError = "none", ~t.authFailed, t.kind # "object"
       PROVE  UpIdle(WrittenPart(t)) /\ UpIdle(WrittenChunked(t))
  <2> DEFINE w == WriteObject(t)
             a == [t EXCEPT !.writeCompleted = TRUE, !.state = "writeComplete"]
             b == [t EXCEPT !.writeCompleted = TRUE]
  <2>1. /\ WrittenPart(t) = IF CanWrite(t) THEN w ELSE IF t.frozen THEN WrittenAll(a) ELSE Resume(t, TRUE)
        /\ WrittenChunked(t) = IF CanWrite(t) THEN IF ~w.frozen THEN Resume(w, TRUE) ELSE w
                               ELSE IF t.frozen THEN WrittenAll(b) ELSE Resume(t, TRUE)
    BY DEF WrittenPart, WrittenChunked
  <2>2. ~t.writeCompleted /\ t.phase = "stream" /\ ~t.writeFailed /\ Given(t)
    BY <1>1, <1>3, <1>10 DEF WriteOver, Mid
  <2>3. UpIdle(w) /\ IsUp(w) /\ w.phase = "stream"
    <3>1. UpIdle(w) /\ IsUp(w) /\ UpKept(t, w, WriteFields)
      BY <1>3, <2>2, WriteIsIdle
    <3> HIDE DEF w
    <3>2. w.phase = "stream"
      BY <2>2, <3>1 DEF UpKept, UpFields, WriteFields
    <3> QED
      BY <3>1, <3>2
  <2>4. UpKept(t, a, {"writeCompleted", "state"}) /\ UpKept(t, b, {"writeCompleted", "state"})
    BY <1>3 DEF UpKept, IsUp, UpFields
  <2> HIDE DEF w, a, b
  <2>5. ASSUME NEW u, UpKept(t, u, {"writeCompleted", "state"}) PROVE UpIdle(WrittenAll(u))
    <3>1. IsUp(u) /\ UpIdle(u) /\ ~u.gone /\ u.phase = "stream" /\ ~u.writing /\ ~u.saving /\ u.ops = 0
          /\ u.auth = t.auth /\ u.kind = t.kind /\ u.authCompleted = t.authCompleted
      BY <1>3, <1>10, <2>2, <2>5 DEF UpKept, UpFields, UpIdle, Inputs
    <3>2. CASE u.kind = "part" \/ u.authCompleted
      <4>1. u.auth # "started"
        BY <1>1, <1>10, <2>2, <3>1, <3>2, NoneIsAsked
      <4>2. UpIdle(NextTask(u))
        BY <3>1, <4>1, NextIsIdle DEF Rest
      <4> QED
        BY <3>2, <4>2 DEF WrittenAll
    <3>3. CASE ~(u.kind = "part" \/ u.authCompleted)
      <4> DEFINE v == SendChunkDetailsIfAny(u)
      <4>1. /\ UpKept(u, v, {"sent", "authInProgress", "auth", "asked"})
            /\ v.auth = "started" => v.authInProgress
        BY <3>1, ChunksAreNoted DEF UpIdle, Inputs
      <4>2. WrittenAll(u) = v
        BY <3>3 DEF WrittenAll
      <4>3. IsChunked(u.kind)
        BY <1>1, <1>10, <3>1, <3>3 DEF Bodies, IsChunked, UpBase, UpCore
      <4> HIDE DEF v
      <4>4. UpIdle(v)
        BY <3>1, <4>1, <4>3 DEF UpKept, UpFields, UpIdle, Inputs
      <4> QED
        BY <4>2, <4>4
    <3> QED
      BY <3>2, <3>3
  <2>6. ~w.frozen => UpIdle(Resume(w, TRUE))
    BY <2>3, ResumeIsIdle
  <2>7. ~t.frozen => UpIdle(Resume(t, TRUE))
    BY <1>3, <2>2, ResumeIsIdle
  <2> QED
    BY <2>1, <2>3, <2>4, <2>5, <2>6, <2>7
<1> QED
  BY <1>2, <1>6, <1>7, <1>8, <1>9, <1>10

\* The authentication server confirms: the action asks on, saves or waits for the
\* write that is under way.
LEMMA AuthSucceedsIdle ==
    ASSUME NEW s, Bodies, UpOK(s), UpIdle(s), s.auth = "started", ~s.gone
    PROVE  LET t == Confirmed(s)
           IN  UpIdle(IF CycleEnds(t) THEN ChunkAuthSuccessful(t) ELSE NextChunk(t))
<1> DEFINE n == s.checked + 1
           t == Confirmed(s)
           m == t.asked + 1
           x == [t EXCEPT !.auth = "started", !.asked = m]
           u == [t EXCEPT !.authInProgress = FALSE, !.authCompleted = TRUE]
<1>1. IsUp(s) /\ IsChunked(s.kind)
  BY DEF UpOK, UpBase, UpCore
<1>2. \/ s.phase = "stream" /\ Early(s) /\ Given(s)
      \/ s.phase = "cleanup" /\ Stopping(s) /\ s.scheduled
  BY DEF UpOK, UpPhase, Setup, Streaming, Given, Saving, UpIdle, Ended, Rest
<1>3. /\ NextChunk(t) = IF Queued(t) = 0 THEN t ELSE x
      /\ ChunkAuthSuccessful(t) = IF u.shutdown THEN Rollback(u, TRUE)
                                  ELSE IF ~u.writeCompleted THEN u
                                  ELSE IF u.writeFailed THEN SendResponse(u) ELSE NextTask(u)
  BY DEF NextChunk, TriggerRequest, ChunkAuthSuccessful
<1>4. t = [s EXCEPT !.auth = "succeded", !.checked = n]
  BY DEF Confirmed
<1> HIDE DEF n
<1>5. UpKept(s, t, {"auth", "checked"}) /\ t.auth = "succeded"
  BY <1>1, <1>4 DEF UpKept, IsUp, UpFields
<1> HIDE DEF t, m
<1>6. UpKept(t, x, {"auth", "asked"}) /\ x.auth = "started"
  BY <1>5 DEF UpKept, IsUp, UpFields
<1>7. UpKept(t, u, {"authInProgress", "authCompleted"}) /\ ~u.authInProgress
  BY <1>5 DEF UpKept, IsUp, UpFields
<1> HIDE DEF x, u
<1>8. UpIdle(t)
  BY <1>1, <1>2, <1>5 DEF UpKept, UpFields, UpIdle, Inputs, Ended, Stopping, Rest
<1>9. UpIdle(x)
  <2>1. UpKept(s, x, {"auth", "checked", "asked"}) /\ s.authInProgress
    BY <1>5, <1>6 DEF UpKept, UpIdle, Inputs
  <2> QED
    BY <1>1, <1>2, <2>1 DEF UpKept, UpFields, UpIdle, Inputs, Ended, Stopping, Rest
<1>10. UpKept(s, u, {"auth", "checked", "authInProgress", "authCompleted"}) /\ u.auth = "succeded"
  BY <1>5, <1>7 DEF UpKept, UpFields
<1>11. UpIdle(u) /\ IsUp(u) /\ ~u.gone
  BY <1>1, <1>2, <1>10 DEF UpKept, UpFields, UpIdle, Inputs, Ended, Stopping, Rest
<1>12. u.shutdown => UpIdle(Rollback(u, TRUE))
  <2>1. u.shutdown => Stopping(u)
    BY <1>2, <1>10 DEF UpKept, UpFields, Stopping, Early
  <2> QED
    BY <1>11, <2>1, RollbackIsIdle
<1>13. ASSUME ~u.shutdown, u.writeCompleted
       PROVE  UpIdle(SendResponse(u)) /\ UpIdle(NextTask(u))
  <2>1. u.phase = "stream" /\ ~u.saving /\ u.ops = 0
    BY <1>2, <1>10, <1>13 DEF UpKept, UpFields, Stopping, Early
  <2>2. Rest(u) /\ Loose(u)
    BY <1>10, <1>11, <1>13, <2>1 DEF UpIdle, Rest, Loose
  <2> QED
    BY <1>11, <2>1, <2>2, SendIsIdle, NextIsIdle
<1>14. UpIdle(NextChunk(t)) /\ UpIdle(ChunkAuthSuccessful(t))
  BY <1>3, <1>8, <1>9, <1>11, <1>12, <1>13
<1> QED
  BY <1>14 DEF t

\* The server rejects: the action answers, or waits for the write that is under
\* way.
LEMMA AuthFailsIdle ==
    ASSUME NEW s, UpOK(s), UpIdle(s), s.auth = "started", ~s.gone
    PROVE  UpIdle(ChunkAuthFailed(s))
<1> DEFINE p == PartSignatureIsBad(s)
           c == [p EXCEPT !.authInProgress = FALSE, !.state = "dataSignatureCheckFailed"]
           t == IF s.kind = "chunked" THEN c ELSE p
           C == {"auth", "authFailed", "authCompleted", "error", "authInProgress", "state"}
<1>1. IsUp(s) /\ IsChunked(s.kind) /\ (s.inProgress <=> s.writing)
  BY DEF UpOK, UpBase, UpCore
<1>2. \/ s.phase = "stream" /\ Early(s)
      \/ s.phase = "cleanup" /\ Stopping(s) /\ s.scheduled
  BY DEF UpOK, UpPhase, Setup, Streaming, Given, Saving, UpIdle, Ended, Rest
<1>3. ChunkAuthFailed(s) = IF t.shutdown THEN Rollback(t, TRUE) ELSE IF t.inProgress THEN t
                           ELSE SendResponse(t)
  BY DEF ChunkAuthFailed, ChunkSignatureIsBad
<1>4. UpKept(s, p, C) /\ p.auth = "failed"
  BY <1>1 DEF PartSignatureIsBad, UpKept, IsUp, UpFields
<1> HIDE DEF p
<1>5. UpKept(s, c, C) /\ c.auth = "failed"
  BY <1>4 DEF UpKept, IsUp, UpFields
<1> HIDE DEF c
<1>6. UpKept(s, t, C) /\ t.auth = "failed"
  BY <1>4, <1>5
<1> HIDE DEF t
<1>7. UpIdle(t) /\ IsUp(t) /\ ~t.gone /\ (t.inProgress <=> t.writing)
  BY <1>1, <1>2, <1>6 DEF UpKept, UpFields, UpIdle, Inputs, Ended, Stopping, Rest
<1>8. t.shutdown => UpIdle(Rollback(t, TRUE))
  <2>1. t.shutdown => Stopping(t)
    BY <1>2, <1>6 DEF UpKept, UpFields, Stopping, Early
  <2> QED
    BY <1>7, <2>1, RollbackIsIdle
<1>9. ~t.shutdown /\ ~t.inProgress => UpIdle(SendResponse(t))
  <2>1. ~t.shutdown /\ ~t.inProgress => Loose(t)
    BY <1>2, <1>6, <1>7 DEF UpKept, UpFields, Stopping, Early, Loose
  <2> QED
    BY <1>7, <2>1, SendIsIdle
<1> QED
  BY <1>3, <1>7, <1>8, <1>9

\* A read that failed ends the action at once only when no write is under way.
LEMMA ReadErrorIsIdle ==
    ASSUME NEW s, IsUp(s), UpIdle(s), ~s.gone, s.readError # "none", s.inProgress <=> s.writing,
           Stopping(s) \/ (~s.saving /\ s.ops = 0),
           s.kind = "object" /\ s.readError = "RequestTimeout" => Loose(s)
    PROVE  UpIdle(ConsumeIncomingContent(s))
<1>1. ~s.inProgress => Loose(s)
  BY DEF Loose
<1>2. Loose(s) => UpIdle(Fail(s)) /\ UpIdle(ClientReadError(s))
  BY FailIsIdle
<1> QED
  BY <1>1, <1>2 DEF ConsumeIncomingContent, ObjectReadError, PartReadError

\* The read timer runs out, under a write only for a body whose action waits for
\* the write (InTime).
LEMMA TimeoutIsIdle ==
    ASSUME Bodies, InTime, UpBoundIInv, UpIdle(up), ReadTimeout
    PROVE  UpIdle(up)'
<1> DEFINE t == [up EXCEPT !.readError = "RequestTimeout", !.timer = FALSE, !.frozen = TRUE]
<1>1. /\ IsUp(up) /\ UpOK(up) /\ UpBase(up) /\ up.timer /\ ~up.gone /\ (up.inProgress <=> up.writing)
      /\ MayHappen(up, "timeout") /\ (Busy(up) => MayHappen(up, "slow"))
  BY DEF UpBoundIInv, UpIInv, UpOK, UpBase, UpCore, ReadTimeout, Live
<1>2. up' = IF t.listener THEN ConsumeIncomingContent(t) ELSE t
  BY DEF ReadTimeout
<1>3. UpKept(up, t, {"readError", "timer", "frozen"}) /\ t.readError = "RequestTimeout" /\ ~t.timer
  BY <1>1 DEF UpKept, IsUp, UpFields
<1> HIDE DEF t
<1>4. ~up.frozen /\ up.readError = "none"
  BY <1>1 DEF UpIdle, Inputs
<1>5. up.phase # "save"
  <2> SUFFICES ASSUME up.phase = "save" PROVE FALSE
    OBVIOUS
  <2>1. Whole(up) /\ up.kind \in Kind /\ up.pos \in 0 .. Len(Wire[up.kind]) /\ UpNumbers(up)
    BY <1>1 DEF UpBase, UpCore, UpMarks, UpNumbers
  <2>2. Received(up) \in Nat /\ Size(up.kind) \in Nat /\ Received(up) <= Size(up.kind)
    BY <2>1, UpCounts
  <2>3. Received(up) = Size(up.kind)
    BY <2>1, <2>2 DEF UpNumbers, Whole
  <2> QED
    BY <1>4, <2>3 DEF UpBoundIInv, UpBounded
<1>6. \/ Early(up) /\ (up.phase = "setup" => ~up.listener) /\ up.phase # "cleanup"
      \/ up.phase = "cleanup" /\ Stopping(up) /\ up.scheduled
  BY <1>1, <1>5 DEF UpOK, UpPhase, Setup, Streaming, Given, Saving, UpIdle, Ended
<1>7. /\ UpIdle(t) /\ IsUp(t) /\ ~t.gone /\ (t.inProgress <=> t.writing)
      /\ Stopping(t) \/ (~t.saving /\ t.ops = 0)
  BY <1>1, <1>3, <1>6 DEF UpKept, UpFields, UpIdle, Inputs, Ended, Stopping, Rest, Early
<1>8. t.kind = "object" => Loose(t)
  <2>1. up.kind = "object" => ~Busy(up)
    BY <1>1 DEF InTime, MayHappen
  <2> QED
    BY <1>3, <1>7, <2>1 DEF UpKept, UpFields, Loose, Busy
<1>9. t.listener => UpIdle(ConsumeIncomingContent(t))
  BY <1>3, <1>7, <1>8, ReadErrorIsIdle
<1> QED
  BY <1>2, <1>7, <1>9

\* notify_incoming_data: what the callback does with the data it is given.
LEMMA NotifyIsIdle ==
    ASSUME NEW s, NEW n \in 1 .. (Len(Wire[s.kind]) - s.pos), NEW low, Bodies, UpOK(s), UpIdle(s),
           s.connected, ~s.paused, ~s.ignore, ~Split(s, n), ~s.gone, low => ~IsChunked(s.kind)
    PROVE  UpIdle(Notify(s, n, low))
<1> DEFINE q == StopTimer(s)
           e == [q EXCEPT !.ignore = TRUE, !.readError = "ServiceUnavailable"]
           a == AddContent(q, n)
           r == IF a.listener
                THEN IF Buffered(a) >= Payload \/ Pending(a) = 0 THEN ConsumeIncomingContent(a) ELSE a
                ELSE IF ~a.frozen THEN Pause(a) ELSE a
<1>1. Notify(s, n, low) =
        IF low THEN IF e.listener THEN ConsumeIncomingContent(e) ELSE e
        ELSE IF q.readError # "none" THEN q
        ELSE IF ~r.paused /\ ~r.frozen THEN StartTimer(r) ELSE r
  BY DEF Notify
<1>2. IsUp(s) /\ (s.inProgress <=> s.writing)
  BY DEF UpOK, UpBase, UpCore
<1>3. UpKept(s, q, {"timer"}) /\ ~q.timer
  BY <1>2 DEF StopTimer, UpKept, IsUp, UpFields
<1>4. q = [s EXCEPT !.timer = FALSE]
  BY DEF StopTimer
<1> HIDE DEF q
<1>5. /\ q.kind = s.kind /\ q.pos = s.pos /\ q.connected /\ ~q.paused /\ ~q.ignore /\ IsUp(q)
      /\ q.writeFailed = s.writeFailed /\ q.phase = s.phase /\ ~q.gone /\ q.scheduled = s.scheduled
      /\ (q.inProgress <=> q.writing) /\ (Stopping(q) <=> Stopping(s))
      /\ UpIdle(q)
  BY <1>2, <1>3 DEF UpKept, UpFields, Stopping, UpIdle, Inputs, Ended, Rest
<1>6. UpOK(q)
  <2>1. UpKept(s, q, {"timer", "paused"}) /\ q.paused = s.paused
    BY <1>3 DEF UpKept, UpFields
  <2> QED
    BY <2>1, PauseStays
<1>7. /\ q.phase = "cleanup" => Stopping(q) /\ q.scheduled
      /\ q.phase = "save" => q.pos = Len(Wire[q.kind])
      /\ q.phase \in {"setup", "stream"} => Early(q)
      /\ q.phase \in {"setup", "stream", "save", "cleanup"}
  BY <1>5, <1>6 DEF UpIdle, Ended, UpOK, UpPhase, Setup, Streaming, Given, Saving, Early
<1>8. q.phase # "save"
  <2>1. s.pos \in 0 .. Len(Wire[s.kind]) /\ Len(Wire[s.kind]) \in Nat
    <3>1. s.kind \in Kind /\ s.pos \in 0 .. Len(Wire[s.kind])
      BY DEF UpOK, UpBase, UpCore, UpNumbers
    <3> QED
      BY <3>1, UpCounts
  <2> QED
    BY <1>5, <1>7, <2>1
<1>9. ASSUME low PROVE UpIdle(e) /\ (e.listener => UpIdle(ConsumeIncomingContent(e)))
  <2>1. /\ UpKept(q, e, {"readError", "ignore"}) /\ e.ignore /\ e.readError = "ServiceUnavailable"
    BY <1>5 DEF UpKept, IsUp, UpFields
  <2> HIDE DEF e
  <2>2. /\ UpIdle(e) /\ IsUp(e) /\ ~e.gone /\ (e.inProgress <=> e.writing)
        /\ Stopping(e) \/ (~e.saving /\ e.ops = 0)
    <3>1. ~IsChunked(e.kind)
      BY <1>5, <1>9, <2>1 DEF UpKept, UpFields
    <3> QED
      BY <1>3, <1>5, <1>7, <1>8, <2>1, <3>1
         DEF UpKept, UpFields, UpIdle, Inputs, Ended, Stopping, Rest, Early
  <2> QED
    BY <2>1, <2>2, ReadErrorIsIdle
<1>10. ASSUME q.readError = "none" PROVE UpIdle(r) /\ (~r.paused /\ ~r.frozen => UpIdle(StartTimer(r)))
  <2>1. ~Split(q, n)
    BY <1>2, <1>3, <1>4, <1>5 DEF Split, AddContent, Pending, Received, UpKept, IsUp, UpFields
  <2>2. /\ UpOK(a) /\ UpKept(q, a, {"pos", "frozen"})
        /\ a.phase = "stream" => ~a.writeFailed /\ (~a.writing => Going(a))
    BY <1>5, <1>6, <1>10, <2>1, ContentIsAdded
  <2> HIDE DEF a
  <2>3. /\ a.readError = "none" /\ IsUp(a) /\ UpIdle(a) /\ ~a.gone /\ (a.inProgress <=> a.writing)
        /\ a.phase = "cleanup" => Stopping(a) /\ a.scheduled
        /\ ~a.timer /\ a.connected
    BY <1>3, <1>5, <1>7, <1>10, <2>2 DEF UpKept, UpFields, UpIdle, Inputs, Ended, Stopping, Rest
  <2> DEFINE w == WriteIfReady(a)
  <2>4. /\ UpIdle(w) /\ IsUp(w)
        /\ UpKept(a, w, WriteFields) \/ (w.gone /\ w.crashed /\ UpKept(a, w, {"phase", "gone", "crashed"}))
    <3>1. ~a.inProgress /\ a.phase = "stream" => ~a.writeCompleted
      BY <2>2, <2>3 DEF Going
    <3>2. ~a.inProgress =>
            UpIdle(WriteObject(a)) /\ IsUp(WriteObject(a)) /\ UpKept(a, WriteObject(a), WriteFields)
      BY <2>3, <3>1, WriteIsIdle
    <3>3. UpKept(a, a, WriteFields)
      BY <2>3 DEF UpKept
    <3>4. LET c == UploadCrashes(a)
          IN  UpIdle(c) /\ IsUp(c) /\ c.gone /\ c.crashed /\ UpKept(a, c, {"phase", "gone", "crashed"})
      BY <2>3, CrashIsIdle, CrashIs
    <3>5. w \in {a, WriteObject(a), UploadCrashes(a)} /\ (w = WriteObject(a) => w = a \/ ~a.inProgress)
      BY DEF WriteIfReady
    <3> HIDE DEF w
    <3> QED
      BY <2>3, <3>2, <3>3, <3>4, <3>5
  <2>5. a.listener => ConsumeIncomingContent(a) \in {w, Pause(w)}
    BY <2>3 DEF ConsumeIncomingContent, PauseIfAhead
  <2> HIDE DEF w
  <2>6. ASSUME NEW x, UpIdle(x), IsUp(x), x.readError = "none", x.connected, ~x.timer,
               x.phase = "cleanup" => (Stopping(x) /\ x.scheduled) \/ (x.crashed /\ x.gone)
        PROVE  LET p == Pause(x)
               IN  /\ UpIdle(p) /\ IsUp(p) /\ p.readError = "none" /\ p.connected /\ ~p.timer
                   /\ p.phase = "cleanup" => (Stopping(p) /\ p.scheduled) \/ (p.crashed /\ p.gone)
    <3> DEFINE p == Pause(x)
    <3>1. UpKept(x, p, {"timer", "paused"}) /\ (p.timer => x.timer)
      BY <2>6, PauseStopsTimer
    <3> HIDE DEF p
    <3>2. UpKept(x, p, {"timer", "paused", "ignore"}) /\ p.ignore = x.ignore /\ p.readError = x.readError
          /\ p.connected = x.connected /\ p.phase = x.phase /\ p.scheduled = x.scheduled /\ IsUp(p)
          /\ p.crashed = x.crashed /\ p.gone = x.gone
      BY <3>1 DEF UpKept, UpFields
    <3>3. UpIdle(p) /\ (Stopping(x) <=> Stopping(p))
      BY <2>6, <3>1, <3>2, PauseIsIdle
    <3> QED
      BY <2>6, <3>1, <3>2, <3>3 DEF p
  <2>7. /\ w.readError = "none" /\ w.connected /\ ~w.timer
        /\ w.phase = "cleanup" => (Stopping(w) /\ w.scheduled) \/ (w.crashed /\ w.gone)
    BY <2>3, <2>4 DEF UpKept, UpFields, WriteFields, Stopping
  <2>8. r \in {a, w, Pause(a), Pause(w)}
    BY <2>5
  <2> HIDE DEF r
  <2>9. /\ UpIdle(r) /\ IsUp(r) /\ r.readError = "none" /\ r.connected
        /\ r.phase = "cleanup" => (Stopping(r) /\ r.scheduled) \/ (r.crashed /\ r.gone)
    BY <2>3, <2>4, <2>6, <2>7, <2>8
  <2>10. ASSUME ~r.frozen PROVE UpIdle(StartTimer(r))
    <3> DEFINE z == [r EXCEPT !.timer = TRUE]
    <3>1. StartTimer(r) = z
      BY <2>9 DEF StartTimer
    <3>2. UpKept(r, z, {"timer"})
      BY <2>9 DEF UpKept, IsUp, UpFields
    <3> HIDE DEF z
    <3>3. UpIdle(z)
      BY <2>9, <2>10, <3>2 DEF UpKept, UpFields, UpIdle, Inputs, Ended, Stopping, Rest
    <3> QED
      BY <3>1, <3>3
  <2> QED
    BY <2>9, <2>10
<1> HIDE DEF e, r
<1> QED
  BY <1>1, <1>5, <1>9, <1>10

\* Data arrives from the client.
LEMMA ArriveIsIdle ==
    ASSUME Bodies, InTime, UpIInv, UpIdle(up), Arrive
    PROVE  UpIdle(up)'
<1>1. PICK n \in ReadSizes(up), low \in Chance(up, "memory") :
         (Split(up, n) => MayHappen(up, "trailer")) /\ up' = Notify(up, n, low)
  BY DEF Arrive
<1>2. up.kind \in Kind /\ UpOK(up)
  BY DEF UpIInv, UpOK, UpBase, UpCore
<1>3. ~Split(up, n) /\ (low => ~IsChunked(up.kind))
  BY <1>1, <1>2 DEF Bodies, InTime, MayHappen, Chance
<1>4. n \in 1 .. (Len(Wire[up.kind]) - up.pos)
  BY DEF ReadSizes
<1>5. up.connected /\ ~up.paused /\ ~up.ignore /\ ~up.gone
  BY DEF Arrive, Live
<1>6. UpIdle(Notify(up, n, low))
  BY <1>2, <1>3, <1>4, <1>5, NotifyIsIdle
<1> QED
  BY <1>1, <1>6

\* The object is created, or cannot be, and the streaming begins.
LEMMA SetupIsIdle ==
    ASSUME Bodies, UpBoundIInv, UpIdle(up), SetupDone
    PROVE  UpIdle(up)'
<1> DEFINE s == up
           t == [s EXCEPT !.phase = "stream"]
           l == [t EXCEPT !.listener = TRUE]
<1>1. UpOK(s) /\ UpBase(s) /\ IsUp(s) /\ s.phase = "setup" /\ UpBounded(s)
  BY DEF UpBoundIInv, UpIInv, UpOK, UpBase, UpCore, SetupDone
<1>2. Setup(s) /\ Early(s)
  BY <1>1 DEF UpOK, UpPhase, Streaming, Given, Saving
<1>3. ~s.gone /\ Rest(s) /\ s.ops = 0
  BY <1>1, <1>2 DEF UpIdle, Setup, Early, Rest
<1>4. CASE Interrupted(s)
  <2>1. up' = Interrupt(s)
    BY <1>4 DEF SetupDone
  <2>2. UpIdle(Interrupt(s))
    BY <1>1, <1>3, <1>4, InterruptIsIdle
  <2> QED
    BY <2>1, <2>2
<1>5. CASE ~Interrupted(s)
  <2>1. up' = IF Size(t.kind) = 0 THEN NextTask(t) ELSE IF Pending(t) = 0 THEN WriteObject(t)
              ELSE Resume(l, TRUE)
    BY <1>5 DEF SetupDone, InitiateDataStreaming
  <2>2. UpKept(s, t, {"phase"}) /\ t.phase = "stream"
    BY <1>1 DEF UpKept, IsUp, UpFields
  <2> HIDE DEF t
  <2>3. UpKept(t, l, {"listener"})
    BY <2>2 DEF UpKept, IsUp, UpFields
  <2> HIDE DEF l
  <2>4. /\ UpIdle(t) /\ IsUp(t) /\ ~t.gone /\ Rest(t) /\ t.ops = 0 /\ ~t.writeCompleted
    BY <1>2, <1>3, <2>2 DEF UpKept, UpFields, UpIdle, Inputs, Rest, Setup
  <2>5. UpIdle(l) /\ IsUp(l) /\ l.phase = "stream" /\ l.frozen = s.frozen
    BY <2>2, <2>3, <2>4 DEF UpKept, UpFields, UpIdle, Inputs, Rest
  <2>6. Pending(t) # 0 => ~s.frozen
    <3>1. s.readError = "none"
      BY <1>5 DEF Interrupted
    <3>2. s.kind \in Kind /\ s.pos \in 0 .. Len(Wire[s.kind]) /\ UpNumbers(s)
      BY <1>1 DEF UpBase, UpCore, UpNumbers
    <3>3. s.frozen => Received(s) = Size(s.kind)
      BY <3>1, <3>2 DEF UpNumbers
    <3>4. Received(s) \in Nat
      BY <3>2, UpCounts
    <3>5. t.kind = s.kind /\ t.pos = s.pos
      BY <2>2 DEF UpKept, UpFields
    <3> QED
      BY <3>3, <3>4, <3>5 DEF Pending, Received
  <2>7. UpIdle(NextTask(t))
    BY <2>2, <2>4, NextIsIdle
  <2>8. UpIdle(WriteObject(t))
    BY <2>2, <2>4, WriteIsIdle
  <2>9. Pending(t) # 0 => UpIdle(Resume(l, TRUE))
    BY <2>5, <2>6, ResumeIsIdle
  <2> QED
    BY <2>1, <2>7, <2>8, <2>9
<1> QED
  BY <1>4, <1>5

\* The save ends, after which the action is answered.
LEMMA SaveIsIdle ==
    ASSUME UpIInv, UpIdle(up), SaveEnds
    PROVE  UpIdle(up)'
<1> DEFINE s == up
           a == [s EXCEPT !.saving = FALSE, !.state = "metadataSaved", !.saved = "yes"]
           b == SaveHasFailed(s)
           C == {"saving", "state", "saved"}
<1>1. UpOK(s) /\ IsUp(s) /\ s.saving /\ ~s.gone
  BY DEF UpIInv, UpOK, UpBase, UpCore, SaveEnds, Live
<1>2. Saving(s) \/ (s.phase = "cleanup" /\ Stopping(s) /\ s.scheduled)
  BY <1>1 DEF UpOK, UpPhase, Early, UpIdle, Ended, Rest
<1>3. up' = NextTask(a) \/ up' = Fail(b) \/ up' = SendResponse(b)
  BY DEF SaveEnds
<1>4. UpKept(s, a, C) /\ ~a.saving /\ UpKept(s, b, C) /\ ~b.saving
  <2>1. IsUp(a) /\ ~a.saving
    BY <1>1 DEF IsUp, UpFields
  <2>2. IsUp(b) /\ ~b.saving
    BY <1>1 DEF SaveHasFailed, IsUp, UpFields
  <2>3. \A f \in UpFields \ C : a[f] = s[f]
    BY <1>1 DEF IsUp, UpFields
  <2>4. \A f \in UpFields \ C : b[f] = s[f]
    BY <1>1 DEF SaveHasFailed, IsUp, UpFields
  <2> HIDE DEF a, b, C
  <2> QED
    BY <2>1, <2>2, <2>3, <2>4 DEF UpKept
<1> HIDE DEF a, b
<1>5. ASSUME NEW u, UpKept(s, u, C), ~u.saving
      PROVE  /\ UpIdle(u) /\ IsUp(u) /\ ~u.gone /\ u.phase \in {"save", "cleanup"} /\ Loose(u)
             /\ u.phase = "cleanup" => Stopping(u)
             /\ u.phase # "cleanup" => Rest(u) /\ u.ops = 0
  <2>1. CASE Saving(s)
    BY <1>1, <1>5, <2>1 DEF UpKept, UpFields, UpIdle, Inputs, Rest, Saving, Loose
  <2>2. CASE s.phase = "cleanup" /\ Stopping(s) /\ s.scheduled
    BY <1>1, <1>5, <2>2 DEF UpKept, UpFields, UpIdle, Inputs, Ended, Stopping, Loose
  <2> QED
    BY <1>2, <2>1, <2>2
<1>6. UpIdle(NextTask(a))
  BY <1>4, <1>5, NextIsIdle
<1>7. UpIdle(Fail(b)) /\ UpIdle(SendResponse(b))
  BY <1>4, <1>5, FailIsIdle, SendIsIdle
<1> QED
  BY <1>3, <1>6, <1>7

\* A clean up operation ends.
LEMMA CleanupIsIdle ==
    ASSUME UpIInv, UpIdle(up), CleanupEnds
    PROVE  UpIdle(up)'
<1> DEFINE n == up.ops - 1
           t == [up EXCEPT !.ops = n]
<1>1. UpOK(up) /\ IsUp(up) /\ up.ops > 0 /\ up' = NextTask(t) /\ ~up.gone
  BY DEF UpIInv, UpOK, UpBase, UpCore, CleanupEnds, Live
<1>2. up.phase = "cleanup"
  BY <1>1 DEF UpOK, UpPhase, Early, Saving
<1>3. (Stopping(up) /\ up.scheduled) \/ (Rest(up) /\ n = 0 /\ ~up.timer /\ (up.ignore \/ ~up.connected))
  BY <1>1, <1>2 DEF UpIdle, Ended
<1> HIDE DEF n
<1>4. UpKept(up, t, {"ops"}) /\ t.ops = n
  BY <1>1 DEF UpKept, IsUp, UpFields
<1> HIDE DEF t
<1>5. UpIdle(t) /\ IsUp(t) /\ ~t.gone /\ t.phase = "cleanup" /\ (Stopping(t) \/ t.ops = 0)
  BY <1>1, <1>2, <1>3, <1>4 DEF UpKept, UpFields, UpIdle, Inputs, Ended, Stopping, Rest
<1>6. UpIdle(NextTask(t))
  BY <1>5, NextIsIdle
<1> QED
  BY <1>1, <1>6

\* The client leaves, the request ends or a shutdown begins.
LEMMA LeaveIsIdle ==
    ASSUME UpIInv, UpIdle(up), ClientLeaves \/ RequestEnds \/ ShutdownBegins
    PROVE  UpIdle(up)'
<1> DEFINE a == [up EXCEPT !.connected = FALSE, !.timer = FALSE]
           b == [up EXCEPT !.shutdown = TRUE]
<1>1. IsUp(up) /\ ~up.gone
  BY DEF UpIInv, UpOK, UpBase, UpCore, ClientLeaves, RequestEnds, ShutdownBegins, Live
<1>2. up' = a \/ up' = b
  BY DEF ClientLeaves, RequestEnds, ShutdownBegins, ClientHasDisconnected
<1>3. UpKept(up, a, {"connected", "timer"}) /\ ~a.connected /\ ~a.timer
  BY <1>1 DEF UpKept, IsUp, UpFields
<1>4. UpKept(up, b, {"shutdown"}) /\ b.shutdown
  BY <1>1 DEF UpKept, IsUp, UpFields
<1> HIDE DEF a, b
<1>5. UpIdle(a)
  BY <1>1, <1>3 DEF UpKept, UpFields, UpIdle, Inputs, Ended, Stopping, Rest
<1>6. UpIdle(b)
  BY <1>1, <1>4 DEF UpKept, UpFields, UpIdle, Inputs, Ended, Stopping, Rest
<1> QED
  BY <1>2, <1>5, <1>6

\* A new upload has nothing under way and expects data.
LEMMA IdleBegins ==
    ASSUME Bodies, UpInit
    PROVE  UpIdle(up)
<1>1. PICK k \in Kind, b \in BOOLEAN, d \in BOOLEAN : up = NewUpload(k, b, d)
  BY DEF UpInit
<1> DEFINE z == (Size(k) = 0)
           y == (Size(k) > 0)
<1>2. y => ~z
  <2>1. Wire[k] \in Seq({"data", "sig"})
    BY Zenon DEF Bodies
  <2>2. Len(Wire[k]) \in Nat
    BY <2>1
  <2>3. Size(k) \in Nat
    BY <2>2, CountIsNat DEF Size
  <2> QED
    BY <2>3
<1> HIDE DEF z, y
<1>3. /\ up.phase = "setup" /\ (up.frozen <=> z) /\ (up.timer <=> y) /\ up.readError = "none"
      /\ up.connected /\ up.auth = "init" /\ ~up.gone
  BY <1>1 DEF NewUpload, z, y
<1> QED
  BY <1>2, <1>3 DEF UpIdle, Inputs

\* Every step of an upload keeps it.
LEMMA IdleSteps ==
    ASSUME Bodies, InTime, UpBoundIInv, UpIdle(up), [UpNext]_up
    PROVE  UpIdle(up)'
<1>1. UpIInv
  BY DEF UpBoundIInv
<1>2. CASE SetupDone
  BY <1>2, SetupIsIdle
<1>3. CASE Arrive
  BY <1>1, <1>3, ArriveIsIdle
<1>4. CASE ReadTimeout
  BY <1>4, TimeoutIsIdle
<1>5. CASE WriteEnds
  <2>1. UpOK(up) /\ up.writing /\ ~up.gone
    BY <1>1, <1>5 DEF WriteEnds, UpIInv, Live
  <2>2. PICK r : /\ up' = r
                 /\ \/ \E low \in Chance(up, "memory") : r = WriteObjectSuccessful(up, low)
                    \/ r = WriteObjectFailed(up)
    BY <1>5 DEF WriteEnds
  <2>3. UpIdle(r)
    BY <2>1, <2>2, WriteSucceedsIdle, WriteFailsIdle
  <2> QED
    BY <2>2, <2>3
<1>6. CASE AuthAnswers
  <2> DEFINE t == Confirmed(up)
  <2>1. UpOK(up) /\ up.auth = "started" /\ ~up.gone
    BY <1>1, <1>6 DEF AuthAnswers, UpIInv, Live
  <2>2. PICK r : /\ up' = r
                 /\ \/ r = IF CycleEnds(t) THEN ChunkAuthSuccessful(t) ELSE NextChunk(t)
                    \/ r = ChunkAuthFailed(up)
    BY <1>6 DEF AuthAnswers
  <2>3. UpIdle(r)
    BY <2>1, <2>2, AuthSucceedsIdle, AuthFailsIdle
  <2> QED
    BY <2>2, <2>3
<1>7. CASE SaveEnds \/ CleanupEnds \/ ClientLeaves \/ RequestEnds \/ ShutdownBegins
  BY <1>1, <1>7, SaveIsIdle, CleanupIsIdle, LeaveIsIdle
<1>8. CASE UNCHANGED up
  BY <1>8
<1> QED
  BY <1>2, <1>3, <1>4, <1>5, <1>6, <1>7, <1>8 DEF UpNext

\* An upload that is gone has nothing under way that would call it back: no
\* write, no question to the authentication server, no save and no clean up task,
\* although actions end early on errors, rejections, timeouts, shutdowns and when
\* the client leaves.
THEOREM GoneUploadsAreIdle == Bodies /\ InTime /\ UpSpec => []GoneUploadIsIdle
<1> SUFFICES ASSUME Bodies, InTime PROVE UpSpec => []GoneUploadIsIdle
  OBVIOUS
<1> DEFINE IdleInv == UpIdle(up)
<1>1. UpInit => IdleInv
  BY IdleBegins
<1>2. UpBoundIInv /\ IdleInv /\ [UpNext]_up => IdleInv'
  BY IdleSteps
<1>3. IdleInv => GoneUploadIsIdle
  BY DEF UpIdle, Rest, GoneUploadIsIdle, Busy
<1> HIDE DEF IdleInv
<1> QED
  BY <1>1, <1>2, <1>3, UploadInvariantHolds, PTL DEF UpSpec
=============================================================================
