------------------------- MODULE CopyObject_proofs -------------------------
(***************************************************************************)
(* Proofs about the copy of an object, for every source, every number of   *)
(* parts, of blocks at a time and of parts at a time, whatever fails,      *)
(* whoever leaves and whenever the server shuts down: the object clients   *)
(* see keeps its data, every other Motr object is recorded, and a copier   *)
(* is idle when it is freed.                                               *)
(***************************************************************************)
EXTENDS CopyObject, FiniteSetTheorems, WellFoundedInduction, TLAPS

CopySpec == CopyInit /\ [][CopyNext]_copy

CopyFields ==
    {"what", "delayed", "op", "state", "index", "tried", "made", "recs", "oldRec", "oldLeft",
     "version", "live", "copiers", "inflight", "launched", "finished", "started", "status",
     "ended", "error", "cleanup", "tasks", "scheduled", "checks", "connected", "shutdown", "gone",
     "late", "crashed"}
IsCopy(s) == s = [f \in CopyFields |-> s[f]]

-----------------------------------------------------------------------------
(* The inductive invariant.                                                *)

\* A copier that has not failed has every block it has not written before it,
\* in its hands or on the way, and is freed when there is none.
CopierRecord ==
    [st : {"none", "run", "freed"}, left : Nat, reading : Nat, have : Nat, writing : Nat,
     failed : BOOLEAN, written : Nat]
CopierOK(c, size) ==
    /\ c \in CopierRecord /\ c.reading <= c.left
    /\ c.reading > 0 \/ c.st = "none" => c.have = 0
    /\ ~c.failed =>
          /\ c.written + c.writing + c.have + c.left = size
          /\ c.reading > 0 => c.reading = IF CopyBlocks < c.left THEN CopyBlocks ELSE c.left
          /\ size <= CopyBlocks => c.left = 0 \/ (c.have = 0 /\ c.writing = 0)
    /\ c.st # "run" => c.reading = 0 /\ c.writing = 0
    /\ c.st = "none" => ~c.failed
    /\ c.st = "freed" /\ ~c.failed => c.left = 0 /\ c.have = 0

InState(s, st) == {i \in Parts(s) : s.copiers[i].st = st}
Running(s) == InState(s, "run") # {}
\* A copier that has failed has a read and a write under way only if it was
\* stopped by the failure of another.
OneIfFailed(c) == c.failed => c.reading = 0 \/ c.writing = 0
CopiersOK(s) ==
    /\ s.copiers = [i \in Parts(s) |-> s.copiers[i]]
    /\ \A i \in Parts(s) : CopierOK(s.copiers[i], s.what.src[i])
    /\ Crashing(s) \/ \A i \in Parts(s) : OneIfFailed(s.copiers[i])
    /\ s.late => May("launch") /\ \E i \in Parts(s) : s.copiers[i].failed
    /\ s.crashed = FALSE
    /\ s.inflight = Cardinality(InState(s, "run")) /\ s.inflight <= MaxParallel
    /\ s.finished = Cardinality(InState(s, "freed"))
    /\ s.launched \in 0 .. Total(s)
    /\ \A i \in Parts(s) : s.copiers[i].st = "none" <=> i > s.launched
    /\ (\E i \in Parts(s) : s.copiers[i].st = "freed" /\ s.copiers[i].failed) => s.error

\* The clean up of a failed copy, and of one that is saved.
OldTasks == {"markNew", "unrecordOld", "deleteNew"}
NewTasks == {"markOld", "unrecordNew", "deleteOld"}
Tasks == OldTasks \cup NewTasks

RecordStates == {"none", "kept", "forced"}
CopyTypeOK(s) ==
    /\ IsCopy(s) /\ s.what \in Copies
    /\ s.index \in Parts(s) /\ s.made \subseteq Parts(s)
    /\ s.recs \in [Parts(s) -> RecordStates] /\ s.oldRec \in RecordStates
    /\ s.oldLeft \in 0 .. s.what.old /\ s.tasks \in Seq(Tasks)
    /\ \A f \in {"delayed", "error", "scheduled", "checks", "connected", "shutdown", "gone"} :
          s[f] \in BOOLEAN
    /\ s.scheduled => s.shutdown /\ s.error

\* The Motr objects and records there are when the first m parts are made and
\* the first n recorded.
Has(s, m, n) ==
    /\ s.made = 1 .. m
    /\ \A i \in Parts(s) : s.recs[i] = IF i <= n THEN "kept" ELSE "none"
OldIsKept(s) ==
    s.oldRec = IF s.what.old > 0 THEN "kept" ELSE "none"
AllWritten(s) == \A i \in Parts(s) : s.copiers[i].written = s.what.src[i]

\* Up to the save, where the request is says what there is.
CopyEarly == {"authenticate", "load", "authorize", "source"}
Building == CopyEarly \cup {"create", "record", "recordOld"}
Before(s) ==
    /\ s.op \in Building =>
          s.launched = 0 /\ s.checks /\ s.oldRec = "none" /\ ~s.gone /\ ~s.error /\ ~s.scheduled
          /\ s.state \notin {"completed", "writeFailed"}
    /\ s.op \in CopyEarly => s.index = 1 /\ Has(s, 0, 0)
    /\ s.op = "create" => Has(s, s.index - 1, s.index - 1)
    /\ s.op = "record" => Has(s, s.index, s.index - 1)
    /\ s.op = "recordOld" => Has(s, Total(s), Total(s)) /\ s.what.old > 0
    /\ s.op = "save" => /\ Has(s, Total(s), Total(s)) /\ OldIsKept(s) /\ AllWritten(s)
                        /\ ~Running(s) /\ ~s.checks /\ ~s.error /\ ~s.scheduled /\ ~s.late

\* While parts are copied everything is recorded, and nothing is cleaned up.
Copying(s) ==
    Running(s) =>
        /\ Has(s, Total(s), Total(s)) /\ OldIsKept(s) /\ s.checks /\ s.live # "new" /\ ~s.gone
        /\ s.op = IF s.scheduled THEN "none" ELSE "copy"
        /\ s.error /\ ~s.scheduled => s.state = "writeFailed"
        /\ s.state = "writeFailed" => s.error

\* The object before the copy, until the copy is saved.
OldOps == Building \cup OldTasks \cup {"copy", "save", "unrecordNew", "none"}
OldLives(s) ==
    /\ s.live = IF s.what.old > 0 THEN "old" ELSE "none"
    /\ s.oldLeft = s.what.old /\ s.oldRec # "forced" /\ s.state # "completed"
    /\ s.op \in OldOps /\ \A k \in 1 .. Len(s.tasks) : s.tasks[k] \in OldTasks
    /\ s.op = "unrecordNew" => s.made = {}
    /\ s.op \in OldTasks \cup {"unrecordNew"} => s.error
    /\ \A i \in s.made : s.recs[i] = "none" =>
          i = s.index /\ (s.op = "record" \/ (s.op = "none" /\ s.state = "probableEntryRecordFailed"))

\* The copy, once it is saved.
NewOps == NewTasks \cup {"deleteVersion", "unrecordOld", "none"}
NewLives(s) ==
    /\ s.made = Parts(s) /\ AllWritten(s) /\ \A i \in Parts(s) : s.recs[i] # "forced"
    /\ s.oldLeft > 0 => s.oldRec # "none"
    /\ s.op \in NewOps /\ (s.gone \/ \A k \in 1 .. Len(s.tasks) : s.tasks[k] \in NewTasks)
    /\ s.op \in {"deleteVersion", "unrecordOld"} => s.oldLeft = 0
    /\ s.op = "deleteOld" => s.oldLeft > 0
    /\ ~s.checks /\ ~s.late

CopyOK(s) ==
    /\ CopyTypeOK(s) /\ CopiersOK(s) /\ Before(s) /\ Copying(s)
    /\ IF s.live = "new" THEN NewLives(s) ELSE OldLives(s)

\* After a crash nothing is under way, the object before the copy is there and
\* what the copy made is recorded.
CrashedOK(s) ==
    /\ s.gone /\ s.inflight = 0 /\ s.late = FALSE /\ s.live # "new" /\ Crashing(s)
    /\ \A i \in Parts(s) :
          s.copiers[i].st = "freed" /\ s.copiers[i].reading = 0 /\ s.copiers[i].writing = 0
    /\ s.oldLeft = s.what.old /\ s.oldRec # "forced"
    /\ \A i \in s.made : s.recs[i] = "none" =>
          i = s.index /\ (s.op = "record" \/ s.state = "probableEntryRecordFailed")
Fine(s) == CopyOK(s) \/ CrashedOK(s)
CopyRuns == CopyOK(copy)
CopyIInv == Fine(copy)

\* A set of task numbers has a least one.
LEMMA LeastTask ==
    ASSUME NEW S \in SUBSET Nat, S # {}
    PROVE  \E j \in S : \A l \in S : j <= l
<1>1. PICK x \in S : \A y \in S : ~(<<y, x>> \in OpToRel(<, Nat))
  BY NatLessThanWellFounded, WFMin, Zenon
<1>2. \A y \in S : ~(y < x)
  BY <1>1, Zenon DEF OpToRel
<1> QED
  BY <1>2

-----------------------------------------------------------------------------
(* What the operators of the action do to its record.                      *)

\* All but the operation, the state, the error, the tasks and the flags of the
\* reply.
Same(s, t) ==
    /\ IsCopy(t) /\ t.what = s.what /\ t.delayed = s.delayed /\ t.index = s.index
    /\ t.made = s.made /\ t.recs = s.recs /\ t.oldRec = s.oldRec /\ t.oldLeft = s.oldLeft
    /\ t.live = s.live /\ t.copiers = s.copiers /\ t.inflight = s.inflight
    /\ t.launched = s.launched /\ t.finished = s.finished /\ t.checks = s.checks
    /\ t.connected = s.connected /\ t.shutdown = s.shutdown /\ t.late = s.late /\ t.crashed = s.crashed

LEMMA SameAgain ==
    ASSUME NEW s, NEW t, NEW u, Same(s, t), Same(t, u)
    PROVE  Same(s, u)
  BY DEF Same

\* send_response_to_s3_client up to the clean up.
LEMMA AnswerIs ==
    ASSUME NEW s, IsCopy(s)
    PROVE  /\ Same(s, Answer(s)) /\ Answer(s).op = "none" /\ Answer(s).error = s.error
           /\ Answer(s).scheduled = s.scheduled /\ Answer(s).gone = s.gone
           /\ Answer(s).tasks = s.tasks
           /\ Answer(s).state = IF ~s.error /\ ~s.scheduled THEN "completed" ELSE s.state
<1> DEFINE one == IF s.connected THEN 1 ELSE 0
           a == s.status + (IF s.started THEN 0 ELSE one)
           b == s.ended + one
           c == IF ~s.error /\ ~s.scheduled THEN "completed" ELSE s.state
<1>1. Answer(s) = [s EXCEPT !.status = a, !.ended = b, !.state = c, !.cleanup = TRUE, !.op = "none"]
  BY DEF Answer
<1> HIDE DEF a, b, c
<1> DEFINE u == [s EXCEPT !.status = a, !.ended = b, !.cleanup = TRUE]
           t == [u EXCEPT !.state = c, !.op = "none"]
<1>2. /\ IsCopy(u) /\ Same(s, u) /\ u.error = s.error
      /\ u.scheduled = s.scheduled /\ u.gone = s.gone /\ u.tasks = s.tasks
  BY DEF Same, IsCopy, CopyFields
<1>3. Answer(s) = t
  BY <1>1 DEF IsCopy, CopyFields
<1> HIDE DEF u
<1>4. /\ Same(u, t) /\ t.op = "none" /\ t.error = u.error
      /\ t.scheduled = u.scheduled /\ t.gone = u.gone /\ t.tasks = u.tasks /\ t.state = c
  BY <1>2 DEF Same, IsCopy, CopyFields
<1> HIDE DEF t
<1>5. Same(s, t)
  BY <1>2, <1>4, SameAgain
<1> QED
  BY <1>2, <1>3, <1>4, <1>5 DEF c

TasksIn(ts, S) == ts \in Seq(Tasks) /\ \A k \in 1 .. Len(ts) : ts[k] \in S

LEMMA SomeTasks ==
    ASSUME NEW ts, NEW S, TasksIn(ts, S), NEW k \in 1 .. Len(ts)
    PROVE  TasksIn(SubSeq(ts, k + 1, Len(ts)), S) /\ ts[k] \in S /\ ts[k] \in Tasks
<1> DEFINE u == SubSeq(ts, k + 1, Len(ts))
<1>1. ts \in Seq(Tasks) /\ Len(ts) \in Nat /\ k \in Nat /\ k <= Len(ts)
  BY DEF TasksIn
<1>2. u \in Seq(Tasks) /\ Len(u) = Len(ts) - k
  BY <1>1
<1>3. \A j \in 1 .. Len(ts) - k : u[j] = ts[k + j] /\ k + j \in 1 .. Len(ts)
  BY <1>1
<1> QED
  BY <1>1, <1>2, <1>3 DEF TasksIn

\* Action::next in the clean up, and done.
Carries(s, t) ==
    /\ Same(s, t) /\ t.state = s.state /\ t.error = s.error /\ t.scheduled = s.scheduled
    /\ \/ t.op = "none"
       \/ t.op \in Tasks /\ ~Idle(s, t.op) /\ t.gone = s.gone
LEMMA RunTasksIs ==
    ASSUME NEW s, NEW S, IsCopy(s), TasksIn(s.tasks, S), s.gone \in BOOLEAN
    PROVE  /\ Carries(s, RunTasks(s)) /\ TasksIn(RunTasks(s).tasks, S)
           /\ RunTasks(s).op \in S \cup {"none"} /\ RunTasks(s).gone \in BOOLEAN
<1> DEFINE todo == {k \in 1 .. Len(s.tasks) : ~Idle(s, s.tasks[k])}
           k == CHOOSE j \in todo : \A l \in todo : j <= l
<1>1. CASE todo = {}
  <2> DEFINE t == [s EXCEPT !.tasks = <<>>, !.op = "none", !.gone = TRUE]
  <2>1. RunTasks(s) = t
    BY <1>1 DEF RunTasks
  <2>2. /\ Same(s, t) /\ t.op = "none" /\ t.tasks = <<>> /\ t.gone = TRUE /\ t.state = s.state
        /\ t.error = s.error /\ t.scheduled = s.scheduled
    BY DEF Same, IsCopy, CopyFields
  <2>3. TasksIn(<<>>, S)
    BY DEF TasksIn
  <2> QED
    BY <2>1, <2>2, <2>3 DEF Carries
<1>2. CASE todo # {}
  <2>1. k \in todo
    <3>1. todo \subseteq Nat /\ todo # {}
      BY <1>2
    <3>2. \E j \in todo : \A l \in todo : j <= l
      BY <3>1, LeastTask
    <3> QED
      BY <3>2
  <2> HIDE DEF k
  <2> DEFINE o == s.tasks[k]
             u == SubSeq(s.tasks, k + 1, Len(s.tasks))
             t == [s EXCEPT !.op = o, !.tasks = u]
  <2>2. RunTasks(s) = t
    BY <1>2 DEF RunTasks, k
  <2>3. k \in 1 .. Len(s.tasks) /\ ~Idle(s, o)
    BY <2>1
  <2>4. TasksIn(u, S) /\ o \in S /\ o \in Tasks
    BY <2>3, SomeTasks
  <2> HIDE DEF o, u, todo
  <2>5. /\ Same(s, t) /\ t.op = o /\ t.tasks = u /\ t.gone = s.gone /\ t.state = s.state
        /\ t.error = s.error /\ t.scheduled = s.scheduled
    BY DEF Same, IsCopy, CopyFields
  <2> QED
    BY <2>2, <2>3, <2>4, <2>5 DEF Carries
<1> QED
  BY <1>1, <1>2

\* startcleanup: the tasks are those of the object that is not live.
LEMMA CleanupTasksAre ==
    ASSUME NEW s
    PROVE  /\ s.state = "completed" => TasksIn(CleanupTasks(s), NewTasks)
           /\ s.state # "completed" => TasksIn(CleanupTasks(s), OldTasks)
           /\ s.state = "probableEntryRecordFailed" => CleanupTasks(s) = <<>>
<1> DEFINE ts == CleanupTasks(s)
<1>1. TasksIn(<<>>, OldTasks) /\ TasksIn(<<>>, NewTasks)
  BY DEF TasksIn
<1>2. TasksIn(<<"markOld", "unrecordNew", "deleteOld">>, NewTasks)
  <2> DEFINE u == <<"markOld", "unrecordNew", "deleteOld">>
  <2>1. u \in Seq(Tasks) /\ Len(u) = 3 /\ u[1] = "markOld" /\ u[2] = "unrecordNew" /\ u[3] = "deleteOld"
    BY DEF Tasks, NewTasks
  <2> HIDE DEF u
  <2>2. TasksIn(u, NewTasks)
    BY <2>1 DEF TasksIn, NewTasks
  <2> QED
    BY <2>2 DEF u
<1>3. TasksIn(<<"unrecordNew">>, NewTasks)
  <2> DEFINE u == <<"unrecordNew">>
  <2>1. u \in Seq(Tasks) /\ Len(u) = 1 /\ u[1] = "unrecordNew"
    BY DEF Tasks, NewTasks
  <2> HIDE DEF u
  <2>2. TasksIn(u, NewTasks)
    BY <2>1 DEF TasksIn, NewTasks
  <2> QED
    BY <2>2 DEF u
<1>4. /\ TasksIn(<<"markNew">> \o <<"unrecordOld">> \o <<"deleteNew">>, OldTasks)
      /\ TasksIn(<<"markNew">> \o <<>> \o <<"deleteNew">>, OldTasks)
  <2>1. ASSUME NEW a, NEW b, TasksIn(a, OldTasks), TasksIn(b, OldTasks)
        PROVE  TasksIn(a \o b, OldTasks)
    <3>1. a \o b \in Seq(Tasks) /\ Len(a \o b) = Len(a) + Len(b) /\ Len(a) \in Nat /\ Len(b) \in Nat
      BY <2>1 DEF TasksIn
    <3>2. \A j \in 1 .. Len(a \o b) : \/ j \in 1 .. Len(a) /\ (a \o b)[j] = a[j]
                                      \/ j - Len(a) \in 1 .. Len(b) /\ (a \o b)[j] = b[j - Len(a)]
      BY <2>1 DEF TasksIn
    <3> QED
      BY <2>1, <3>1, <3>2 DEF TasksIn
  <2>2. ASSUME NEW a \in OldTasks PROVE TasksIn(<<a>>, OldTasks)
    <3> DEFINE u == <<a>>
    <3>1. u \in Seq(Tasks) /\ Len(u) = 1 /\ u[1] = a
      BY DEF Tasks
    <3> HIDE DEF u
    <3>2. TasksIn(u, OldTasks)
      BY <3>1 DEF TasksIn
    <3> QED
      BY <3>2 DEF u
  <2>3. TasksIn(<<"markNew">>, OldTasks) /\ TasksIn(<<"unrecordOld">>, OldTasks) /\ TasksIn(<<"deleteNew">>, OldTasks)
    BY <2>2 DEF OldTasks
  <2>4. TasksIn(<<"markNew">> \o <<"unrecordOld">>, OldTasks) /\ TasksIn(<<"markNew">> \o <<>>, OldTasks)
    BY <2>1, <2>3, <1>1
  <2> QED
    BY <2>1, <2>3, <2>4
<1>5. s.state = "completed" => ts = <<"markOld", "unrecordNew", "deleteOld">> \/ ts = <<"unrecordNew">>
  BY DEF CleanupTasks
<1>6. s.state # "completed" => \/ ts = <<"markNew">> \o <<"unrecordOld">> \o <<"deleteNew">>
                               \/ ts = <<"markNew">> \o <<>> \o <<"deleteNew">>
                               \/ ts = <<>>
  BY DEF CleanupTasks
<1>7. s.state = "probableEntryRecordFailed" => ts = <<>>
  BY DEF CleanupTasks
<1> HIDE DEF ts
<1>8. /\ s.state = "completed" => TasksIn(ts, NewTasks)
      /\ s.state # "completed" => TasksIn(ts, OldTasks)
  BY <1>1, <1>2, <1>3, <1>4, <1>5, <1>6
<1> QED
  BY <1>7, <1>8 DEF ts


\* What may change while the reply is sent.
Flags(s) ==
    /\ IsCopy(s) /\ s.scheduled \in BOOLEAN /\ s.gone \in BOOLEAN /\ s.shutdown \in BOOLEAN
    /\ s.checks \in BOOLEAN /\ s.error \in BOOLEAN /\ (s.scheduled => s.shutdown /\ s.error)
LEMMA SameFlags ==
    ASSUME NEW s, NEW t, Flags(s), Same(s, t), t.scheduled = s.scheduled, t.error \in BOOLEAN,
           t.gone \in BOOLEAN, s.error => t.error
    PROVE  Flags(t)
  BY DEF Flags, Same

\* A copy that has failed ends, or begins to remove what it has made.
OldEnds(s, t) ==
    /\ Same(s, t) /\ Flags(t) /\ t.error = TRUE /\ t.state = s.state
    /\ t.op \in OldTasks \cup {"none"} /\ TasksIn(t.tasks, OldTasks)
    /\ s.state = "probableEntryRecordFailed" => t.op = "none"
    /\ s.shutdown /\ s.checks => t.op = "none" /\ t.scheduled /\ t.gone = s.gone

LEMMA RespondOld ==
    ASSUME NEW s, Flags(s), s.error = TRUE, s.state # "completed", TasksIn(s.tasks, OldTasks)
    PROVE  OldEnds(s, RespondCopy(s))
<1> DEFINE a == Answer(s)
           r == RespondCopy(s)
<1>1. /\ Same(s, a) /\ a.op = "none" /\ a.error = TRUE /\ a.scheduled = s.scheduled
      /\ a.gone = s.gone /\ a.tasks = s.tasks /\ a.state = s.state
  BY AnswerIs DEF Flags
<1>2. Flags(a) /\ IsCopy(a)
  BY <1>1, SameFlags DEF Flags
<1>3. r = StartCopyCleanup(a)
  BY DEF RespondCopy
<1> SUFFICES OldEnds(s, r)
  OBVIOUS
<1> HIDE DEF a, r
<1>4. CASE ~(a.shutdown /\ a.checks)
  <2> DEFINE ts == CleanupTasks(a)
             t == [a EXCEPT !.tasks = ts]
  <2>1. TasksIn(ts, OldTasks) /\ (a.state = "probableEntryRecordFailed" => ts = <<>>)
    BY <1>1, CleanupTasksAre
  <2> HIDE DEF ts
  <2>2. /\ Same(a, t) /\ t.tasks = ts /\ t.op = "none" /\ t.error = TRUE /\ t.gone = a.gone
        /\ t.scheduled = a.scheduled /\ t.state = a.state
    BY <1>1, <1>2 DEF Same, IsCopy, CopyFields
  <2>3. r = IF t.tasks = <<>> THEN t ELSE RunTasks(t)
    BY <1>3, <1>4 DEF StartCopyCleanup, ts
  <2> HIDE DEF t
  <2>4. Flags(t) /\ IsCopy(t) /\ t.gone \in BOOLEAN
    BY <1>2, <2>2, SameFlags DEF Flags
  <2>5. Same(s, t)
    BY <1>1, <2>2, SameAgain
  <2>6. CASE t.tasks = <<>>
    BY <1>1, <1>4, <2>1, <2>2, <2>3, <2>4, <2>5, <2>6 DEF OldEnds, Same
  <2>7. CASE t.tasks # <<>>
    <3>1. /\ Carries(t, r) /\ TasksIn(r.tasks, OldTasks) /\ r.op \in OldTasks \cup {"none"}
          /\ r.gone \in BOOLEAN
      BY <2>1, <2>2, <2>3, <2>4, <2>7, RunTasksIs
    <3>2. Same(t, r) /\ r.state = t.state /\ r.error = TRUE /\ r.scheduled = t.scheduled
      BY <3>1, <2>2 DEF Carries
    <3>3. Same(s, r) /\ Flags(r)
      BY <3>1, <3>2, <2>4, <2>5, SameAgain, SameFlags
    <3> QED
      BY <1>1, <1>4, <2>1, <2>2, <2>7, <3>1, <3>2, <3>3 DEF OldEnds, Same
  <2> QED
    BY <2>6, <2>7
<1>5. CASE a.shutdown /\ a.checks /\ a.scheduled
  BY <1>1, <1>2, <1>3, <1>5 DEF StartCopyCleanup, OldEnds
<1>6. CASE a.shutdown /\ a.checks /\ ~a.scheduled
  <2> DEFINE t == [a EXCEPT !.scheduled = TRUE, !.error = TRUE]
  <2>1. r = Answer(t)
    BY <1>3, <1>6 DEF StartCopyCleanup
  <2>2. /\ Same(a, t) /\ t.tasks = a.tasks /\ t.op = "none" /\ t.error = TRUE /\ t.gone = a.gone
        /\ t.scheduled = TRUE /\ t.state = a.state
    BY <1>1, <1>2 DEF Same, IsCopy, CopyFields
  <2> HIDE DEF t
  <2>3. IsCopy(t)
    BY <2>2 DEF Same
  <2>4. /\ Same(t, r) /\ r.op = "none" /\ r.error = TRUE /\ r.scheduled = TRUE /\ r.gone = t.gone
        /\ r.tasks = t.tasks /\ r.state = t.state
    BY <2>1, <2>2, <2>3, AnswerIs
  <2>5. Same(s, r)
    BY <1>1, <2>2, <2>4, SameAgain
  <2>6. Flags(r)
    BY <1>2, <1>6, <2>2, <2>4, <2>5, <1>1 DEF Flags, Same
  <2> QED
    BY <1>1, <2>2, <2>4, <2>5, <2>6 DEF OldEnds
<1> QED
  BY <1>2, <1>4, <1>5, <1>6 DEF Flags

\* check_shutdown_and_rollback.
LEMMA RollbackOld ==
    ASSUME NEW s, Flags(s), s.shutdown, s.state # "completed", TasksIn(s.tasks, OldTasks)
    PROVE  OldEnds(s, CopyRollback(s))
<1> DEFINE r == CopyRollback(s)
<1>1. CASE s.scheduled
  <2> DEFINE t == [s EXCEPT !.op = "none"]
  <2>1. r = t
    BY <1>1 DEF CopyRollback
  <2>2. /\ Same(s, t) /\ t.op = "none" /\ t.tasks = s.tasks /\ t.error = s.error /\ t.gone = s.gone
        /\ t.scheduled = s.scheduled /\ t.state = s.state
    BY DEF Flags, Same, IsCopy, CopyFields
  <2> HIDE DEF t
  <2>3. Flags(t) /\ t.error = TRUE
    BY <1>1, <2>2, SameFlags DEF Flags
  <2> QED
    BY <1>1, <2>1, <2>2, <2>3 DEF OldEnds
<1>2. CASE ~s.scheduled
  <2> DEFINE t == [s EXCEPT !.scheduled = TRUE, !.error = TRUE]
  <2>1. r = RespondCopy(t)
    BY <1>2 DEF CopyRollback
  <2>2. /\ Same(s, t) /\ t.tasks = s.tasks /\ t.error = TRUE /\ t.gone = s.gone
        /\ t.scheduled = TRUE /\ t.state = s.state
    BY DEF Flags, Same, IsCopy, CopyFields
  <2> HIDE DEF t, r
  <2>3. Flags(t)
    BY <2>2 DEF Flags, Same
  <2>4. OldEnds(t, r)
    BY <2>1, <2>2, <2>3, RespondOld
  <2>5. Same(s, r) /\ t.shutdown = s.shutdown /\ t.checks = s.checks
    BY <2>2, <2>4, SameAgain DEF OldEnds, Same
  <2> QED
    BY <2>2, <2>4, <2>5 DEF OldEnds, r
<1> QED
  BY <1>1, <1>2

\* The copy is saved and its client told, or the clean up after that goes on.
NewEnds(s, t) ==
    /\ Same(s, t) /\ Flags(t)
    /\ t.op \in NewTasks \cup {"none"} /\ (s.error => t.error)
    /\ TasksIn(t.tasks, Tasks) /\ (t.gone \/ TasksIn(t.tasks, NewTasks))
    /\ t.op = "deleteOld" => s.oldLeft # 0
LEMMA NewTasksIn ==
    ASSUME NEW ts, TasksIn(ts, NewTasks)
    PROVE  TasksIn(ts, Tasks)
  BY DEF TasksIn, Tasks
LEMMA RunTasksNew ==
    ASSUME NEW s, Flags(s), TasksIn(s.tasks, NewTasks)
    PROVE  NewEnds(s, RunTasks(s))
<1>1. /\ Carries(s, RunTasks(s)) /\ TasksIn(RunTasks(s).tasks, NewTasks)
      /\ RunTasks(s).op \in NewTasks \cup {"none"} /\ RunTasks(s).gone \in BOOLEAN
  BY RunTasksIs DEF Flags
<1> DEFINE r == RunTasks(s)
<1> HIDE DEF r
<1>2. /\ Same(s, r) /\ r.scheduled = s.scheduled /\ r.error = s.error /\ r.error \in BOOLEAN
      /\ (r.op = "deleteOld" => ~Idle(s, "deleteOld"))
  BY <1>1 DEF r, Carries, Flags
<1>3. Flags(r)
  BY <1>1, <1>2, SameFlags DEF r
<1>4. r.op = "deleteOld" => s.oldLeft # 0
  BY <1>2 DEF Idle
<1> QED
  BY <1>1, <1>2, <1>3, <1>4, NewTasksIn DEF NewEnds, r

LEMMA RespondNew ==
    ASSUME NEW s, Flags(s), s.error = FALSE, s.scheduled = FALSE, s.checks = FALSE
    PROVE  NewEnds(s, RespondCopy(s))
<1> DEFINE a == Answer(s)
           ts == CleanupTasks(a)
           t == [a EXCEPT !.tasks = ts]
           r == RespondCopy(s)
<1>1. /\ Same(s, a) /\ a.op = "none" /\ a.error = FALSE /\ a.scheduled = FALSE
      /\ a.gone = s.gone /\ a.tasks = s.tasks /\ a.state = "completed"
  BY AnswerIs DEF Flags
<1>2. Flags(a) /\ IsCopy(a) /\ a.checks = FALSE
  BY <1>1, SameFlags DEF Flags, Same
<1>3. r = IF t.tasks = <<>> THEN t ELSE RunTasks(t)
  BY <1>2 DEF RespondCopy, StartCopyCleanup
<1>4. TasksIn(ts, NewTasks)
  BY <1>1, CleanupTasksAre
<1> HIDE DEF a, ts, r
<1>5. /\ Same(a, t) /\ t.tasks = ts /\ t.op = "none" /\ t.error = FALSE /\ t.gone = a.gone
      /\ t.scheduled = a.scheduled /\ t.state = a.state
  BY <1>1, <1>2 DEF Same, IsCopy, CopyFields
<1> HIDE DEF t
<1>6. Flags(t)
  BY <1>1, <1>2, <1>5, SameFlags DEF Flags
<1>7. Same(s, t)
  BY <1>1, <1>5, SameAgain
<1>8. CASE t.tasks = <<>>
  BY <1>3, <1>4, <1>5, <1>6, <1>7, <1>8, NewTasksIn DEF NewEnds, r
<1>9. CASE t.tasks # <<>>
  <2>1. NewEnds(t, r)
    BY <1>3, <1>4, <1>5, <1>6, <1>9, RunTasksNew
  <2>2. Same(s, r) /\ t.oldLeft = s.oldLeft
    BY <2>1, <1>7, SameAgain DEF NewEnds, Same
  <2> QED
    BY <2>1, <2>2 DEF NewEnds, r
<1> QED
  BY <1>8, <1>9

-----------------------------------------------------------------------------
(* A copy that ends keeps the invariant.                                   *)

LEMMA SameBase ==
    ASSUME NEW s, NEW t, CopyTypeOK(s), CopiersOK(s), Same(s, t), Flags(t),
           TasksIn(t.tasks, Tasks), s.error => t.error
    PROVE  CopyTypeOK(t) /\ CopiersOK(t)
<1>1. CopyTypeOK(t)
  <2>1. t.what \in Copies /\ Parts(t) = Parts(s) /\ IsCopy(t)
    BY DEF Same, Parts, CopyTypeOK
  <2>2. /\ t.index \in Parts(t) /\ t.made \subseteq Parts(t) /\ t.recs \in [Parts(t) -> RecordStates]
        /\ t.oldRec \in RecordStates /\ t.oldLeft \in 0 .. t.what.old
    BY <2>1 DEF Same, CopyTypeOK
  <2>3. \A f \in {"delayed", "error", "scheduled", "checks", "connected", "shutdown", "gone"} :
          t[f] \in BOOLEAN
    BY DEF Same, CopyTypeOK, Flags
  <2> QED
    BY <2>1, <2>2, <2>3 DEF CopyTypeOK, TasksIn, Flags
<1>2. CopiersOK(t)
  <2>1. /\ t.what = s.what /\ Parts(t) = Parts(s) /\ t.copiers = s.copiers /\ Total(t) = Total(s)
        /\ t.launched = s.launched /\ t.inflight = s.inflight /\ t.finished = s.finished
        /\ t.late = s.late /\ t.crashed = s.crashed /\ Crashing(t) = Crashing(s)
    BY DEF Same, Parts, Total, Crashing
  <2>2. InState(t, "run") = InState(s, "run") /\ InState(t, "freed") = InState(s, "freed")
    BY <2>1 DEF InState
  <2> QED
    BY <2>1, <2>2 DEF CopiersOK
<1> QED
  BY <1>1, <1>2

\* The object before the copy is live and untouched.
OldIsThere(s) ==
    /\ s.live = IF s.what.old > 0 THEN "old" ELSE "none"
    /\ s.oldLeft = s.what.old /\ s.oldRec # "forced" /\ s.state # "completed"
OldOver(s, t) ==
    /\ Same(s, t) /\ Flags(t) /\ t.state # "completed" /\ (s.error => t.error)
    /\ t.op \in OldTasks \cup {"none"} /\ TasksIn(t.tasks, OldTasks)
    /\ t.op # "none" => t.error = TRUE
\* Parts that are being copied go on only under a reply that is over.
CopyInterrupted(s, t) ==
    Running(s) => /\ Has(s, Total(s), Total(s)) /\ OldIsKept(s) /\ s.checks
                  /\ ~t.gone /\ t.scheduled /\ t.op = "none"
Unrecorded(s, t) ==
    \A i \in s.made : s.recs[i] = "none" =>
        i = s.index /\ t.op = "none" /\ t.state = "probableEntryRecordFailed"

LEMMA OldOverOK ==
    ASSUME NEW s, NEW t, CopyTypeOK(s), CopiersOK(s), OldIsThere(s), OldOver(s, t),
           CopyInterrupted(s, t), Unrecorded(s, t)
    PROVE  CopyOK(t) /\ t.live # "new"
<1>1. CopyTypeOK(t) /\ CopiersOK(t)
  <2>1. TasksIn(t.tasks, Tasks)
    BY DEF OldOver, TasksIn, Tasks
  <2> QED
    BY <2>1, SameBase DEF OldOver
<1>2. /\ t.what = s.what /\ t.live = s.live /\ t.oldLeft = s.oldLeft /\ t.oldRec = s.oldRec
      /\ t.made = s.made /\ t.recs = s.recs /\ t.index = s.index /\ t.copiers = s.copiers
      /\ t.checks = s.checks
  BY DEF OldOver, Same
<1>3. Before(t)
  BY DEF OldOver, Before, Building, CopyEarly, OldTasks
<1>4. Copying(t)
  <2>1. Running(t) => Running(s)
    BY <1>2 DEF Running, InState, Parts
  <2>2. SUFFICES ASSUME Running(t)
        PROVE  /\ Has(t, Total(t), Total(t)) /\ OldIsKept(t) /\ t.checks /\ t.live # "new" /\ ~t.gone
               /\ t.op = "none" /\ t.scheduled
    BY DEF Copying, OldOver, Flags
  <2>3. /\ Has(s, Total(s), Total(s)) /\ OldIsKept(s) /\ s.checks
        /\ ~t.gone /\ t.scheduled /\ t.op = "none"
    BY <2>1, <2>2 DEF CopyInterrupted
  <2> QED
    BY <1>2, <2>3 DEF Has, OldIsKept, OldIsThere, Total, Parts
<1>5. OldLives(t) /\ t.live # "new"
  <2>1. t.live = (IF t.what.old > 0 THEN "old" ELSE "none") /\ t.oldLeft = t.what.old /\ t.oldRec # "forced"
    BY <1>2 DEF OldIsThere
  <2>2. /\ t.op \in OldOps /\ t.state # "completed" /\ \A k \in 1 .. Len(t.tasks) : t.tasks[k] \in OldTasks
        /\ (t.op = "unrecordNew" => t.made = {}) /\ (t.op \in OldTasks \cup {"unrecordNew"} => t.error)
    BY DEF OldOver, OldOps, TasksIn, OldTasks
  <2>3. \A i \in t.made : t.recs[i] = "none" =>
          i = t.index /\ (t.op = "record" \/ (t.op = "none" /\ t.state = "probableEntryRecordFailed"))
    BY <1>2 DEF Unrecorded
  <2> QED
    BY <2>1, <2>2, <2>3 DEF OldLives
<1> QED
  BY <1>1, <1>3, <1>4, <1>5 DEF CopyOK

\* The same for a copy that is saved.
NewIsThere(s) ==
    /\ s.made = Parts(s) /\ AllWritten(s) /\ \A i \in Parts(s) : s.recs[i] # "forced"
    /\ s.oldLeft > 0 => s.oldRec # "none"
    /\ s.live = "new" /\ s.checks = FALSE /\ ~Running(s) /\ ~s.late
LEMMA NewEndsOK ==
    ASSUME NEW s, NEW t, CopyTypeOK(s), CopiersOK(s), NewIsThere(s), NewEnds(s, t)
    PROVE  CopyOK(t)
<1>1. CopyTypeOK(t) /\ CopiersOK(t)
  BY SameBase DEF NewEnds
<1>2. /\ t.what = s.what /\ t.live = s.live /\ t.oldLeft = s.oldLeft /\ t.oldRec = s.oldRec
      /\ t.made = s.made /\ t.recs = s.recs /\ t.index = s.index /\ t.copiers = s.copiers
      /\ t.checks = s.checks /\ t.late = s.late
  BY DEF NewEnds, Same
<1>3. Before(t)
  BY DEF NewEnds, Before, Building, CopyEarly, NewTasks
<1>4. Copying(t)
  BY <1>2 DEF Copying, Running, InState, Parts, NewIsThere
<1>5. NewLives(t) /\ t.live = "new"
  <2>1. /\ t.made = Parts(t) /\ AllWritten(t) /\ \A i \in Parts(t) : t.recs[i] # "forced"
        /\ (t.oldLeft > 0 => t.oldRec # "none") /\ t.live = "new" /\ ~t.checks /\ ~t.late
    BY <1>2 DEF NewIsThere, AllWritten, Parts
  <2>2. t.oldLeft \in Nat
    BY <1>1, CopyAssumption DEF CopyTypeOK
  <2>3. /\ t.op \in NewOps /\ (t.gone \/ \A k \in 1 .. Len(t.tasks) : t.tasks[k] \in NewTasks)
        /\ (t.op \in {"deleteVersion", "unrecordOld"} => t.oldLeft = 0)
        /\ (t.op = "deleteOld" => t.oldLeft > 0)
    BY <1>2, <2>2 DEF NewEnds, NewOps, NewTasks, TasksIn
  <2> QED
    BY <2>1, <2>3 DEF NewLives
<1> QED
  BY <1>1, <1>3, <1>4, <1>5 DEF CopyOK

\* What an event finds before the copy is saved, and where it may go from there.
OldBase(s) ==
    CopyTypeOK(s) /\ CopiersOK(s) /\ OldIsThere(s) /\ TasksIn(s.tasks, OldTasks)
NoneUnrecorded(s) == \A i \in s.made : s.recs[i] # "none"

LEMMA BaseFlags ==
    ASSUME NEW s, CopyTypeOK(s)
    PROVE  Flags(s)
  BY DEF CopyTypeOK, Flags

LEMMA PartsAre ==
    ASSUME NEW s, CopyTypeOK(s)
    PROVE  /\ Total(s) \in Nat \ {0} /\ Parts(s) = 1 .. Total(s)
           /\ s.what.src \in Seq(Nat) /\ s.what.old \in Nat /\ s.what.multi \in BOOLEAN
           /\ ~s.what.multi => Total(s) = 1
           /\ \A i \in Parts(s) : s.what.src[i] \in Nat
<1>1. /\ s.what.src \in Seq(Nat) /\ Len(s.what.src) > 0 /\ s.what.old \in Nat
      /\ s.what.multi \in BOOLEAN /\ (~s.what.multi => Len(s.what.src) = 1)
  BY CopyAssumption DEF CopyTypeOK
<1> QED
  BY <1>1 DEF Total, Parts

LEMMA NoneLaunched ==
    ASSUME NEW s, CopyTypeOK(s), CopiersOK(s), s.launched = 0
    PROVE  ~Running(s) /\ \A i \in Parts(s) : s.copiers[i].st = "none"
<1>1. \A i \in Parts(s) : i > 0
  BY PartsAre
<1>2. \A i \in Parts(s) : s.copiers[i].st = "none"
  BY <1>1 DEF CopiersOK
<1> QED
  BY <1>2 DEF Running, InState

LEMMA OldLivesBase ==
    ASSUME NEW s, CopyOK(s), s.live # "new"
    PROVE  OldBase(s) /\ OldLives(s)
  BY DEF CopyOK, OldLives, OldBase, OldIsThere, TasksIn, CopyTypeOK

LEMMA FailOK ==
    ASSUME NEW s, NEW st, OldBase(s), ~Running(s), st # "completed",
           \A i \in s.made : s.recs[i] = "none" =>
               i = s.index /\ st = "probableEntryRecordFailed"
    PROVE  CopyOK(FailCopy(s, st))
<1> DEFINE u == [s EXCEPT !.error = TRUE, !.state = st]
           r == FailCopy(s, st)
<1>1. Flags(s) /\ IsCopy(s)
  BY BaseFlags DEF OldBase, Flags
<1>2. /\ Same(s, u) /\ u.error = TRUE /\ u.state = st /\ u.tasks = s.tasks
      /\ u.gone = s.gone /\ u.scheduled = s.scheduled
  BY <1>1 DEF Same, IsCopy, CopyFields
<1>3. r = RespondCopy(u)
  BY DEF FailCopy
<1> SUFFICES CopyOK(r)
  OBVIOUS
<1> HIDE DEF u, r
<1>4. Flags(u) /\ TasksIn(u.tasks, OldTasks)
  BY <1>1, <1>2, SameFlags DEF OldBase, Flags
<1>5. OldEnds(u, r)
  BY <1>2, <1>3, <1>4, RespondOld
<1>6. Same(s, r)
  BY <1>2, <1>5, SameAgain DEF OldEnds
<1>7. OldOver(s, r)
  BY <1>2, <1>5, <1>6 DEF OldOver, OldEnds
<1>8. CopyInterrupted(s, r) /\ Unrecorded(s, r)
  BY <1>2, <1>5 DEF CopyInterrupted, Unrecorded, OldEnds
<1> QED
  BY <1>7, <1>8, OldOverOK DEF OldBase

LEMMA RollbackOK ==
    ASSUME NEW s, OldBase(s), s.shutdown, NoneUnrecorded(s), s.gone = FALSE,
           Running(s) => Has(s, Total(s), Total(s)) /\ OldIsKept(s) /\ s.checks
    PROVE  CopyOK(CopyRollback(s))
<1> DEFINE r == CopyRollback(s)
<1>1. OldEnds(s, r)
  BY BaseFlags, RollbackOld DEF OldBase, OldIsThere
<1> SUFFICES CopyOK(r)
  OBVIOUS
<1> HIDE DEF r
<1>2. OldOver(s, r)
  BY <1>1 DEF OldOver, OldEnds, OldBase, OldIsThere
<1>3. CopyInterrupted(s, r) /\ Unrecorded(s, r)
  BY <1>1 DEF CopyInterrupted, Unrecorded, OldEnds, NoneUnrecorded
<1> QED
  BY <1>2, <1>3, OldOverOK DEF OldBase

\* A client that has left: the action is over without a word.
LEMMA LeftOK ==
    ASSUME NEW s, OldBase(s), ~Running(s), NoneUnrecorded(s)
    PROVE  CopyOK([s EXCEPT !.gone = TRUE, !.op = "none"])
<1> DEFINE r == [s EXCEPT !.gone = TRUE, !.op = "none"]
<1>1. Flags(s) /\ IsCopy(s)
  BY BaseFlags DEF OldBase, Flags
<1>2. /\ Same(s, r) /\ r.error = s.error /\ r.state = s.state /\ r.tasks = s.tasks
      /\ r.gone = TRUE /\ r.op = "none" /\ r.scheduled = s.scheduled
  BY <1>1 DEF Same, IsCopy, CopyFields
<1> HIDE DEF r
<1>3. OldOver(s, r)
  BY <1>1, <1>2, SameFlags DEF OldOver, OldBase, OldIsThere, Flags
<1>4. CopyInterrupted(s, r) /\ Unrecorded(s, r)
  BY <1>2 DEF CopyInterrupted, Unrecorded, NoneUnrecorded
<1> QED
  BY <1>3, <1>4, OldOverOK DEF OldBase, r

LEMMA StoppedOK ==
    ASSUME NEW s, OldBase(s), ~Running(s), NoneUnrecorded(s), s.gone = FALSE
    PROVE  CopyOK(Stopped(s))
<1>1. CASE s.shutdown /\ s.checks
  <2>1. CopyOK(CopyRollback(s))
    BY <1>1, RollbackOK
  <2> QED
    BY <1>1, <2>1 DEF Stopped
<1>2. CASE ~(s.shutdown /\ s.checks)
  BY <1>2, LeftOK DEF Stopped
<1> QED
  BY <1>1, <1>2

\* One more operation before the first part is made.
LEMMA EarlyGoesOn ==
    ASSUME NEW s, CopyOK(s), s.op \in CopyEarly, NEW o \in CopyEarly \cup {"create"}
    PROVE  CopyOK([s EXCEPT !.op = o])
<1> DEFINE r == [s EXCEPT !.op = o]
<1>1. IsCopy(s) /\ Flags(s) /\ s.live # "new"
  BY BaseFlags DEF CopyOK, Flags, NewLives, NewOps, NewTasks, CopyEarly
<1>2. OldBase(s) /\ OldLives(s) /\ Before(s) /\ Copying(s)
  BY <1>1, OldLivesBase DEF CopyOK
<1>3. /\ Same(s, r) /\ r.error = s.error /\ r.state = s.state /\ r.tasks = s.tasks
      /\ r.gone = s.gone /\ r.op = o /\ r.scheduled = s.scheduled
  BY <1>1 DEF Same, IsCopy, CopyFields
<1> HIDE DEF r
<1>4. Flags(r) /\ TasksIn(r.tasks, Tasks)
  BY <1>1, <1>2, <1>3, SameFlags DEF Flags, OldBase, TasksIn, Tasks
<1>5. CopyTypeOK(r) /\ CopiersOK(r)
  BY <1>2, <1>3, <1>4, SameBase DEF OldBase
<1>6. /\ r.what = s.what /\ r.live = s.live /\ r.oldLeft = s.oldLeft /\ r.oldRec = s.oldRec
      /\ r.made = s.made /\ r.recs = s.recs /\ r.index = s.index /\ r.copiers = s.copiers
      /\ r.checks = s.checks /\ r.launched = s.launched /\ Parts(r) = Parts(s)
  BY <1>3 DEF Same, Parts
<1>7. s.index = 1 /\ Has(s, 0, 0) /\ s.launched = 0 /\ s.checks /\ s.oldRec = "none" /\ ~s.gone
      /\ ~s.error /\ ~s.scheduled /\ s.state \notin {"completed", "writeFailed"}
  BY <1>2 DEF Before, Building
<1>8. Before(r)
  BY <1>3, <1>6, <1>7 DEF Before, Has, CopyEarly, Building
<1>9. s.made = {}
  BY <1>7 DEF Has
<1>10. OldLives(r)
  BY <1>2, <1>3, <1>6, <1>9 DEF OldLives, OldOps, CopyEarly, Building, OldTasks
<1>11. ~Running(s)
  BY <1>2, <1>7, NoneLaunched DEF OldBase
<1>12. Copying(r)
  BY <1>6, <1>11 DEF Copying, Running, InState
<1> QED
  BY <1>1, <1>5, <1>6, <1>8, <1>10, <1>12 DEF CopyOK, r

-----------------------------------------------------------------------------
(* The steps before anything is copied.                                    *)

LEMMA BuildingFacts ==
    ASSUME NEW s, CopyOK(s), s.op \in Building
    PROVE  /\ OldBase(s) /\ OldLives(s) /\ Before(s) /\ ~Running(s) /\ s.live # "new" /\ IsCopy(s)
           /\ s.gone = FALSE /\ s.error = FALSE /\ s.scheduled = FALSE /\ s.checks = TRUE
           /\ s.launched = 0 /\ s.oldRec = "none" /\ s.state # "writeFailed"
<1>1. s.live # "new" /\ Before(s)
  BY DEF CopyOK, NewLives, NewOps, NewTasks, CopyEarly, Building
<1>2. OldBase(s) /\ OldLives(s)
  BY <1>1, OldLivesBase
<1>3. Flags(s) /\ IsCopy(s)
  BY <1>2, BaseFlags DEF OldBase, Flags
<1>4. /\ s.launched = 0 /\ s.checks /\ s.oldRec = "none" /\ ~s.gone /\ ~s.error /\ ~s.scheduled
      /\ s.state # "writeFailed"
  BY <1>1 DEF Before
<1>5. ~Running(s)
  BY <1>2, <1>4, NoneLaunched DEF OldBase
<1> QED
  BY <1>1, <1>2, <1>3, <1>4, <1>5 DEF Flags

LEMMA EarlyFacts ==
    ASSUME NEW s, CopyOK(s), s.op \in CopyEarly
    PROVE  s.op \in Building /\ NoneUnrecorded(s) /\ s.made = {}
<1>1. s.op \in Building
  BY DEF Building
<1>2. Before(s)
  BY <1>1, BuildingFacts
<1>3. s.made = {}
  BY <1>2 DEF Before, Has
<1> QED
  BY <1>1, <1>3 DEF NoneUnrecorded

LEMMA EarlyStep ==
    ASSUME NEW s, CopyOK(s), s.op \in CopyEarly
    PROVE  /\ CopyOK(FailCopy(s, "validationFailed"))
           /\ CopyOK(IF Stops(s) THEN Stopped(s) ELSE [s EXCEPT !.op = After[@]])
<1>1. OldBase(s) /\ ~Running(s) /\ NoneUnrecorded(s) /\ s.gone = FALSE
  BY BuildingFacts, EarlyFacts
<1>2. CopyOK(FailCopy(s, "validationFailed"))
  <2>1. \A i \in s.made : s.recs[i] = "none" =>
          i = s.index /\ "validationFailed" = "probableEntryRecordFailed"
    BY <1>1 DEF NoneUnrecorded
  <2> QED
    BY <1>1, <2>1, FailOK
<1>3. CopyOK(Stopped(s))
  BY <1>1, StoppedOK
<1>4. CopyOK([s EXCEPT !.op = After[@]])
  <2>1. After[s.op] \in CopyEarly \cup {"create"}
    BY DEF After, CopyEarly
  <2> DEFINE o == After[s.op]
  <2> HIDE DEF o
  <2>2. CopyOK([s EXCEPT !.op = o])
    BY <2>1, EarlyGoesOn DEF o
  <2> QED
    BY <2>2 DEF o
<1> QED
  BY <1>2, <1>3, <1>4

\* A copy is over with an error, and nothing has been made.
LEMMA EarlyOver ==
    ASSUME NEW s, NEW r, CopyOK(s), s.op \in CopyEarly, Same(s, r), r.error = TRUE, r.op = "none",
           r.gone \in BOOLEAN, r.scheduled = s.scheduled, r.state = s.state, r.tasks = s.tasks
    PROVE  CopyOK(r)
<1>1. OldBase(s) /\ ~Running(s) /\ s.made = {}
  BY BuildingFacts, EarlyFacts
<1>2. Flags(s)
  BY <1>1, BaseFlags DEF OldBase
<1>3. Flags(r)
  BY <1>2, SameFlags
<1>4. OldOver(s, r)
  BY <1>1, <1>3 DEF OldOver, OldBase, OldIsThere
<1>5. CopyInterrupted(s, r) /\ Unrecorded(s, r)
  BY <1>1 DEF CopyInterrupted, Unrecorded
<1> QED
  BY <1>1, <1>4, <1>5, OldOverOK DEF OldBase

LEMMA AuthEndsOK ==
    ASSUME CopyRuns, AuthEnds
    PROVE  CopyRuns'
<1> DEFINE u == [copy EXCEPT !.error = TRUE]
           a == Answer(u)
           r == [a EXCEPT !.gone = TRUE]
<1>1. CopyOK(copy) /\ copy.op \in CopyEarly
  BY DEF CopyRuns, AuthEnds, CopyEarly
<1>2. CASE copy' = r
  <2>1. IsCopy(copy)
    BY <1>1 DEF CopyOK, CopyTypeOK
  <2>2. /\ Same(copy, u) /\ u.error = TRUE /\ u.scheduled = copy.scheduled /\ u.state = copy.state
        /\ u.tasks = copy.tasks /\ IsCopy(u)
    BY <2>1 DEF Same, IsCopy, CopyFields
  <2> HIDE DEF u
  <2>3. /\ Same(u, a) /\ a.error = TRUE /\ a.scheduled = u.scheduled /\ a.op = "none"
        /\ a.state = u.state /\ a.tasks = u.tasks
    BY <2>2, AnswerIs
  <2> HIDE DEF a
  <2>4. /\ Same(a, r) /\ r.error = TRUE /\ r.scheduled = a.scheduled /\ r.op = "none"
        /\ r.state = a.state /\ r.tasks = a.tasks /\ r.gone = TRUE
    BY <2>3 DEF Same, IsCopy, CopyFields
  <2> HIDE DEF r
  <2>5. Same(copy, r)
    BY <2>2, <2>3, <2>4, SameAgain
  <2>6. CopyOK(r)
    BY <1>1, <2>2, <2>3, <2>4, <2>5, EarlyOver
  <2> QED
    BY <1>2, <2>6 DEF CopyRuns
<1>3. CASE copy' = IF Stops(copy) THEN Stopped(copy) ELSE [copy EXCEPT !.op = After[@]]
  BY <1>1, <1>3, EarlyStep DEF CopyRuns
<1> QED
  BY <1>2, <1>3 DEF AuthEnds

LEMMA LoadEndsOK ==
    ASSUME CopyRuns, LoadEnds
    PROVE  CopyRuns'
<1>1. CopyOK(copy) /\ copy.op \in CopyEarly
  BY DEF CopyRuns, LoadEnds, CopyEarly
<1> QED
  BY <1>1, EarlyStep DEF CopyRuns, LoadEnds

LEMMA SourceAuthEndsOK ==
    ASSUME CopyRuns, SourceAuthEnds
    PROVE  CopyRuns'
<1> DEFINE r == [copy EXCEPT !.op = "none", !.error = TRUE]
<1>1. CopyOK(copy) /\ copy.op \in CopyEarly
  BY DEF CopyRuns, SourceAuthEnds, CopyEarly
<1>2. CASE copy' = r
  <2>1. IsCopy(copy) /\ Flags(copy)
    BY <1>1, BaseFlags DEF CopyOK, CopyTypeOK
  <2>2. /\ Same(copy, r) /\ r.error = TRUE /\ r.scheduled = copy.scheduled /\ r.state = copy.state
        /\ r.tasks = copy.tasks /\ r.op = "none" /\ r.gone = copy.gone
    BY <2>1 DEF Same, IsCopy, CopyFields
  <2> HIDE DEF r
  <2>3. CopyOK(r)
    BY <1>1, <2>1, <2>2, EarlyOver DEF Flags
  <2> QED
    BY <1>2, <2>3 DEF CopyRuns
<1>3. CASE copy' = FailCopy(copy, "validationFailed")
  BY <1>1, <1>3, EarlyStep DEF CopyRuns
<1>4. CASE copy' = IF Stops(copy) THEN Stopped(copy) ELSE [copy EXCEPT !.op = After[@]]
  BY <1>1, <1>4, EarlyStep DEF CopyRuns
<1> QED
  BY <1>2, <1>3, <1>4 DEF SourceAuthEnds

\* The client leaves, the server begins to shut down, another oid is tried.
LEMMA OutsideOK ==
    ASSUME NEW s, NEW r, CopyOK(s), IsCopy(r), r.connected \in BOOLEAN, r.shutdown \in BOOLEAN,
           s.shutdown => r.shutdown,
           \A f \in CopyFields \ {"connected", "shutdown", "tried"} : r[f] = s[f]
    PROVE  CopyOK(r)
<1>1. /\ r.what = s.what /\ r.live = s.live /\ r.oldLeft = s.oldLeft /\ r.oldRec = s.oldRec
      /\ r.made = s.made /\ r.recs = s.recs /\ r.index = s.index /\ r.copiers = s.copiers
      /\ r.checks = s.checks /\ r.launched = s.launched /\ r.op = s.op /\ r.state = s.state
      /\ r.error = s.error /\ r.tasks = s.tasks /\ r.gone = s.gone /\ r.scheduled = s.scheduled
      /\ r.inflight = s.inflight /\ r.finished = s.finished /\ r.late = s.late /\ r.crashed = s.crashed /\ r.delayed = s.delayed
  BY DEF CopyFields
<1>2. Parts(r) = Parts(s) /\ Total(r) = Total(s) /\ Crashing(r) = Crashing(s)
  BY <1>1 DEF Parts, Total, Crashing
<1>3. InState(r, "run") = InState(s, "run") /\ InState(r, "freed") = InState(s, "freed")
  BY <1>1, <1>2 DEF InState
<1>4. CopyTypeOK(r)
  BY <1>1, <1>2 DEF CopyOK, CopyTypeOK
<1>5. CopiersOK(r)
  BY <1>1, <1>2, <1>3 DEF CopyOK, CopiersOK
<1>6. Running(r) = Running(s)
  BY <1>3 DEF Running
<1>7. AllWritten(r) = AllWritten(s)
  BY <1>1, <1>2 DEF AllWritten
<1>8. ASSUME NEW m, NEW n PROVE Has(r, m, n) = Has(s, m, n)
  BY <1>1, <1>2 DEF Has
<1>9. Before(r)
  BY <1>1, <1>2, <1>6, <1>7, <1>8 DEF CopyOK, Before, OldIsKept
<1>10. Copying(r)
  BY <1>1, <1>2, <1>6, <1>8 DEF CopyOK, Copying, OldIsKept
<1>11. s.live = "new" => NewLives(r)
  BY <1>1, <1>2, <1>7 DEF CopyOK, NewLives
<1>12. s.live # "new" => OldLives(r)
  BY <1>1, <1>2 DEF CopyOK, OldLives
<1> QED
  BY <1>1, <1>4, <1>5, <1>9, <1>10, <1>11, <1>12 DEF CopyOK

LEMMA LeavesOrShutsOK ==
    ASSUME CopyRuns, CopyClientLeaves \/ CopyShutdownBegins
    PROVE  CopyRuns'
<1> DEFINE c == [copy EXCEPT !.connected = FALSE]
           d == [copy EXCEPT !.shutdown = TRUE]
<1>1. CopyOK(copy) /\ IsCopy(copy) /\ copy.connected \in BOOLEAN /\ copy.shutdown \in BOOLEAN
  BY DEF CopyRuns, CopyOK, CopyTypeOK
<1>2. CopyOK(c)
  <2>1. /\ IsCopy(c) /\ c.connected = FALSE /\ c.shutdown = copy.shutdown
        /\ \A f \in CopyFields \ {"connected", "shutdown", "tried"} : c[f] = copy[f]
    BY <1>1 DEF IsCopy, CopyFields
  <2> HIDE DEF c
  <2> QED
    BY <1>1, <2>1, OutsideOK
<1>3. CopyOK(d)
  <2>1. /\ IsCopy(d) /\ d.connected = copy.connected /\ d.shutdown = TRUE
        /\ \A f \in CopyFields \ {"connected", "shutdown", "tried"} : d[f] = copy[f]
    BY <1>1 DEF IsCopy, CopyFields
  <2> HIDE DEF d
  <2> QED
    BY <1>1, <2>1, OutsideOK
<1> QED
  BY <1>2, <1>3 DEF CopyClientLeaves, CopyShutdownBegins, CopyRuns

-----------------------------------------------------------------------------
(* The Motr objects are made and recorded.                                 *)

LEMMA CopiersKept ==
    ASSUME NEW s, NEW t, CopiersOK(s), t.what = s.what, t.copiers = s.copiers,
           t.launched = s.launched, t.inflight = s.inflight, t.finished = s.finished,
           s.error => t.error, t.late = s.late /\ t.crashed = s.crashed
    PROVE  CopiersOK(t) /\ (Running(t) <=> Running(s)) /\ (AllWritten(t) <=> AllWritten(s))
<1>1. Parts(t) = Parts(s) /\ Total(t) = Total(s) /\ Crashing(t) = Crashing(s)
  BY DEF Parts, Total, Crashing
<1>2. InState(t, "run") = InState(s, "run") /\ InState(t, "freed") = InState(s, "freed")
  BY <1>1 DEF InState
<1> QED
  BY <1>1, <1>2 DEF CopiersOK, Running, AllWritten

\* The other fields of a record, when these have been changed.
Kept(s, t, changed) ==
    IsCopy(t) /\ \A f \in CopyFields \ changed : t[f] = s[f]

LEMMA MadeOK ==
    ASSUME NEW s, CopyOK(s), s.op = "create"
    PROVE  CopyOK([s EXCEPT !.op = "record", !.state = "newObjOidCreated",
                            !.made = @ \cup {s.index}])
<1> DEFINE m == s.made \cup {s.index}
           r == [s EXCEPT !.op = "record", !.state = "newObjOidCreated", !.made = m]
<1>1. s.op \in Building
  BY DEF Building
<1>2. /\ OldBase(s) /\ OldLives(s) /\ Before(s) /\ ~Running(s) /\ s.live # "new" /\ IsCopy(s)
      /\ s.gone = FALSE /\ s.error = FALSE /\ s.scheduled = FALSE /\ s.checks = TRUE
      /\ s.launched = 0 /\ s.oldRec = "none"
  BY <1>1, BuildingFacts
<1>3. Has(s, s.index - 1, s.index - 1) /\ s.index \in Parts(s)
  BY <1>2 DEF Before, OldBase, CopyTypeOK
<1> HIDE DEF m
<1>4. /\ Kept(s, r, {"op", "state", "made"}) /\ r.op = "record" /\ r.state = "newObjOidCreated"
      /\ r.made = m
  BY <1>2 DEF IsCopy, CopyFields, Kept
<1> HIDE DEF r
<1>5. /\ IsCopy(r) /\ r.what = s.what /\ r.live = s.live /\ r.oldLeft = s.oldLeft
      /\ r.oldRec = s.oldRec /\ r.recs = s.recs /\ r.index = s.index /\ r.copiers = s.copiers
      /\ r.checks = s.checks /\ r.launched = s.launched /\ r.error = s.error /\ r.tasks = s.tasks
      /\ r.gone = s.gone /\ r.scheduled = s.scheduled /\ r.inflight = s.inflight
      /\ r.finished = s.finished /\ r.late = s.late /\ r.crashed = s.crashed /\ r.delayed = s.delayed /\ r.connected = s.connected
      /\ r.shutdown = s.shutdown
  BY <1>4 DEF Kept, CopyFields
<1>6. Parts(r) = Parts(s) /\ Parts(s) = 1 .. Total(s) /\ Total(s) \in Nat
  BY <1>2, <1>5, PartsAre DEF Parts, OldBase
<1>7. m = 1 .. s.index /\ m \subseteq Parts(s) /\ s.index \in Nat
  BY <1>3, <1>6 DEF m, Has
<1>8. CopyTypeOK(r)
  BY <1>2, <1>4, <1>5, <1>6, <1>7 DEF CopyTypeOK, OldBase
<1>9. CopiersOK(r) /\ ~Running(r)
  BY <1>2, <1>5, CopiersKept DEF OldBase
<1>10. Has(r, r.index, r.index - 1)
  BY <1>3, <1>4, <1>5, <1>6, <1>7 DEF Has
<1>11. Before(r)
  BY <1>2, <1>4, <1>5, <1>10 DEF Before, Building, CopyEarly
<1>12. Copying(r)
  BY <1>9 DEF Copying
<1>13. \A i \in m : s.recs[i] = "none" => i = s.index
  BY <1>3, <1>6, <1>7 DEF Has
<1>14. OldLives(r)
  BY <1>2, <1>4, <1>5, <1>13 DEF OldLives, OldOps, Building, OldTasks
<1> QED
  BY <1>2, <1>5, <1>8, <1>9, <1>11, <1>12, <1>14 DEF CopyOK, r, m

LEMMA CreateEndsOK ==
    ASSUME CopyRuns, CreateEnds
    PROVE  CopyRuns'
<1>1. CopyOK(copy) /\ copy.op = "create" /\ copy.op \in Building
  BY DEF CopyRuns, CreateEnds, Building
<1>2. /\ OldBase(copy) /\ Before(copy) /\ ~Running(copy) /\ IsCopy(copy) /\ copy.gone = FALSE
  BY <1>1, BuildingFacts
<1>3. NoneUnrecorded(copy)
  <2>1. Has(copy, copy.index - 1, copy.index - 1)
    BY <1>1, <1>2 DEF Before
  <2>2. copy.index \in Nat /\ copy.index <= Total(copy) /\ Parts(copy) = 1 .. Total(copy) /\ Total(copy) \in Nat
    BY <1>2, PartsAre DEF OldBase, CopyTypeOK
  <2> QED
    BY <2>1, <2>2 DEF Has, NoneUnrecorded
<1>4. CASE copy' = [copy EXCEPT !.op = "record", !.state = "newObjOidCreated",
                               !.made = @ \cup {copy.index}]
  BY <1>1, <1>4, MadeOK DEF CopyRuns
<1>5. CASE copy' = CreateFails(copy)
  <2>1. CASE copy.shutdown
    <3>1. CopyOK(CopyRollback(copy))
      BY <1>2, <1>3, <2>1, RollbackOK
    <3> QED
      BY <1>5, <2>1, <3>1 DEF CreateFails, CopyRuns
  <2>2. CASE ~copy.shutdown
    <3>1. \A i \in copy.made : copy.recs[i] = "none" =>
            i = copy.index /\ "newObjOidCreationFailed" = "probableEntryRecordFailed"
      BY <1>3 DEF NoneUnrecorded
    <3>2. CopyOK(FailCopy(copy, "newObjOidCreationFailed"))
      BY <1>2, <3>1, FailOK
    <3> QED
      BY <1>5, <2>2, <3>2 DEF CreateFails, CopyRuns
  <2> QED
    BY <2>1, <2>2
<1>6. CASE copy' = [copy EXCEPT !.tried = @ + 1]
  <2> DEFINE n == copy.tried + 1
             r == [copy EXCEPT !.tried = n]
  <2> HIDE DEF n
  <2>1. /\ IsCopy(r) /\ r.connected = copy.connected /\ r.shutdown = copy.shutdown
        /\ \A f \in CopyFields \ {"connected", "shutdown", "tried"} : r[f] = copy[f]
    BY <1>2 DEF IsCopy, CopyFields
  <2>2. copy' = r
    BY <1>6 DEF n
  <2>3. copy.connected \in BOOLEAN /\ copy.shutdown \in BOOLEAN
    BY <1>2 DEF OldBase, CopyTypeOK
  <2> HIDE DEF r
  <2>4. CopyOK(r)
    BY <1>1, <2>1, <2>3, OutsideOK
  <2> QED
    BY <2>2, <2>4 DEF CopyRuns
<1> QED
  BY <1>4, <1>5, <1>6 DEF CreateEnds

\* Everything is made and recorded, and nothing is wrong.
AllRecorded(s) ==
    /\ OldBase(s) /\ Has(s, Total(s), Total(s)) /\ OldIsKept(s) /\ s.checks = TRUE
LEMMA AllRecordedFacts ==
    ASSUME NEW s, AllRecorded(s)
    PROVE  s.made = Parts(s) /\ NoneUnrecorded(s) /\ s.live # "new" /\ IsCopy(s)
           /\ \A i \in Parts(s) : s.recs[i] = "kept"
<1>1. Parts(s) = 1 .. Total(s) /\ Total(s) \in Nat /\ s.what.old \in Nat
  BY PartsAre DEF AllRecorded, OldBase
<1>2. s.made = Parts(s) /\ \A i \in Parts(s) : s.recs[i] = "kept"
  BY <1>1 DEF AllRecorded, Has
<1> QED
  BY <1>2 DEF NoneUnrecorded, AllRecorded, OldBase, OldIsThere, CopyTypeOK

LEMMA SaveCopyOK ==
    ASSUME NEW s, AllRecorded(s), AllWritten(s), ~Running(s), s.error = FALSE, ~s.late
    PROVE  CopyOK(SaveCopy(s))
<1> DEFINE r == [s EXCEPT !.op = "save", !.checks = FALSE]
<1>1. /\ OldBase(s) /\ IsCopy(s) /\ Has(s, Total(s), Total(s)) /\ OldIsKept(s) /\ NoneUnrecorded(s)
      /\ s.live # "new" /\ s.scheduled = FALSE
  BY AllRecordedFacts DEF AllRecorded, OldBase, CopyTypeOK
<1>2. Kept(s, r, {"op", "checks"}) /\ r.op = "save" /\ r.checks = FALSE
  BY <1>1 DEF IsCopy, CopyFields, Kept
<1> HIDE DEF r
<1>3. /\ IsCopy(r) /\ r.what = s.what /\ r.live = s.live /\ r.oldLeft = s.oldLeft /\ r.made = s.made
      /\ r.oldRec = s.oldRec /\ r.recs = s.recs /\ r.index = s.index /\ r.copiers = s.copiers
      /\ r.launched = s.launched /\ r.error = s.error /\ r.tasks = s.tasks /\ r.state = s.state
      /\ r.gone = s.gone /\ r.scheduled = s.scheduled /\ r.inflight = s.inflight
      /\ r.finished = s.finished /\ r.delayed = s.delayed /\ r.connected = s.connected
      /\ r.shutdown = s.shutdown /\ r.late = s.late /\ r.crashed = s.crashed
  BY <1>2 DEF Kept, CopyFields
<1>4. Parts(r) = Parts(s) /\ Total(r) = Total(s)
  BY <1>3 DEF Parts, Total
<1>5. CopyTypeOK(r)
  BY <1>1, <1>2, <1>3, <1>4 DEF CopyTypeOK, OldBase
<1>6. CopiersOK(r) /\ ~Running(r) /\ AllWritten(r)
  BY <1>1, <1>3, CopiersKept DEF OldBase
<1>7. Has(r, Total(r), Total(r)) /\ OldIsKept(r)
  BY <1>1, <1>3, <1>4 DEF Has, OldIsKept
<1>8. Before(r)
  BY <1>1, <1>2, <1>3, <1>6, <1>7 DEF Before, Building, CopyEarly
<1>9. Copying(r)
  BY <1>6 DEF Copying
<1>10. OldLives(r)
  BY <1>1, <1>2, <1>3, <1>4 DEF OldLives, OldOps, OldTasks, OldBase, OldIsThere, TasksIn, NoneUnrecorded
<1> QED
  BY <1>1, <1>3, <1>5, <1>6, <1>8, <1>9, <1>10 DEF CopyOK, SaveCopy, r

\* The server crashes under a copy that is not saved.
CrashBase(s) ==
    /\ IsCopy(s) /\ s.live # "new" /\ s.oldLeft = s.what.old /\ s.oldRec # "forced"
    /\ \A i \in s.made : s.recs[i] = "none" =>
          i = s.index /\ (s.op = "record" \/ s.state = "probableEntryRecordFailed")
LEMMA CrashOK ==
    ASSUME NEW s, CrashBase(s), Crashing(s), \A i \in Parts(s) : s.copiers[i] \in CopierRecord
    PROVE  CrashedOK(Crash(s))
<1> DEFINE cs == [i \in Parts(s) |-> [s.copiers[i] EXCEPT !.st = "freed", !.reading = 0, !.writing = 0]]
           t == [s EXCEPT !.gone = TRUE, !.crashed = TRUE, !.late = FALSE, !.inflight = 0, !.copiers = cs]
<1>1. Crash(s) = t
  BY DEF Crash
<1>2. \A i \in Parts(s) : cs[i].st = "freed" /\ cs[i].reading = 0 /\ cs[i].writing = 0
  BY DEF CopierRecord
<1> HIDE DEF cs
<1>3. /\ t.gone = TRUE /\ t.late = FALSE /\ t.inflight = 0 /\ t.copiers = cs /\ t.what = s.what
      /\ t.live = s.live /\ t.oldLeft = s.oldLeft /\ t.oldRec = s.oldRec /\ t.made = s.made
      /\ t.recs = s.recs /\ t.index = s.index /\ t.op = s.op /\ t.state = s.state
  BY DEF CrashBase, IsCopy, CopyFields
<1> HIDE DEF t
<1>4. Parts(t) = Parts(s) /\ Crashing(t)
  BY <1>3 DEF Parts, Total, Crashing
<1> QED
  BY <1>1, <1>2, <1>3, <1>4 DEF CrashedOK, CrashBase

LEMMA CrashRecorded ==
    ASSUME NEW s, AllRecorded(s), Crashing(s)
    PROVE  CrashedOK(Crash(s))
<1>1. CrashBase(s)
  BY AllRecordedFacts DEF CrashBase, NoneUnrecorded, AllRecorded, OldBase, OldIsThere
<1>2. \A i \in Parts(s) : s.copiers[i] \in CopierRecord
  BY DEF AllRecorded, OldBase, CopiersOK, CopierOK
<1> QED
  BY <1>1, <1>2, CrashOK

\* An exception.
LEMMA ThrownOK ==
    ASSUME NEW s, AllRecorded(s), May("exception"), Total(s) = 1 => ~Running(s)
    PROVE  Fine(Thrown(s))
<1>1. OldBase(s) /\ NoneUnrecorded(s) /\ s.state # "completed" /\ IsCopy(s)
  BY AllRecordedFacts DEF AllRecorded, OldBase, OldIsThere
<1>2. CASE Total(s) = 1
  <2>1. CopyOK(FailCopy(s, s.state))
    BY <1>1, <1>2, FailOK DEF NoneUnrecorded
  <2> QED
    BY <1>2, <2>1 DEF Thrown, Fine
<1>3. CASE Total(s) # 1
  <2> DEFINE e == [s EXCEPT !.error = TRUE]
             a == Answer(e)
  <2>1. Same(s, e) /\ IsCopy(e)
    BY <1>1 DEF Same, IsCopy, CopyFields
  <2> HIDE DEF e
  <2>2. Same(e, a)
    BY <2>1, AnswerIs
  <2> HIDE DEF a
  <2>3. Same(s, a)
    BY <2>1, <2>2, SameAgain
  <2>4. CrashBase(a) /\ Parts(a) = Parts(s) /\ a.copiers = s.copiers
    BY <1>1, <2>3, AllRecordedFacts DEF CrashBase, NoneUnrecorded, AllRecorded, OldBase, OldIsThere, Same, Parts
  <2>5. \A i \in Parts(a) : a.copiers[i] \in CopierRecord
    BY <1>1, <2>4 DEF OldBase, CopiersOK, CopierOK
  <2>6. CrashedOK(Crash(a))
    BY <2>4, <2>5, CrashOK DEF Crashing
  <2> QED
    BY <1>3, <2>6 DEF Thrown, Fine, a, e
<1> QED
  BY <1>2, <1>3

\* read_data_block.
LEMMA ReadDataBlockIs ==
    ASSUME NEW c, NEW size \in Nat, CopierOK(c, size), c.st = "run", ~c.failed,
           c.have = 0
    PROVE  CopierOK(ReadDataBlock(c), size) /\ ReadDataBlock(c).st = "run" /\ ~ReadDataBlock(c).failed
<1> DEFINE n == IF CopyBlocks < c.left THEN CopyBlocks ELSE c.left
           r == [c EXCEPT !.reading = n]
<1>1. c \in CopierRecord /\ CopyBlocks \in Nat /\ c.left \in Nat
  BY CopyAssumption DEF CopierOK, CopierRecord
<1>2. n \in Nat /\ n <= c.left
  BY <1>1
<1> HIDE DEF n
<1>3. /\ r \in CopierRecord /\ r.reading = n /\ r.st = c.st /\ r.left = c.left /\ r.have = c.have
      /\ r.writing = c.writing /\ r.failed = c.failed /\ r.written = c.written
  BY <1>1, <1>2 DEF CopierRecord
<1>4. ReadDataBlock(c) = r
  BY DEF ReadDataBlock, n
<1> HIDE DEF r
<1>5. CopierOK(r, size)
  BY <1>2, <1>3 DEF CopierOK, n
<1> QED
  BY <1>3, <1>4, <1>5

\* copy: a copier that has not been used starts to read.
LEMMA RunCopierIs ==
    ASSUME NEW c, NEW size \in Nat, CopierOK(c, size), c.st = "none"
    PROVE  CopierOK(RunCopier(c), size) /\ RunCopier(c).st = "run" /\ ~RunCopier(c).failed
<1> DEFINE d == [c EXCEPT !.st = "run"]
<1>1. /\ d \in CopierRecord /\ d.reading = c.reading /\ d.st = "run" /\ d.left = c.left
      /\ d.have = c.have /\ d.writing = c.writing /\ d.failed = c.failed /\ d.written = c.written
  BY DEF CopierOK, CopierRecord
<1> HIDE DEF d
<1>2. CopierOK(d, size) /\ ~d.failed /\ d.have = 0
  BY <1>1 DEF CopierOK
<1>3. CopierOK(ReadDataBlock(d), size) /\ ReadDataBlock(d).st = "run" /\ ~ReadDataBlock(d).failed
  BY <1>1, <1>2, ReadDataBlockIs
<1> QED
  BY <1>3 DEF RunCopier, d

\* An object without data has nothing to copy.
NoData(s) == s.what.src = <<0>>
LEMMA FirstCopiersOK ==
    ASSUME NEW s, AllRecorded(s), s.launched = 0, s.error = FALSE, s.gone = FALSE,
           ~NoData(s), s.state # "writeFailed"
    PROVE  CopyOK(CopyObjects(s, "reads"))
<1> DEFINE n == FirstCopiers(s)
           cs == [i \in Parts(s) |-> IF i > n THEN s.copiers[i] ELSE RunCopier(s.copiers[i])]
           b == StartsReply(s)
           st == s.status + (IF StartsReply(s) /\ s.connected THEN 1 ELSE 0)
           u == [s EXCEPT !.op = "copy", !.launched = n, !.inflight = n, !.copiers = cs]
           r == [u EXCEPT !.started = b, !.status = st]
<1>1. /\ OldBase(s) /\ IsCopy(s) /\ Has(s, Total(s), Total(s)) /\ OldIsKept(s) /\ NoneUnrecorded(s)
      /\ s.live # "new" /\ s.scheduled = FALSE /\ s.checks = TRUE
  BY AllRecordedFacts DEF AllRecorded, OldBase, CopyTypeOK
<1>2. /\ Total(s) \in Nat \ {0} /\ Parts(s) = 1 .. Total(s)
      /\ \A i \in Parts(s) : s.what.src[i] \in Nat
  BY <1>1, PartsAre DEF OldBase
<1>3. n \in 1 .. Total(s) /\ n <= MaxParallel /\ n \in Nat
  BY <1>2, CopyAssumption DEF FirstCopiers
<1>4. CopyObjects(s, "reads") = r
  BY <1>1 DEF CopyObjects, NoData, IsCopy, CopyFields
<1>5. \A i \in Parts(s) : s.copiers[i].st = "none" /\ CopierOK(s.copiers[i], s.what.src[i])
  BY <1>1, NoneLaunched DEF OldBase, CopiersOK
<1>6. \A i \in Parts(s) :
        /\ CopierOK(cs[i], s.what.src[i]) /\ ~cs[i].failed
        /\ cs[i].st = IF i > n THEN "none" ELSE "run"
  <2> SUFFICES ASSUME NEW i \in Parts(s)
               PROVE  /\ CopierOK(cs[i], s.what.src[i]) /\ ~cs[i].failed
                      /\ cs[i].st = IF i > n THEN "none" ELSE "run"
    OBVIOUS
  <2>1. cs[i] = IF i > n THEN s.copiers[i] ELSE RunCopier(s.copiers[i])
    OBVIOUS
  <2> HIDE DEF cs, n
  <2>2. /\ CopierOK(RunCopier(s.copiers[i]), s.what.src[i]) /\ RunCopier(s.copiers[i]).st = "run"
        /\ ~RunCopier(s.copiers[i]).failed
    BY <1>2, <1>5, RunCopierIs
  <2>3. ~s.copiers[i].failed
    BY <1>5 DEF CopierOK
  <2> QED
    BY <1>5, <2>1, <2>2, <2>3
<1>7. cs = [i \in Parts(s) |-> cs[i]]
  OBVIOUS
<1> HIDE DEF n, cs, b, st
<1>8. /\ Kept(s, u, {"op", "launched", "inflight", "copiers"})
      /\ u.op = "copy" /\ u.launched = n /\ u.inflight = n /\ u.copiers = cs
  BY <1>1 DEF IsCopy, CopyFields, Kept
<1> HIDE DEF u
<1>9. /\ Kept(u, r, {"started", "status"})
  BY <1>8 DEF IsCopy, CopyFields, Kept
<1> HIDE DEF r
<1>10. /\ IsCopy(r) /\ r.what = s.what /\ r.live = s.live /\ r.oldLeft = s.oldLeft /\ r.made = s.made
       /\ r.oldRec = s.oldRec /\ r.recs = s.recs /\ r.index = s.index /\ r.copiers = cs
       /\ r.launched = n /\ r.error = s.error /\ r.tasks = s.tasks /\ r.state = s.state
       /\ r.gone = s.gone /\ r.scheduled = s.scheduled /\ r.inflight = n
       /\ r.finished = s.finished /\ r.delayed = s.delayed /\ r.connected = s.connected
       /\ r.shutdown = s.shutdown /\ r.checks = s.checks /\ r.op = "copy" /\ r.late = s.late /\ r.crashed = s.crashed
  BY <1>8, <1>9 DEF Kept, CopyFields
<1>11. Parts(r) = Parts(s) /\ Total(r) = Total(s)
  BY <1>10 DEF Parts, Total
<1>12. CopyTypeOK(r)
  BY <1>1, <1>10, <1>11 DEF CopyTypeOK, OldBase
<1>13. InState(r, "run") = 1 .. n /\ InState(r, "freed") = {} /\ InState(s, "freed") = {}
  BY <1>2, <1>3, <1>5, <1>6, <1>10, <1>11 DEF InState
<1>14. CopiersOK(r)
  <2>1. r.inflight = Cardinality(InState(r, "run"))
    <3>1. Cardinality(1 .. n) = n
      BY <1>3, FS_Interval
    <3> QED
      BY <1>10, <1>13, <3>1
  <2>2. r.finished = Cardinality(InState(r, "freed"))
    BY <1>1, <1>10, <1>13 DEF OldBase, CopiersOK
  <2>3. \A i \in Parts(r) : r.copiers[i].st = "none" <=> i > r.launched
    BY <1>6, <1>10, <1>11
  <2>4. ~\E i \in Parts(r) : r.copiers[i].st = "freed" /\ r.copiers[i].failed
    BY <1>6, <1>10, <1>11
  <2>5. /\ r.copiers = [i \in Parts(r) |-> r.copiers[i]]
        /\ \A i \in Parts(r) : CopierOK(r.copiers[i], r.what.src[i]) /\ ~r.copiers[i].failed
    BY <1>6, <1>7, <1>10, <1>11
  <2>6. r.launched \in 0 .. Total(r) /\ r.inflight <= MaxParallel
    BY <1>2, <1>3, <1>10, <1>11
  <2>7. ~r.late /\ r.crashed = FALSE
    BY <1>1, <1>5, <1>10 DEF OldBase, CopiersOK, CopierOK
  <2> QED
    BY <2>1, <2>2, <2>3, <2>4, <2>5, <2>6, <2>7 DEF CopiersOK, OneIfFailed
<1>15. Before(r)
  BY <1>10 DEF Before, Building, CopyEarly
<1>16. Copying(r)
  BY <1>1, <1>10, <1>11 DEF Copying, Has, OldIsKept
<1>17. OldLives(r)
  BY <1>1, <1>10 DEF OldLives, OldOps, OldTasks, OldBase, OldIsThere, TasksIn, NoneUnrecorded
<1> QED
  BY <1>1, <1>4, <1>10, <1>12, <1>14, <1>15, <1>16, <1>17 DEF CopyOK

LEMMA CopyObjectsOK ==
    ASSUME NEW s, AllRecorded(s), s.launched = 0, s.error = FALSE, s.gone = FALSE,
           s.state # "writeFailed"
    PROVE  CopyOK(Stopped(s)) /\ \A how \in Start : Fine(CopyObjects(s, how))
<1>1. OldBase(s) /\ ~Running(s) /\ NoneUnrecorded(s)
  BY AllRecordedFacts, NoneLaunched DEF AllRecorded, OldBase
<1>2. CopyOK(Stopped(s))
  BY <1>1, StoppedOK
<1>3. CASE ~NoData(s)
  <2> SUFFICES ASSUME NEW how \in Start
               PROVE  Fine(CopyObjects(s, how))
    BY <1>2
  <2>1. CASE how = "asserts"
    <3>1. Crashing(s)
      BY <2>1 DEF Start, Crashing
    <3> QED
      BY <1>3, <2>1, <3>1, CrashRecorded DEF CopyObjects, NoData, Fine
  <2>2. CASE how = "throws"
    <3>1. May("exception")
      BY <2>2 DEF Start
    <3>2. Fine(Thrown(s))
      BY <1>1, <3>1, ThrownOK
    <3> QED
      BY <1>3, <2>2, <3>2 DEF CopyObjects, NoData
  <2>3. CASE how = "reads"
    BY <1>3, <2>3, FirstCopiersOK DEF Fine
  <2> QED
    BY <2>1, <2>2, <2>3 DEF Start
<1>4. CASE NoData(s)
  <2>1. Parts(s) = {1} /\ s.what.src[1] = 0
    BY <1>4 DEF Parts, NoData
  <2>2. s.copiers[1].st = "none" /\ CopierOK(s.copiers[1], 0)
    BY <1>1, <2>1, NoneLaunched DEF OldBase, CopiersOK
  <2>3. s.copiers[1].written = 0
    BY <2>2 DEF CopierOK, CopierRecord
  <2>4. AllWritten(s)
    BY <2>1, <2>3 DEF AllWritten
  <2>5. ~s.late
    BY <1>1, NoneLaunched DEF OldBase, CopiersOK, CopierOK
  <2>6. CopyOK(SaveCopy(s))
    BY <1>1, <2>4, <2>5, SaveCopyOK
  <2> QED
    BY <1>2, <1>4, <2>6 DEF CopyObjects, NoData, Fine
<1> QED
  BY <1>3, <1>4

\* add_object_oid_to_probable_dead_oid_list: one more record.
LEMMA OneMoreRecord ==
    ASSUME NEW s, CopyOK(s), s.op = "record"
    PROVE  LET t == [s EXCEPT !.recs[s.index] = "kept"]
           IN  /\ Kept(s, t, {"recs"}) /\ Has(t, s.index, s.index)
               /\ t.recs \in [Parts(s) -> RecordStates]
<1> DEFINE f == [s.recs EXCEPT ![s.index] = "kept"]
           t == [s EXCEPT !.recs = f]
<1>1. s.op \in Building
  BY DEF Building
<1>2. OldBase(s) /\ Before(s) /\ IsCopy(s)
  BY <1>1, BuildingFacts
<1>3. Has(s, s.index, s.index - 1) /\ s.index \in Parts(s) /\ s.recs \in [Parts(s) -> RecordStates]
  BY <1>2 DEF Before, OldBase, CopyTypeOK
<1>4. Parts(s) = 1 .. Total(s) /\ Total(s) \in Nat
  BY <1>2, PartsAre DEF OldBase
<1>5. f \in [Parts(s) -> RecordStates] /\ \A i \in Parts(s) : f[i] = IF i <= s.index THEN "kept" ELSE "none"
  BY <1>3, <1>4 DEF Has, RecordStates
<1> HIDE DEF f
<1>6. Kept(s, t, {"recs"}) /\ t.recs = f
  BY <1>2 DEF IsCopy, CopyFields, Kept
<1> HIDE DEF t
<1>7. t.what = s.what /\ t.made = s.made
  BY <1>6 DEF Kept, CopyFields
<1>8. Has(t, s.index, s.index)
  BY <1>3, <1>5, <1>6, <1>7 DEF Has, Parts
<1> QED
  BY <1>5, <1>6, <1>8 DEF t, f

\* The records of all parts, and of the old object if there is one.
LEMMA AllAreRecorded ==
    ASSUME NEW s, NEW t, CopyOK(s), s.op \in {"record", "recordOld"},
           Kept(s, t, {"recs", "oldRec"}), t.recs \in [Parts(s) -> RecordStates],
           Has(t, Total(s), Total(s)), t.oldRec = IF s.what.old > 0 THEN "kept" ELSE "none"
    PROVE  /\ AllRecorded(t) /\ t.launched = 0 /\ t.error = FALSE /\ t.gone = FALSE
           /\ t.state # "writeFailed"
<1>1. s.op \in Building
  BY DEF Building
<1>2. /\ OldBase(s) /\ s.gone = FALSE /\ s.error = FALSE /\ s.scheduled = FALSE /\ s.checks = TRUE
      /\ s.launched = 0 /\ s.state # "writeFailed"
  BY <1>1, BuildingFacts
<1>3. /\ IsCopy(t) /\ t.what = s.what /\ t.live = s.live /\ t.oldLeft = s.oldLeft /\ t.made = s.made
      /\ t.index = s.index /\ t.copiers = s.copiers /\ t.launched = s.launched
      /\ t.error = s.error /\ t.tasks = s.tasks /\ t.state = s.state /\ t.gone = s.gone
      /\ t.scheduled = s.scheduled /\ t.inflight = s.inflight /\ t.finished = s.finished
      /\ t.delayed = s.delayed /\ t.connected = s.connected /\ t.shutdown = s.shutdown
      /\ t.checks = s.checks /\ t.late = s.late /\ t.crashed = s.crashed /\ t.op = s.op
  BY DEF Kept, CopyFields
<1>4. Parts(t) = Parts(s) /\ Total(t) = Total(s)
  BY <1>3 DEF Parts, Total
<1>5. CopyTypeOK(t)
  BY <1>2, <1>3, <1>4 DEF CopyTypeOK, OldBase, RecordStates
<1>6. CopiersOK(t)
  BY <1>2, <1>3, CopiersKept DEF OldBase
<1>7. OldIsThere(t) /\ TasksIn(t.tasks, OldTasks)
  BY <1>2, <1>3 DEF OldIsThere, OldBase
<1>8. OldIsKept(t) /\ Has(t, Total(t), Total(t))
  BY <1>3, <1>4 DEF OldIsKept
<1> QED
  BY <1>2, <1>3, <1>5, <1>6, <1>7, <1>8 DEF AllRecorded, OldBase

\* The next part is to be made, or the old object to be recorded.
LEMMA NextRecordOK ==
    ASSUME NEW s, NEW t, NEW i, CopyOK(s), s.op = "record",
           Kept(s, t, {"recs", "index", "op"}), t.recs \in [Parts(s) -> RecordStates],
           Has(t, s.index, s.index), t.index = i,
           \/ t.op = "create" /\ i = s.index + 1 /\ s.index < Total(s)
           \/ t.op = "recordOld" /\ i = s.index /\ s.index = Total(s) /\ s.what.old > 0
    PROVE  CopyOK(t)
<1>1. s.op \in Building
  BY DEF Building
<1>2. /\ OldBase(s) /\ OldLives(s) /\ ~Running(s) /\ s.live # "new"
      /\ s.gone = FALSE /\ s.error = FALSE /\ s.scheduled = FALSE /\ s.checks = TRUE
      /\ s.launched = 0 /\ s.oldRec = "none" /\ s.state # "writeFailed"
  BY <1>1, BuildingFacts
<1>3. /\ IsCopy(t) /\ t.what = s.what /\ t.live = s.live /\ t.oldLeft = s.oldLeft /\ t.made = s.made
      /\ t.copiers = s.copiers /\ t.launched = s.launched /\ t.oldRec = s.oldRec
      /\ t.error = s.error /\ t.tasks = s.tasks /\ t.state = s.state /\ t.gone = s.gone
      /\ t.scheduled = s.scheduled /\ t.inflight = s.inflight /\ t.finished = s.finished
      /\ t.delayed = s.delayed /\ t.connected = s.connected /\ t.shutdown = s.shutdown
      /\ t.checks = s.checks /\ t.late = s.late /\ t.crashed = s.crashed
  BY DEF Kept, CopyFields
<1>4. Parts(t) = Parts(s) /\ Total(t) = Total(s) /\ Parts(s) = 1 .. Total(s) /\ Total(s) \in Nat
  BY <1>2, <1>3, PartsAre DEF Parts, Total, OldBase
<1>5. s.index \in Parts(s) /\ s.index \in Nat /\ i \in Parts(s)
  BY <1>2, <1>4 DEF OldBase, CopyTypeOK
<1>6. CopyTypeOK(t)
  BY <1>2, <1>3, <1>4, <1>5 DEF CopyTypeOK, OldBase
<1>7. CopiersOK(t) /\ ~Running(t)
  BY <1>2, <1>3, CopiersKept DEF OldBase
<1>8. Before(t)
  BY <1>2, <1>3, <1>4, <1>5 DEF Before, Building, CopyEarly, OldBase, OldIsThere
<1>9. Copying(t)
  BY <1>7 DEF Copying
<1>10. \A j \in t.made : t.recs[j] # "none"
  BY <1>4, <1>5 DEF Has
<1>11. OldLives(t)
  BY <1>2, <1>3, <1>10 DEF OldLives, OldOps, Building, OldTasks, OldBase, OldIsThere
<1> QED
  BY <1>2, <1>3, <1>6, <1>7, <1>8, <1>9, <1>11 DEF CopyOK

LEMMA RecordedOK ==
    ASSUME NEW s, CopyOK(s), s.op = "record", NEW how \in Start
    PROVE  Fine(Recorded(s, how))
<1> DEFINE new == [s EXCEPT !.recs[s.index] = "kept"]
           k == IF s.what.old > 0 THEN "kept" ELSE new.oldRec
           old == [new EXCEPT !.oldRec = k]
           both == IF Stops(old) THEN Stopped(old) ELSE CopyObjects(old, how)
           j == s.index + 1
           next == [new EXCEPT !.index = j, !.op = "create"]
           last == [new EXCEPT !.op = "recordOld"]
<1>1. s.op \in Building
  BY DEF Building
<1>2. OldBase(s) /\ IsCopy(s) /\ s.oldRec = "none"
  BY <1>1, BuildingFacts
<1>3. /\ Total(s) \in Nat \ {0} /\ Parts(s) = 1 .. Total(s) /\ s.index \in Parts(s)
      /\ (~s.what.multi => Total(s) = 1)
  BY <1>2, PartsAre DEF OldBase, CopyTypeOK
<1>4. /\ Kept(s, new, {"recs"}) /\ Has(new, s.index, s.index)
      /\ new.recs \in [Parts(s) -> RecordStates]
  BY OneMoreRecord
<1>5. new.index = s.index
  BY <1>4 DEF Kept, CopyFields
<1>6. Recorded(s, how) = IF ~s.what.multi THEN both
                    ELSE IF s.index < Total(s) THEN next
                    ELSE IF s.what.old > 0 THEN last
                    ELSE both
  BY <1>5 DEF Recorded
<1> HIDE DEF new
<1>7. new.oldRec = "none" /\ IsCopy(new) /\ new.made = s.made /\ new.what = s.what
  BY <1>2, <1>4 DEF Kept, CopyFields
<1>8. s.index = Total(s) => Fine(both)
  <2> HAVE s.index = Total(s)
  <2>1. k = IF s.what.old > 0 THEN "kept" ELSE "none"
    BY <1>7
  <2> HIDE DEF k
  <2>2. Kept(new, old, {"oldRec"}) /\ old.oldRec = k
    BY <1>7 DEF IsCopy, CopyFields, Kept
  <2> HIDE DEF old
  <2>3. Kept(s, old, {"recs", "oldRec"}) /\ old.recs = new.recs /\ old.made = new.made /\ old.what = new.what
    BY <1>4, <2>2 DEF Kept, CopyFields
  <2>4. Has(old, Total(s), Total(s))
    BY <1>4, <1>7, <2>3 DEF Has, Parts
  <2>5. AllRecorded(old) /\ old.launched = 0 /\ old.error = FALSE /\ old.gone = FALSE /\ old.state # "writeFailed"
    BY <1>4, <2>1, <2>2, <2>3, <2>4, AllAreRecorded
  <2>6. Fine(CopyObjects(old, how)) /\ CopyOK(Stopped(old))
    BY <2>5, CopyObjectsOK
  <2> QED
    BY <2>6 DEF Fine
<1>9. s.index < Total(s) => CopyOK(next)
  <2> HAVE s.index < Total(s)
  <2> HIDE DEF j
  <2>1. Kept(new, next, {"index", "op"}) /\ next.index = j /\ next.op = "create"
    BY <1>7 DEF IsCopy, CopyFields, Kept
  <2> HIDE DEF next
  <2>2. Kept(s, next, {"recs", "index", "op"}) /\ next.recs = new.recs /\ next.made = new.made
        /\ next.what = new.what
    BY <1>4, <2>1 DEF Kept, CopyFields
  <2>3. Has(next, s.index, s.index)
    BY <1>4, <2>2 DEF Has, Parts
  <2> QED
    BY <1>4, <2>1, <2>2, <2>3, NextRecordOK DEF j
<1>10. s.index = Total(s) /\ s.what.old > 0 => CopyOK(last)
  <2> HAVE s.index = Total(s) /\ s.what.old > 0
  <2>1. Kept(new, last, {"op"}) /\ last.op = "recordOld"
    BY <1>7 DEF IsCopy, CopyFields, Kept
  <2> HIDE DEF last
  <2>2. Kept(s, last, {"recs", "index", "op"}) /\ last.recs = new.recs /\ last.made = new.made
        /\ last.what = new.what /\ last.index = s.index
    BY <1>4, <1>5, <2>1 DEF Kept, CopyFields
  <2>3. Has(last, s.index, s.index)
    BY <1>4, <2>2 DEF Has, Parts
  <2> QED
    BY <1>4, <2>1, <2>2, <2>3, NextRecordOK
<1> HIDE DEF both, next, last
<1>11. s.index < Total(s) \/ s.index = Total(s)
  BY <1>3
<1>12. ~s.what.multi => s.index = Total(s)
  BY <1>3
<1> QED
  BY <1>6, <1>8, <1>9, <1>10, <1>11, <1>12 DEF Fine

LEMMA RecordEndsOK ==
    ASSUME CopyRuns, RecordEnds
    PROVE  CopyIInv'
<1>1. CopyOK(copy) /\ copy.op = "record" /\ copy.op \in Building
  BY DEF CopyRuns, RecordEnds, Building
<1>2. CASE \E how \in Start : copy' = Recorded(copy, how)
  BY <1>1, <1>2, RecordedOK DEF CopyIInv
<1>3. CASE copy' = FailCopy(copy, "probableEntryRecordFailed")
  <2>1. OldBase(copy) /\ OldLives(copy) /\ ~Running(copy)
    BY <1>1, BuildingFacts
  <2>2. CopyOK(FailCopy(copy, "probableEntryRecordFailed"))
    BY <2>1, FailOK DEF OldLives
  <2> QED
    BY <1>3, <2>2 DEF CopyIInv, Fine
<1> QED
  BY <1>2, <1>3 DEF RecordEnds

LEMMA RecordOldEndsOK ==
    ASSUME CopyRuns, RecordOldEnds
    PROVE  CopyIInv'
<1> DEFINE s == [copy EXCEPT !.oldRec = "kept"]
<1>1. CopyOK(copy) /\ copy.op = "recordOld" /\ copy.op \in Building
  BY DEF CopyRuns, RecordOldEnds, Building
<1>2. OldBase(copy) /\ OldLives(copy) /\ Before(copy) /\ ~Running(copy) /\ IsCopy(copy)
  BY <1>1, BuildingFacts
<1>3. CASE \E how \in Start : copy' = IF Stops(s) THEN Stopped(s) ELSE CopyObjects(s, how)
  <2>1. Kept(copy, s, {"oldRec"}) /\ s.oldRec = "kept"
    BY <1>2 DEF IsCopy, CopyFields, Kept
  <2> HIDE DEF s
  <2>2. Kept(copy, s, {"recs", "oldRec"}) /\ s.recs = copy.recs /\ s.made = copy.made /\ s.what = copy.what
    BY <2>1 DEF Kept, CopyFields
  <2>3. Has(copy, Total(copy), Total(copy)) /\ copy.what.old > 0 /\ copy.recs \in [Parts(copy) -> RecordStates]
    BY <1>1, <1>2 DEF Before, OldBase, CopyTypeOK
  <2>4. Has(s, Total(copy), Total(copy))
    BY <2>2, <2>3 DEF Has, Parts
  <2>5. AllRecorded(s) /\ s.launched = 0 /\ s.error = FALSE /\ s.gone = FALSE /\ s.state # "writeFailed"
    BY <1>1, <2>1, <2>2, <2>3, <2>4, AllAreRecorded
  <2>6. CopyOK(Stopped(s)) /\ \A how \in Start : Fine(CopyObjects(s, how))
    BY <2>5, CopyObjectsOK
  <2> QED
    BY <1>3, <2>6 DEF CopyIInv, Fine
<1>4. CASE copy' = FailCopy(copy, "probableEntryRecordFailed")
  <2>1. CopyOK(FailCopy(copy, "probableEntryRecordFailed"))
    BY <1>2, FailOK DEF OldLives
  <2> QED
    BY <1>4, <2>1 DEF CopyIInv, Fine
<1> QED
  BY <1>3, <1>4 DEF RecordOldEnds

-----------------------------------------------------------------------------
(* Parts are being copied.                                                 *)

CopyGoing(s) ==
    /\ AllRecorded(s) /\ s.gone = FALSE /\ s.op = IF s.scheduled THEN "none" ELSE "copy"
    /\ s.error /\ ~s.scheduled => s.state = "writeFailed"
    /\ s.state = "writeFailed" => s.error

LEMMA CopyingFacts ==
    ASSUME NEW s, CopyOK(s), Running(s)
    PROVE  CopyGoing(s)
<1>1. Copying(s) /\ CopyTypeOK(s) /\ s.live # "new"
  BY DEF CopyOK, Copying
<1>2. OldBase(s)
  BY <1>1, OldLivesBase
<1>3. s.gone = FALSE /\ s.checks = TRUE
  BY <1>1 DEF Copying, CopyTypeOK
<1> QED
  BY <1>1, <1>2, <1>3 DEF Copying, CopyGoing, AllRecorded

LEMMA GoingOK ==
    ASSUME NEW s, CopyGoing(s)
    PROVE  CopyOK(s)
<1>1. /\ s.made = Parts(s) /\ NoneUnrecorded(s) /\ s.live # "new" /\ IsCopy(s)
      /\ OldBase(s) /\ s.op \in {"none", "copy"}
  BY AllRecordedFacts DEF CopyGoing, AllRecorded
<1>2. Before(s)
  BY <1>1 DEF Before, Building, CopyEarly
<1>3. Copying(s)
  BY <1>1 DEF Copying, CopyGoing, AllRecorded
<1>4. OldLives(s)
  BY <1>1 DEF OldLives, OldBase, OldIsThere, OldOps, OldTasks, TasksIn, NoneUnrecorded
<1> QED
  BY <1>1, <1>2, <1>3, <1>4 DEF CopyOK, OldBase

\* CopyGoing on with other copiers.
LEMMA GoingKept ==
    ASSUME NEW s, NEW t, AllRecorded(s), CopiersOK(t),
           Kept(s, t, {"copiers", "inflight", "finished", "launched", "state", "error"}),
           t.state # "completed", t.error \in BOOLEAN, s.error => t.error
    PROVE  AllRecorded(t) /\ t.gone = s.gone /\ t.op = s.op /\ t.scheduled = s.scheduled
           /\ t.shutdown = s.shutdown /\ t.what = s.what
<1>1. OldBase(s) /\ IsCopy(s) /\ Has(s, Total(s), Total(s)) /\ OldIsKept(s) /\ s.checks = TRUE
  BY AllRecordedFacts DEF AllRecorded
<1>2. /\ IsCopy(t) /\ t.what = s.what /\ t.live = s.live /\ t.oldLeft = s.oldLeft /\ t.made = s.made
      /\ t.index = s.index /\ t.recs = s.recs /\ t.oldRec = s.oldRec /\ t.tasks = s.tasks
      /\ t.gone = s.gone /\ t.scheduled = s.scheduled /\ t.op = s.op
      /\ t.delayed = s.delayed /\ t.connected = s.connected /\ t.shutdown = s.shutdown
      /\ t.checks = s.checks
  BY DEF Kept, CopyFields
<1>3. Parts(t) = Parts(s) /\ Total(t) = Total(s)
  BY <1>2 DEF Parts, Total
<1>4. CopyTypeOK(t)
  BY <1>1, <1>2, <1>3 DEF CopyTypeOK, OldBase
<1>5. OldIsThere(t) /\ TasksIn(t.tasks, OldTasks)
  BY <1>1, <1>2 DEF OldIsThere, OldBase
<1>6. Has(t, Total(t), Total(t)) /\ OldIsKept(t)
  BY <1>1, <1>2, <1>3 DEF Has, OldIsKept
<1> QED
  BY <1>1, <1>2, <1>4, <1>5, <1>6 DEF AllRecorded, OldBase

\* One copier reads or writes on.
SetsCopier(s, t, i, d) == Kept(s, t, {"copiers"}) /\ t.copiers = [s.copiers EXCEPT ![i] = d]
LEMMA CopierSet ==
    ASSUME NEW s, NEW t, NEW i \in Parts(s), NEW d, CopyGoing(s), s.copiers[i].st = "run",
           CopierOK(d, s.what.src[i]), d.st = "run", OneIfFailed(d), s.copiers[i].failed => d.failed,
           SetsCopier(s, t, i, d)
    PROVE  CopyGoing(t) /\ t.copiers[i] = d /\ t.what = s.what /\ t.state = s.state /\ t.error = s.error
           /\ t.shutdown = s.shutdown /\ t.connected = s.connected /\ Parts(t) = Parts(s)
<1>1. OldBase(s) /\ CopiersOK(s) /\ s.state # "completed" /\ s.error \in BOOLEAN
  BY DEF CopyGoing, AllRecorded, OldBase, OldIsThere, CopyTypeOK
<1>2. /\ IsCopy(t) /\ t.what = s.what /\ t.inflight = s.inflight /\ t.finished = s.finished
      /\ t.launched = s.launched /\ t.error = s.error /\ t.state = s.state
      /\ t.shutdown = s.shutdown /\ t.connected = s.connected /\ t.late = s.late /\ t.crashed = s.crashed
  BY DEF SetsCopier, Kept, CopyFields
<1>3. Parts(t) = Parts(s) /\ Total(t) = Total(s) /\ Crashing(t) = Crashing(s)
  BY <1>2 DEF Parts, Total, Crashing
<1>4. /\ t.copiers = [j \in Parts(s) |-> t.copiers[j]] /\ t.copiers[i] = d
      /\ \A j \in Parts(s) : t.copiers[j] = IF j = i THEN d ELSE s.copiers[j]
  BY <1>1 DEF CopiersOK, SetsCopier
<1>5. \A j \in Parts(s) : t.copiers[j].st = s.copiers[j].st
  BY <1>4
<1>6. InState(t, "run") = InState(s, "run") /\ InState(t, "freed") = InState(s, "freed")
  BY <1>3, <1>5 DEF InState
<1>7. \A j \in Parts(s) : CopierOK(t.copiers[j], s.what.src[j])
  BY <1>1, <1>4 DEF CopiersOK
<1>8. /\ Crashing(s) \/ \A j \in Parts(s) : OneIfFailed(t.copiers[j])
      /\ s.late => May("launch") /\ \E j \in Parts(s) : t.copiers[j].failed
  BY <1>1, <1>4 DEF CopiersOK
<1>9. (\E j \in Parts(s) : t.copiers[j].st = "freed" /\ t.copiers[j].failed) => s.error
  BY <1>1, <1>4, <1>5 DEF CopiersOK
<1>10. CopiersOK(t)
  BY <1>1, <1>2, <1>3, <1>4, <1>5, <1>6, <1>7, <1>8, <1>9 DEF CopiersOK
<1>11. Kept(s, t, {"copiers", "inflight", "finished", "launched", "state", "error"})
  BY DEF SetsCopier, Kept
<1>12. AllRecorded(t) /\ t.gone = s.gone /\ t.op = s.op /\ t.scheduled = s.scheduled
  BY <1>1, <1>2, <1>10, <1>11, GoingKept DEF CopyGoing
<1> QED
  BY <1>2, <1>3, <1>4, <1>12 DEF CopyGoing

LEMMA PartsAreFinite ==
    ASSUME NEW s, CopyTypeOK(s)
    PROVE  IsFiniteSet(Parts(s))
<1>1. Parts(s) = 1 .. Total(s) /\ Total(s) \in Nat
  BY PartsAre
<1> QED
  BY <1>1, FS_Interval

\* A copier is freed.
LEMMA FreeingOK ==
    ASSUME NEW s, NEW t, NEW i \in Parts(s), CopyTypeOK(s), CopiersOK(s), s.copiers[i].st = "run",
           s.copiers[i].reading = 0, s.copiers[i].writing = 0,
           ~s.copiers[i].failed => s.copiers[i].left = 0 /\ s.copiers[i].have = 0,
           t.what = s.what, t.launched = s.launched, s.error => t.error,
           s.copiers[i].failed => t.error,
           t.copiers = [s.copiers EXCEPT ![i] = [s.copiers[i] EXCEPT !.st = "freed"]],
           t.inflight = s.inflight - 1, t.finished = s.finished + 1, t.late = s.late /\ t.crashed = s.crashed
    PROVE  /\ CopiersOK(t) /\ \A j \in Parts(s) \ {i} : t.copiers[j] = s.copiers[j]
           /\ t.copiers[i].st = "freed" /\ t.inflight \in Nat /\ t.finished \in Nat
<1> DEFINE d == [s.copiers[i] EXCEPT !.st = "freed"]
<1>1. Parts(t) = Parts(s) /\ Total(t) = Total(s) /\ Parts(s) = 1 .. Total(s) /\ Total(s) \in Nat
      /\ s.what.src[i] \in Nat
  BY PartsAre DEF Parts, Total
<1>1a. Crashing(t) = Crashing(s)
  BY <1>1 DEF Crashing
<1>2. CopierOK(s.copiers[i], s.what.src[i])
  BY DEF CopiersOK
<1>3. /\ d \in CopierRecord /\ d.st = "freed" /\ d.reading = 0 /\ d.writing = 0
      /\ d.left = s.copiers[i].left /\ d.have = s.copiers[i].have /\ d.failed = s.copiers[i].failed
      /\ d.written = s.copiers[i].written
  BY <1>2 DEF CopierOK, CopierRecord
<1>4. CopierOK(d, s.what.src[i])
  BY <1>2, <1>3 DEF CopierOK
<1> HIDE DEF d
<1>5. /\ t.copiers = [j \in Parts(s) |-> t.copiers[j]] /\ t.copiers[i] = d
      /\ \A j \in Parts(s) : t.copiers[j] = IF j = i THEN d ELSE s.copiers[j]
  BY DEF CopiersOK, d
<1>6. InState(t, "run") = InState(s, "run") \ {i} /\ InState(t, "freed") = InState(s, "freed") \cup {i}
  BY <1>1, <1>3, <1>5 DEF InState
<1>7. i \in InState(s, "run") /\ i \notin InState(s, "freed")
  BY DEF InState
<1>8. IsFiniteSet(InState(s, "run")) /\ IsFiniteSet(InState(s, "freed"))
  <2>1. IsFiniteSet(Parts(s))
    BY PartsAreFinite
  <2>2. InState(s, "run") \subseteq Parts(s) /\ InState(s, "freed") \subseteq Parts(s)
    BY DEF InState
  <2> QED
    BY <2>1, <2>2, FS_Subset
<1>9. /\ Cardinality(InState(t, "run")) = Cardinality(InState(s, "run")) - 1
      /\ Cardinality(InState(t, "run")) \in Nat /\ Cardinality(InState(s, "run")) \in Nat
  <2>1. Cardinality(InState(s, "run") \ {i}) = Cardinality(InState(s, "run")) - 1
    BY <1>7, <1>8, FS_RemoveElement
  <2>2. IsFiniteSet(InState(s, "run") \ {i})
    BY <1>8, FS_RemoveElement
  <2> QED
    BY <1>6, <1>8, <2>1, <2>2, FS_CardinalityType
<1>10. /\ Cardinality(InState(t, "freed")) = Cardinality(InState(s, "freed")) + 1
       /\ Cardinality(InState(s, "freed")) \in Nat
  <2>1. Cardinality(InState(s, "freed") \cup {i}) = Cardinality(InState(s, "freed")) + 1
    BY <1>7, <1>8, FS_AddElement
  <2> QED
    BY <1>6, <1>8, <2>1, FS_CardinalityType
<1>11. t.inflight = Cardinality(InState(t, "run")) /\ t.finished = Cardinality(InState(t, "freed"))
  BY <1>9, <1>10 DEF CopiersOK
<1>12. t.inflight <= MaxParallel /\ t.inflight \in Nat /\ t.finished \in Nat
  BY <1>9, <1>10, <1>11, CopyAssumption DEF CopiersOK
<1>13. \A j \in Parts(s) : CopierOK(t.copiers[j], s.what.src[j])
  BY <1>4, <1>5 DEF CopiersOK
<1>14. /\ Crashing(s) \/ \A j \in Parts(s) : OneIfFailed(t.copiers[j])
       /\ s.late => May("launch") /\ \E j \in Parts(s) : t.copiers[j].failed
  BY <1>3, <1>5 DEF CopiersOK, OneIfFailed
<1>15. (\E j \in Parts(s) : t.copiers[j].st = "freed" /\ t.copiers[j].failed) => t.error
  BY <1>3, <1>5 DEF CopiersOK
<1>16. \A j \in Parts(s) : t.copiers[j].st = "none" <=> j > t.launched
  BY <1>3, <1>5 DEF CopiersOK
<1> QED
  BY <1>1, <1>1a, <1>3, <1>5, <1>11, <1>12, <1>13, <1>14, <1>15, <1>16 DEF CopiersOK

\* The counters tell whether any copier runs.
LEMMA NoneRuns ==
    ASSUME NEW s, CopyTypeOK(s), CopiersOK(s), AnswersFailure(s)
    PROVE  ~Running(s)
<1>1. Parts(s) = 1 .. Total(s) /\ Total(s) \in Nat
  BY PartsAre
<1>2. IsFiniteSet(Parts(s)) /\ Cardinality(Parts(s)) = Total(s)
  BY <1>1, FS_Interval
<1>3. InState(s, "run") \subseteq Parts(s) /\ InState(s, "freed") \subseteq Parts(s)
  BY DEF InState
<1>4. CASE s.inflight = 0
  <2>1. IsFiniteSet(InState(s, "run"))
    BY <1>2, <1>3, FS_Subset
  <2>2. InState(s, "run") = {}
    BY <1>4, <2>1, FS_EmptySet DEF CopiersOK
  <2> QED
    BY <2>2 DEF Running
<1>5. CASE AllCopied(s)
  <2>1. Cardinality(InState(s, "freed")) = Cardinality(Parts(s))
    BY <1>2, <1>5 DEF CopiersOK, AllCopied
  <2>2. InState(s, "freed") = Parts(s)
    BY <1>2, <1>3, <2>1, FS_Subset
  <2> QED
    BY <2>2 DEF InState, Running
<1> QED
  BY <1>4, <1>5 DEF AnswersFailure

LEMMA RespondOK ==
    ASSUME NEW s, AllRecorded(s), s.error = TRUE, ~Running(s)
    PROVE  CopyOK(RespondCopy(s)) /\ OldEnds(s, RespondCopy(s))
<1> DEFINE r == RespondCopy(s)
<1>1. OldBase(s) /\ NoneUnrecorded(s)
  BY AllRecordedFacts DEF AllRecorded
<1>2. OldEnds(s, r)
  BY <1>1, BaseFlags, RespondOld DEF OldBase, OldIsThere
<1> SUFFICES CopyOK(r)
  BY <1>2
<1> HIDE DEF r
<1>3. OldOver(s, r)
  BY <1>1, <1>2 DEF OldOver, OldEnds, OldBase, OldIsThere
<1>4. CopyInterrupted(s, r) /\ Unrecorded(s, r)
  BY <1>1, <1>2 DEF CopyInterrupted, Unrecorded, OldEnds, NoneUnrecorded
<1> QED
  BY <1>1, <1>3, <1>4, OldOverOK DEF OldBase

LEMMA FreedIs ==
    ASSUME NEW s, NEW i, IsCopy(s)
    PROVE  LET t == Freed(s, i)
           IN  /\ Kept(s, t, {"copiers", "inflight", "finished"})
               /\ t.copiers = [s.copiers EXCEPT ![i] = [s.copiers[i] EXCEPT !.st = "freed"]]
               /\ t.inflight = s.inflight - 1 /\ t.finished = s.finished + 1
<1> DEFINE cs == [s.copiers EXCEPT ![i] = [s.copiers[i] EXCEPT !.st = "freed"]]
           m == s.inflight - 1
           n == s.finished + 1
           t == [s EXCEPT !.copiers = cs, !.inflight = m, !.finished = n]
<1>1. Freed(s, i) = t
  BY DEF Freed
<1> HIDE DEF cs, m, n
<1>2. /\ Kept(s, t, {"copiers", "inflight", "finished"}) /\ t.copiers = cs /\ t.inflight = m
      /\ t.finished = n
  BY DEF Kept, IsCopy, CopyFields
<1> HIDE DEF t
<1> QED
  BY <1>1, <1>2 DEF cs, m, n

\* copy_part_fragment_failed tells the other copiers that run: one of them has a
\* read and a write under way only if its part is longer than one read.
LEMMA OthersAreTold ==
    ASSUME NEW t, NEW u, AllRecorded(t), t.error = TRUE,
           NEW i \in Parts(t), t.copiers[i].st = "freed",
           Kept(t, u, {"copiers"}),
           u.copiers = [j \in Parts(t) |->
                  IF t.copiers[j].st = "run" THEN [t.copiers[j] EXCEPT !.failed = TRUE]
                  ELSE t.copiers[j]]
    PROVE  CopiersOK(u)
<1>1. CopyTypeOK(t) /\ CopiersOK(t)
  BY DEF AllRecorded, OldBase
<1>2. /\ Parts(t) = 1 .. Total(t) /\ Total(t) \in Nat /\ Total(t) = Len(t.what.src)
      /\ \A j \in Parts(t) : t.what.src[j] \in Nat
  BY <1>1, PartsAre DEF Total
<1>3. /\ u.what = t.what /\ u.inflight = t.inflight /\ u.finished = t.finished
      /\ u.launched = t.launched /\ u.error = t.error /\ u.late = t.late /\ u.crashed = t.crashed
  BY DEF Kept, CopyFields
<1>4. Parts(u) = Parts(t) /\ Total(u) = Total(t) /\ Crashing(u) = Crashing(t)
  BY <1>3 DEF Parts, Total, Crashing
<1>5. \A j \in Parts(t) : /\ CopierOK(u.copiers[j], t.what.src[j]) /\ u.copiers[j].st = t.copiers[j].st
                          /\ Crashing(t) \/ OneIfFailed(u.copiers[j])
                          /\ t.copiers[j].failed => u.copiers[j].failed
  <2> SUFFICES ASSUME NEW j \in Parts(t)
               PROVE  /\ CopierOK(u.copiers[j], t.what.src[j]) /\ u.copiers[j].st = t.copiers[j].st
                      /\ Crashing(t) \/ OneIfFailed(u.copiers[j])
                      /\ t.copiers[j].failed => u.copiers[j].failed
    OBVIOUS
  <2>1. CopierOK(t.copiers[j], t.what.src[j]) /\ (Crashing(t) \/ OneIfFailed(t.copiers[j]))
    BY <1>1 DEF CopiersOK
  <2>2. CASE t.copiers[j].st # "run"
    BY <2>1, <2>2
  <2>3. CASE t.copiers[j].st = "run"
    <3> DEFINE c == t.copiers[j]
               d == [c EXCEPT !.failed = TRUE]
    <3>1. u.copiers[j] = d
      BY <2>3
    <3>2. Crashing(t) \/ t.what.src[j] <= CopyBlocks
      <4>1. i # j /\ i \in 1 .. Total(t) /\ j \in 1 .. Total(t) /\ Total(t) \in Nat
        BY <1>2, <2>3, Zenon
      <4>2. Total(t) > 1
        BY <4>1
      <4>3. t.what.src[j] \in Nat /\ CopyBlocks \in Nat
        BY <1>2, CopyAssumption
      <4> QED
        BY <4>2, <4>3 DEF Crashing
    <3>3. Crashing(t) \/ c.reading = 0 \/ c.writing = 0
      BY <2>1, <3>2 DEF CopierOK, CopierRecord, OneIfFailed
    <3>4. /\ d \in CopierRecord /\ d.st = "run" /\ d.reading = c.reading /\ d.writing = c.writing
          /\ d.left = c.left /\ d.have = c.have /\ d.failed = TRUE /\ d.written = c.written
      BY <2>1, <2>3 DEF CopierOK, CopierRecord
    <3> HIDE DEF d
    <3>5. CopierOK(d, t.what.src[j])
      BY <2>1, <2>3, <3>4 DEF CopierOK
    <3>6. Crashing(t) \/ OneIfFailed(d)
      BY <3>3, <3>4 DEF OneIfFailed
    <3> QED
      BY <2>3, <3>1, <3>4, <3>5, <3>6
  <2> QED
    BY <2>2, <2>3
<1>6. InState(u, "run") = InState(t, "run") /\ InState(u, "freed") = InState(t, "freed")
  BY <1>4, <1>5 DEF InState
<1>7. u.copiers = [j \in Parts(t) |-> u.copiers[j]]
  OBVIOUS
<1> QED
  BY <1>1, <1>3, <1>4, <1>5, <1>6, <1>7 DEF CopiersOK

\* A copy that will not be saved.
HasFailed(s) == /\ s.live # "new" /\ s.op # "save" /\ IsCopy(s)
                /\ \E i \in Parts(s) : s.copiers[i].failed
LEMMA CopierFailsOK ==
    ASSUME NEW s, NEW i \in Parts(s), CopyGoing(s), s.copiers[i].st = "run",
           s.copiers[i].reading = 0, s.copiers[i].writing = 0, s.copiers[i].failed = TRUE
    PROVE  CopyOK(CopierFails(s, i)) /\ HasFailed(CopierFails(s, i))
<1> DEFINE f == Freed(s, i)
           t == [f EXCEPT !.state = "writeFailed", !.error = TRUE]
           cs == [j \in Parts(s) |->
                  IF t.copiers[j].st = "run" THEN [t.copiers[j] EXCEPT !.failed = TRUE]
                  ELSE t.copiers[j]]
           u == [t EXCEPT !.copiers = cs]
<1>1. CopierFails(s, i) = IF AnswersFailure(t) THEN RespondCopy(t) ELSE u
  BY DEF CopierFails
<1>2. AllRecorded(s) /\ CopyTypeOK(s) /\ CopiersOK(s) /\ IsCopy(s)
  BY DEF CopyGoing, AllRecorded, OldBase, CopiersOK, CopyTypeOK
<1>3. /\ Kept(s, f, {"copiers", "inflight", "finished"})
      /\ f.copiers = [s.copiers EXCEPT ![i] = [s.copiers[i] EXCEPT !.st = "freed"]]
      /\ f.inflight = s.inflight - 1 /\ f.finished = s.finished + 1
  BY <1>2, FreedIs
<1> HIDE DEF f
<1>4. Kept(f, t, {"state", "error"}) /\ t.state = "writeFailed" /\ t.error = TRUE
  BY <1>3 DEF Kept, IsCopy, CopyFields
<1> HIDE DEF t
<1>5. /\ Kept(s, t, {"copiers", "inflight", "finished", "launched", "state", "error"})
      /\ t.what = s.what /\ t.launched = s.launched
      /\ t.copiers = [s.copiers EXCEPT ![i] = [s.copiers[i] EXCEPT !.st = "freed"]]
      /\ t.inflight = s.inflight - 1 /\ t.finished = s.finished + 1 /\ t.late = s.late /\ t.crashed = s.crashed
  BY <1>3, <1>4 DEF Kept, CopyFields
<1>6. CopiersOK(t) /\ t.copiers[i].st = "freed"
  BY <1>2, <1>4, <1>5, FreeingOK
<1>7. AllRecorded(t) /\ t.gone = s.gone /\ t.op = s.op /\ t.scheduled = s.scheduled
  <2>1. t.state # "completed" /\ t.error \in BOOLEAN /\ (s.error => t.error)
    BY <1>4
  <2> QED
    BY <1>2, <1>5, <1>6, <2>1, GoingKept
<1>7a. i \in Parts(t) /\ t.copiers[i].failed
  <2>1. s.copiers[i] \in CopierRecord /\ s.copiers = [j \in Parts(s) |-> s.copiers[j]]
    BY <1>2 DEF CopiersOK, CopierOK
  <2>2. [s.copiers[i] EXCEPT !.st = "freed"].failed = s.copiers[i].failed
    BY <2>1 DEF CopierRecord
  <2> QED
    BY <1>5, <2>1, <2>2 DEF Parts
<1>8. CASE AnswersFailure(t)
  <2>1. ~Running(t)
    BY <1>6, <1>7, <1>8, NoneRuns DEF AllRecorded, OldBase
  <2>2. CopyOK(RespondCopy(t)) /\ OldEnds(t, RespondCopy(t))
    BY <1>4, <1>7, <2>1, RespondOK
  <2> DEFINE r == RespondCopy(t)
  <2> HIDE DEF r
  <2>3. r.live # "new" /\ r.op # "save" /\ IsCopy(r) /\ r.copiers = t.copiers /\ Parts(r) = Parts(t)
    BY <1>7, <2>2, AllRecordedFacts DEF OldEnds, Same, Parts, OldTasks, r
  <2> QED
    BY <1>1, <1>7a, <1>8, <2>2, <2>3 DEF HasFailed, r
<1>9. CASE ~AnswersFailure(t)
  <2>1. Parts(t) = Parts(s)
    BY <1>5 DEF Parts
  <2>2. cs = [j \in Parts(t) |->
                  IF t.copiers[j].st = "run" THEN [t.copiers[j] EXCEPT !.failed = TRUE]
                  ELSE t.copiers[j]]
    BY <2>1
  <2>3. IsCopy(t)
    BY <1>4 DEF Kept
  <2> HIDE DEF cs
  <2>4. Kept(t, u, {"copiers"}) /\ u.copiers = cs
    BY <2>3 DEF Kept, IsCopy, CopyFields
  <2> HIDE DEF u
  <2>5. CopiersOK(u)
    BY <1>2, <1>4, <1>5, <1>6, <1>7, <2>1, <2>2, <2>4, OthersAreTold
  <2>6. /\ Kept(t, u, {"copiers", "inflight", "finished", "launched", "state", "error"})
        /\ u.state = "writeFailed" /\ u.error = TRUE
    BY <1>4, <2>4 DEF Kept, CopyFields
  <2>7. AllRecorded(u) /\ u.gone = t.gone /\ u.op = t.op /\ u.scheduled = t.scheduled
    BY <1>4, <1>7, <2>5, <2>6, GoingKept
  <2>8. CopyGoing(u)
    BY <1>7, <2>6, <2>7 DEF CopyGoing
  <2>9. u.copiers[i].failed /\ Parts(u) = Parts(t)
    <3>1. u.copiers[i] = t.copiers[i]
      BY <1>6, <1>7a, <2>2, <2>4
    <3>2. u.what = t.what
      BY <2>4 DEF Kept, CopyFields
    <3> QED
      BY <1>7a, <3>1, <3>2 DEF Parts
  <2>10. u.live # "new" /\ IsCopy(u) /\ u.op # "save"
    BY <2>7, <2>8, AllRecordedFacts DEF CopyGoing
  <2> QED
    BY <1>1, <1>7a, <1>9, <2>8, <2>9, <2>10, GoingOK DEF HasFailed
<1> QED
  BY <1>8, <1>9

\* copy_part_fragment_success: another part is begun.
LEMMA LaunchedOK ==
    ASSUME NEW t, CopyGoing(t), MayLaunch(t), t.error = FALSE
    PROVE  CopyOK(Launch(t, t.launched + 1, "reads"))
<1> DEFINE i == t.launched + 1
           c == RunCopier(t.copiers[i])
           cs == [t.copiers EXCEPT ![i] = c]
           m == t.inflight + 1
           r == [t EXCEPT !.copiers = cs, !.launched = i, !.inflight = m]
<1>1. CopyTypeOK(t) /\ CopiersOK(t) /\ IsCopy(t) /\ AllRecorded(t) /\ t.state # "completed"
  BY DEF CopyGoing, AllRecorded, OldBase, OldIsThere, CopyTypeOK
<1>2. /\ Parts(t) = 1 .. Total(t) /\ Total(t) \in Nat /\ \A j \in Parts(t) : t.what.src[j] \in Nat
  BY <1>1, PartsAre
<1>3. t.launched \in Nat /\ t.launched < Total(t) /\ t.inflight < MaxParallel
  BY <1>1, <1>2 DEF CopiersOK, MayLaunch
<1>4. i \in Parts(t) /\ i > t.launched /\ i \in 0 .. Total(t) /\ \A j \in Parts(t) : j > i <=> (j > t.launched /\ j # i)
  BY <1>2, <1>3
<1>5. Launch(t, t.launched + 1, "reads") = r
  BY DEF Launch
<1> HIDE DEF i
<1>6. t.copiers[i].st = "none" /\ CopierOK(t.copiers[i], t.what.src[i])
  BY <1>1, <1>4 DEF CopiersOK
<1>7. CopierOK(c, t.what.src[i]) /\ c.st = "run" /\ ~c.failed
  BY <1>2, <1>4, <1>6, RunCopierIs
<1> HIDE DEF c
<1>8. /\ cs = [j \in Parts(t) |-> cs[j]] /\ \A j \in Parts(t) : cs[j] = IF j = i THEN c ELSE t.copiers[j]
  BY <1>1, <1>4 DEF CopiersOK
<1> HIDE DEF cs, m
<1>9. /\ Kept(t, r, {"copiers", "launched", "inflight"}) /\ r.copiers = cs /\ r.launched = i
      /\ r.inflight = m
  BY <1>1 DEF Kept, IsCopy, CopyFields
<1> HIDE DEF r
<1>10. /\ Kept(t, r, {"copiers", "inflight", "finished", "launched", "state", "error"})
       /\ r.what = t.what /\ r.finished = t.finished /\ r.state = t.state /\ r.error = t.error
       /\ r.late = t.late /\ r.crashed = t.crashed
  BY <1>9 DEF Kept, CopyFields
<1>11. Parts(r) = Parts(t) /\ Total(r) = Total(t) /\ Crashing(r) = Crashing(t)
  BY <1>10 DEF Parts, Total, Crashing
<1>12. InState(r, "run") = InState(t, "run") \cup {i} /\ InState(r, "freed") = InState(t, "freed")
  BY <1>4, <1>6, <1>7, <1>8, <1>9, <1>11 DEF InState
<1>13. i \notin InState(t, "run")
  BY <1>6 DEF InState
<1>14. IsFiniteSet(InState(t, "run"))
  <2>1. IsFiniteSet(Parts(t))
    BY <1>2, FS_Interval
  <2>2. InState(t, "run") \subseteq Parts(t)
    BY DEF InState
  <2> QED
    BY <2>1, <2>2, FS_Subset
<1>15. Cardinality(InState(t, "run") \cup {i}) = Cardinality(InState(t, "run")) + 1
  BY <1>13, <1>14, FS_AddElement
<1>16. Cardinality(InState(t, "run")) \in Nat
  BY <1>14, FS_CardinalityType
<1>17. r.inflight = Cardinality(InState(r, "run")) /\ r.inflight <= MaxParallel
  <2>1. t.inflight = Cardinality(InState(t, "run"))
    BY <1>1 DEF CopiersOK
  <2>2. Cardinality(InState(r, "run")) = t.inflight + 1 /\ r.inflight = t.inflight + 1
    BY <1>9, <1>12, <1>15, <2>1 DEF m
  <2>3. t.inflight \in Nat /\ MaxParallel \in Nat
    BY <1>16, <2>1, CopyAssumption
  <2> QED
    BY <1>3, <2>2, <2>3
<1>18. \A j \in Parts(r) : CopierOK(r.copiers[j], r.what.src[j])
  BY <1>1, <1>7, <1>8, <1>9, <1>10, <1>11 DEF CopiersOK
<1>19. \A j \in Parts(r) : r.copiers[j].st = "none" <=> j > r.launched
  BY <1>1, <1>4, <1>7, <1>8, <1>9, <1>11 DEF CopiersOK
<1>20. /\ Crashing(r) \/ \A j \in Parts(r) : OneIfFailed(r.copiers[j])
       /\ r.late => May("launch") /\ \E j \in Parts(r) : r.copiers[j].failed
       /\ (\E j \in Parts(r) : r.copiers[j].st = "freed" /\ r.copiers[j].failed) => r.error
  <2>1. Crashing(r) \/ \A j \in Parts(r) : OneIfFailed(r.copiers[j])
    BY <1>1, <1>7, <1>8, <1>9, <1>11 DEF CopiersOK, OneIfFailed
  <2>2. ~t.copiers[i].failed
    BY <1>6 DEF CopierOK
  <2>3. r.late => May("launch") /\ \E j \in Parts(r) : r.copiers[j].failed
    BY <1>1, <1>8, <1>9, <1>10, <1>11, <2>2 DEF CopiersOK
  <2>4. (\E j \in Parts(r) : r.copiers[j].st = "freed" /\ r.copiers[j].failed) => r.error
    BY <1>1, <1>7, <1>8, <1>9, <1>10, <1>11 DEF CopiersOK
  <2> QED
    BY <2>1, <2>3, <2>4
<1>21. r.finished = Cardinality(InState(r, "freed"))
  BY <1>1, <1>10, <1>12 DEF CopiersOK
<1>21a. r.crashed = FALSE
  BY <1>1, <1>10 DEF CopiersOK
<1>22. CopiersOK(r)
  BY <1>4, <1>8, <1>9, <1>11, <1>17, <1>18, <1>19, <1>20, <1>21, <1>21a DEF CopiersOK
<1>23. AllRecorded(r) /\ r.gone = t.gone /\ r.op = t.op /\ r.scheduled = t.scheduled
  <2>1. r.state # "completed" /\ r.error \in BOOLEAN /\ (t.error => r.error)
    BY <1>1, <1>10
  <2> QED
    BY <1>1, <1>10, <1>22, <2>1, GoingKept
<1>24. CopyGoing(r)
  BY <1>10, <1>23 DEF CopyGoing
<1> QED
  BY <1>5, <1>24, GoingOK

LEMMA LaunchOK ==
    ASSUME NEW t, CopyGoing(t), MayLaunch(t), t.error = FALSE, NEW how \in Start
    PROVE  Fine(Launch(t, t.launched + 1, how))
<1>1. AllRecorded(t) /\ CopyTypeOK(t) /\ CopiersOK(t)
  BY DEF CopyGoing, AllRecorded, OldBase
<1>2. CASE how = "asserts"
  <2>1. Crashing(t)
    BY <1>2 DEF Start, Crashing
  <2> QED
    BY <1>1, <1>2, <2>1, CrashRecorded DEF Launch, Fine
<1>3. CASE how = "throws"
  <2>1. May("exception")
    BY <1>3 DEF Start
  <2>2. Total(t) = 1 => ~Running(t)
    <3> HAVE Total(t) = 1
    <3>1. t.launched = 0
      BY <1>1 DEF MayLaunch, CopiersOK
    <3> QED
      BY <1>1, <3>1, NoneLaunched
  <2> QED
    BY <1>1, <1>3, <2>1, <2>2, ThrownOK DEF Launch
<1>4. CASE how = "reads"
  BY <1>4, LaunchedOK DEF Fine
<1> QED
  BY <1>2, <1>3, <1>4 DEF Start

\* The last part is copied: the data of all parts is written.
LEMMA AllCopiedOK ==
    ASSUME NEW t, CopyGoing(t), AllCopied(t), t.error = FALSE
    PROVE  LET done == [t EXCEPT !.state = "writeComplete"]
           IN  CopyOK(IF Stops(done) THEN Stopped(done) ELSE SaveCopy(done))
<1> DEFINE done == [t EXCEPT !.state = "writeComplete"]
<1>1. CopyTypeOK(t) /\ CopiersOK(t) /\ IsCopy(t) /\ AllRecorded(t) /\ t.gone = FALSE
  BY DEF CopyGoing, AllRecorded, OldBase, CopyTypeOK
<1>2. ~Running(t)
  BY <1>1, NoneRuns DEF AnswersFailure
<1>3. \A i \in Parts(t) : t.copiers[i].st = "freed"
  <2>1. Parts(t) = 1 .. Total(t) /\ Total(t) \in Nat
    BY <1>1, PartsAre
  <2>2. IsFiniteSet(Parts(t)) /\ Cardinality(Parts(t)) = Total(t)
    BY <2>1, FS_Interval
  <2>3. InState(t, "freed") \subseteq Parts(t) /\ Cardinality(InState(t, "freed")) = Cardinality(Parts(t))
    BY <1>1, <2>2 DEF InState, CopiersOK, AllCopied
  <2>4. InState(t, "freed") = Parts(t)
    BY <2>2, <2>3, FS_Subset
  <2> QED
    BY <2>4 DEF InState
<1>4. AllWritten(t)
  <2> SUFFICES ASSUME NEW i \in Parts(t) PROVE t.copiers[i].written = t.what.src[i]
    BY DEF AllWritten
  <2>1. CopierOK(t.copiers[i], t.what.src[i]) /\ ~t.copiers[i].failed /\ t.copiers[i].st = "freed"
    BY <1>1, <1>3 DEF CopiersOK
  <2>2. t.what.src[i] \in Nat
    BY <1>1, PartsAre
  <2> QED
    BY <2>1, <2>2 DEF CopierOK, CopierRecord
<1>5. Kept(t, done, {"state"}) /\ done.state = "writeComplete"
  BY <1>1 DEF Kept, IsCopy, CopyFields
<1> HIDE DEF done
<1>6. /\ Kept(t, done, {"copiers", "inflight", "finished", "launched", "state", "error"})
      /\ done.what = t.what /\ done.copiers = t.copiers /\ done.error = t.error
      /\ done.launched = t.launched /\ done.inflight = t.inflight /\ done.finished = t.finished
      /\ done.late = t.late /\ done.crashed = t.crashed
  BY <1>5 DEF Kept, CopyFields
<1>7. CopiersOK(done) /\ ~Running(done) /\ AllWritten(done)
  BY <1>1, <1>2, <1>4, <1>6, CopiersKept
<1>8. done.state # "completed" /\ done.error \in BOOLEAN
  BY <1>5, <1>6
<1>9. AllRecorded(done) /\ done.gone = FALSE
  BY <1>1, <1>6, <1>7, <1>8, GoingKept
<1>9a. ~t.late
  BY <1>1, <1>3 DEF CopiersOK
<1>10. CopyOK(SaveCopy(done))
  BY <1>6, <1>7, <1>9, <1>9a, SaveCopyOK
<1>11. CopyOK(Stopped(done))
  BY <1>7, <1>9, AllRecordedFacts, StoppedOK DEF AllRecorded
<1> QED
  BY <1>10, <1>11 DEF done

LEMMA CopierSucceedsOK ==
    ASSUME NEW s, NEW i \in Parts(s), CopyGoing(s), ~s.shutdown, s.copiers[i].st = "run",
           s.copiers[i].reading = 0, s.copiers[i].writing = 0, s.copiers[i].left = 0,
           s.copiers[i].have = 0, s.copiers[i].failed = FALSE, NEW how \in Start
    PROVE  Fine(CopierSucceeds(s, i, how))
<1> DEFINE t == Freed(s, i)
           done == [t EXCEPT !.state = "writeComplete"]
<1>1. CopierSucceeds(s, i, how) =
        IF t.state = "writeFailed" THEN IF AnswersFailure(t) THEN RespondCopy(t) ELSE t
        ELSE IF AllCopied(t) THEN IF Stops(done) THEN Stopped(done) ELSE SaveCopy(done)
        ELSE IF MayLaunch(t) THEN Launch(t, t.launched + 1, how)
        ELSE t
  BY DEF CopierSucceeds
<1>2. /\ AllRecorded(s) /\ CopyTypeOK(s) /\ CopiersOK(s) /\ IsCopy(s) /\ s.error \in BOOLEAN
      /\ s.state # "completed" /\ ~s.scheduled
  BY DEF CopyGoing, AllRecorded, OldBase, CopyTypeOK, OldIsThere
<1>3. /\ Kept(s, t, {"copiers", "inflight", "finished"})
      /\ t.copiers = [s.copiers EXCEPT ![i] = [s.copiers[i] EXCEPT !.st = "freed"]]
      /\ t.inflight = s.inflight - 1 /\ t.finished = s.finished + 1
  BY <1>2, FreedIs
<1> HIDE DEF t
<1>4. /\ Kept(s, t, {"copiers", "inflight", "finished", "launched", "state", "error"})
      /\ t.what = s.what /\ t.launched = s.launched /\ t.state = s.state /\ t.error = s.error
      /\ t.late = s.late /\ t.crashed = s.crashed
  BY <1>3 DEF Kept, CopyFields
<1>5. CopiersOK(t)
  BY <1>2, <1>3, <1>4, FreeingOK
<1>6. AllRecorded(t) /\ t.gone = s.gone /\ t.op = s.op /\ t.scheduled = s.scheduled
  BY <1>2, <1>4, <1>5, GoingKept
<1>7. CopyGoing(t)
  BY <1>4, <1>6 DEF CopyGoing
<1>8. CopyOK(t)
  BY <1>7, GoingOK
<1>9. CASE t.state = "writeFailed"
  <2>1. t.error = TRUE
    BY <1>2, <1>4, <1>9 DEF CopyGoing
  <2>2. AnswersFailure(t) => CopyOK(RespondCopy(t))
    BY <1>5, <1>6, <2>1, NoneRuns, RespondOK DEF AllRecorded, OldBase
  <2> QED
    BY <1>1, <1>8, <1>9, <2>2 DEF Fine
<1>10. CASE t.state # "writeFailed"
  <2>1. t.error = FALSE
    BY <1>2, <1>4, <1>10 DEF CopyGoing
  <2>2. AllCopied(t) => CopyOK(IF Stops(done) THEN Stopped(done) ELSE SaveCopy(done))
    BY <1>7, <2>1, AllCopiedOK
  <2>3. MayLaunch(t) => Fine(Launch(t, t.launched + 1, how))
    BY <1>7, <2>1, LaunchOK
  <2> HIDE DEF done
  <2> QED
    BY <1>1, <1>8, <1>10, <2>2, <2>3 DEF Fine
<1> QED
  BY <1>9, <1>10

-----------------------------------------------------------------------------
(* A read or a write of a copier ends.                                     *)

WithCopier(s, i, d) == [s EXCEPT !.copiers[i] = d]

LEMMA WithCopierIs ==
    ASSUME NEW s, NEW i, NEW d, IsCopy(s)
    PROVE  SetsCopier(s, WithCopier(s, i, d), i, d)
<1> DEFINE cs == [s.copiers EXCEPT ![i] = d]
           t == [s EXCEPT !.copiers = cs]
<1>1. WithCopier(s, i, d) = t
  BY DEF WithCopier
<1> HIDE DEF cs
<1>2. Kept(s, t, {"copiers"}) /\ t.copiers = cs
  BY DEF Kept, IsCopy, CopyFields
<1> HIDE DEF t
<1> QED
  BY <1>1, <1>2 DEF cs, SetsCopier

LEMMA GoingIsCopy ==
    ASSUME NEW s, CopyGoing(s)
    PROVE  IsCopy(s)
  BY DEF CopyGoing, AllRecorded, OldBase, CopyTypeOK

\* A copier that is told to stop.
LEMMA CopierStoppedOK ==
    ASSUME NEW t, CopyGoing(t)
    PROVE  CopyOK(CopierStopped(t))
<1>1. CopyOK(t)
  BY GoingOK
<1>2. t.shutdown => CopyOK(CopyRollback(t))
  BY RollbackOK, AllRecordedFacts DEF CopyGoing, AllRecorded
<1> QED
  BY <1>1, <1>2 DEF CopierStopped

At(s, t, i, d) == t.copiers[i] = d /\ Parts(t) = Parts(s) /\ t.shutdown = s.shutdown
LEMMA WithCopierOK ==
    ASSUME NEW s, NEW i \in Parts(s), NEW d, CopyGoing(s), s.copiers[i].st = "run",
           CopierOK(d, s.what.src[i]), d.st = "run", OneIfFailed(d), s.copiers[i].failed => d.failed
    PROVE  LET t == WithCopier(s, i, d)
           IN  CopyGoing(t) /\ At(s, t, i, d) /\ CopyOK(t) /\ CopyOK(CopierStopped(t))
<1> DEFINE t == WithCopier(s, i, d)
<1>1. SetsCopier(s, t, i, d)
  BY GoingIsCopy, WithCopierIs
<1> HIDE DEF t
<1>2. CopyGoing(t)
  BY <1>1, CopierSet
<1>3. At(s, t, i, d)
  <2>1. t.what = s.what /\ t.shutdown = s.shutdown /\ t.copiers = [s.copiers EXCEPT ![i] = d]
    BY <1>1 DEF SetsCopier, Kept, CopyFields
  <2>2. s.copiers = [j \in Parts(s) |-> s.copiers[j]]
    BY DEF CopyGoing, AllRecorded, OldBase, CopiersOK
  <2>3. t.copiers[i] = d
    BY <2>1, <2>2
  <2> QED
    BY <2>1, <2>3 DEF At, Parts
<1>6. CopyOK(t)
  BY <1>2, GoingOK
<1>7. CopyOK(CopierStopped(t))
  BY <1>2, CopierStoppedOK
<1> QED
  BY <1>2, <1>3, <1>6, <1>7 DEF t

\* write_data_block.
LEMMA WriteDataBlockIs ==
    ASSUME NEW c, NEW size \in Nat, CopierOK(c, size), c.st = "run", ~c.failed, c.writing = 0
    PROVE  LET w == WriteDataBlock(c)
           IN  /\ CopierOK(w, size) /\ w.st = "run" /\ ~w.failed /\ w.have = 0 /\ w.writing = c.have
               /\ w.left = c.left /\ w.reading = c.reading
<1> DEFINE w == [c EXCEPT !.writing = c.have, !.have = 0]
<1>1. /\ w \in CopierRecord /\ w.st = "run" /\ w.failed = c.failed /\ w.have = 0
      /\ w.writing = c.have /\ w.left = c.left /\ w.reading = c.reading /\ w.written = c.written
  BY DEF CopierOK, CopierRecord
<1>2. /\ c.left \in Nat /\ c.have \in Nat /\ c.writing \in Nat /\ c.written \in Nat /\ c.reading \in Nat
  BY DEF CopierOK, CopierRecord
<1> HIDE DEF w
<1>3. CopierOK(w, size)
  BY <1>1, <1>2 DEF CopierOK
<1> QED
  BY <1>1, <1>3 DEF WriteDataBlock, w

\* A copier one of whose two operations has ended.
EndsOne(c) ==
    /\ c \in CopierRecord /\ c.st = "run" /\ c.reading <= c.left /\ (c.reading > 0 => c.have = 0)
    /\ c.reading = 0 \/ c.writing = 0
LEMMA DataFailsOK ==
    ASSUME NEW s, NEW i \in Parts(s), NEW c, CopyGoing(s), s.copiers[i].st = "run",
           EndsOne(c)
    PROVE  CopyOK(DataFails(s, i, c)) /\ HasFailed(DataFails(s, i, c))
<1> DEFINE d == [c EXCEPT !.failed = TRUE]
           t == WithCopier(s, i, d)
<1>1. DataFails(s, i, c) = IF WaitsForOther(c) THEN t ELSE CopierFails(t, i)
  BY DEF DataFails, WithCopier
<1>2. /\ d \in CopierRecord /\ d.st = "run" /\ d.failed = TRUE /\ d.have = c.have
      /\ d.writing = c.writing /\ d.left = c.left /\ d.reading = c.reading
      /\ c.reading \in Nat /\ c.writing \in Nat
  BY DEF EndsOne, CopierRecord
<1> HIDE DEF d
<1>3. CopierOK(d, s.what.src[i]) /\ OneIfFailed(d)
  BY <1>2 DEF CopierOK, EndsOne, OneIfFailed
<1>4. CopyGoing(t) /\ At(s, t, i, d)
  BY <1>2, <1>3, WithCopierOK
<1> HIDE DEF t
<1>5. CopyOK(t) /\ HasFailed(t)
  <2>1. t.live # "new" /\ t.op # "save" /\ IsCopy(t)
    BY <1>4, AllRecordedFacts DEF CopyGoing
  <2> QED
    BY <1>2, <1>4, <2>1, GoingOK DEF HasFailed, At
<1>6. ~WaitsForOther(c) => CopyOK(CopierFails(t, i)) /\ HasFailed(CopierFails(t, i))
  <2> HAVE ~WaitsForOther(c)
  <2>1. d.reading = 0 /\ d.writing = 0
    BY <1>2 DEF WaitsForOther
  <2> QED
    BY <1>2, <1>4, <2>1, CopierFailsOK DEF At
<1> QED
  BY <1>1, <1>5, <1>6

\* An operation that was not started.
LEMMA NotStartedOK ==
    ASSUME NEW s, NEW i \in Parts(s), NEW c, CopyGoing(s), s.copiers[i].st = "run",
           EndsOne(c), NEW late \in Lateness
    PROVE  CopyOK(NotStarted(s, i, c, late))
<1> DEFINE r == DataFails(s, i, c)
           b == r.late \/ late
           t == [r EXCEPT !.late = b]
<1>1. CopyOK(r) /\ HasFailed(r)
  BY DataFailsOK
<1>2. NotStarted(s, i, c, late) = t
  BY DEF NotStarted
<1>3. b => r.late \/ May("launch")
  BY DEF Lateness
<1> HIDE DEF r, b
<1>4. Kept(r, t, {"late"}) /\ t.late = b
  BY <1>1 DEF HasFailed, Kept, IsCopy, CopyFields
<1> HIDE DEF t
<1>5. /\ IsCopy(t) /\ t.what = r.what /\ t.live = r.live /\ t.oldLeft = r.oldLeft /\ t.made = r.made
      /\ t.oldRec = r.oldRec /\ t.recs = r.recs /\ t.index = r.index /\ t.copiers = r.copiers
      /\ t.launched = r.launched /\ t.error = r.error /\ t.tasks = r.tasks /\ t.state = r.state
      /\ t.gone = r.gone /\ t.scheduled = r.scheduled /\ t.inflight = r.inflight
      /\ t.finished = r.finished /\ t.delayed = r.delayed /\ t.connected = r.connected
      /\ t.shutdown = r.shutdown /\ t.checks = r.checks /\ t.op = r.op /\ t.crashed = r.crashed
  BY <1>4 DEF Kept, CopyFields
<1>6. Parts(t) = Parts(r) /\ Total(t) = Total(r) /\ Crashing(t) = Crashing(r)
  BY <1>5 DEF Parts, Total, Crashing
<1>7. CopyTypeOK(t)
  BY <1>1, <1>5, <1>6 DEF CopyOK, CopyTypeOK
<1>8. InState(t, "run") = InState(r, "run") /\ InState(t, "freed") = InState(r, "freed")
  BY <1>5, <1>6 DEF InState
<1>9. CopiersOK(t)
  <2>1. t.late => May("launch") /\ \E j \in Parts(t) : t.copiers[j].failed
    BY <1>1, <1>3, <1>4, <1>5, <1>6 DEF CopyOK, CopiersOK, HasFailed
  <2>2. CopiersOK(r)
    BY <1>1 DEF CopyOK
  <2> QED
    BY <1>5, <1>6, <1>8, <2>1, <2>2 DEF CopiersOK
<1>10. r.op # "save" /\ Before(r) /\ Copying(r) /\ OldLives(r) /\ r.live # "new"
  BY <1>1 DEF HasFailed, CopyOK
<1>11. Before(t)
  BY <1>5, <1>6, <1>10 DEF Before, Has
<1>12. Copying(t)
  BY <1>5, <1>6, <1>8, <1>10 DEF Copying, Has, OldIsKept, Running
<1>13. OldLives(t)
  BY <1>5, <1>10 DEF OldLives
<1> QED
  BY <1>2, <1>5, <1>7, <1>9, <1>10, <1>11, <1>12, <1>13 DEF CopyOK

\* A copier that was told of the failure of another.
LEMMA ToldOK ==
    ASSUME NEW t, NEW i \in Parts(t), CopyGoing(t), t.copiers[i].st = "run", t.copiers[i].failed = TRUE,
           WaitsForOther(t.copiers[i]) => Crashing(t)
    PROVE  Fine(Told(t, i))
<1>1. t.copiers[i] \in CopierRecord /\ AllRecorded(t)
  BY DEF CopyGoing, AllRecorded, OldBase, CopiersOK, CopierOK
<1>2. CASE WaitsForOther(t.copiers[i])
  BY <1>1, <1>2, CrashRecorded DEF Told, Fine
<1>3. CASE ~WaitsForOther(t.copiers[i])
  <2>1. t.copiers[i].reading = 0 /\ t.copiers[i].writing = 0
    BY <1>1, <1>3 DEF WaitsForOther, CopierRecord
  <2>2. CopyOK(CopierFails(t, i))
    BY <2>1, CopierFailsOK
  <2> QED
    BY <1>3, <2>2 DEF Told, Fine
<1> QED
  BY <1>2, <1>3

\* A copier between the end of one of its operations and the start of the next.
LEMMA GotIs ==
    ASSUME NEW b, NEW size \in Nat, CopierOK(b, size), b.st = "run", b.reading > 0
    PROVE  LET d == Got([b EXCEPT !.reading = 0], b.reading)
           IN  EndsOne([d EXCEPT !.have = 0]) /\ (b.writing = 0 => EndsOne(WriteDataBlock(d)))
<1> DEFINE n == b.reading
           c == [b EXCEPT !.reading = 0]
           k == c.left - n
           d == [c EXCEPT !.have = n, !.left = k]
           e == [d EXCEPT !.have = 0]
           w == [d EXCEPT !.writing = d.have, !.have = 0]
<1>1. /\ b \in CopierRecord /\ b.left \in Nat /\ n \in Nat /\ n <= b.left
  BY DEF CopierOK, CopierRecord
<1>2. c \in CopierRecord /\ c.left = b.left /\ c.reading = 0 /\ c.st = "run" /\ c.writing = b.writing
  BY <1>1 DEF CopierRecord
<1>3. k \in Nat
  BY <1>1, <1>2
<1>4. Got(c, n) = d
  BY DEF Got
<1> HIDE DEF n, c, k
<1>5. d \in CopierRecord /\ d.left = k /\ d.reading = 0 /\ d.st = "run" /\ d.have = n /\ d.writing = b.writing
  BY <1>1, <1>2, <1>3 DEF CopierRecord
<1> HIDE DEF d
<1>6. e \in CopierRecord /\ e.left = k /\ e.reading = 0 /\ e.st = "run"
  BY <1>5 DEF CopierRecord
<1>7. w \in CopierRecord /\ w.left = k /\ w.reading = 0 /\ w.st = "run"
  BY <1>1, <1>5 DEF CopierRecord
<1>8. WriteDataBlock(d) = w
  BY DEF WriteDataBlock
<1> HIDE DEF e, w
<1>9. EndsOne(e) /\ EndsOne(w)
  BY <1>3, <1>6, <1>7 DEF EndsOne
<1> QED
  BY <1>4, <1>8, <1>9 DEF e, c, n

LEMMA WroteIs ==
    ASSUME NEW b, NEW size \in Nat, CopierOK(b, size), b.st = "run"
    PROVE  LET c == [b EXCEPT !.writing = 0]
               d == [c EXCEPT !.written = @ + b.writing]
           IN  /\ EndsOne([d EXCEPT !.have = 0])
               /\ WritesOn(d).reading = 0 => EndsOne(WritesOn(d))
<1> DEFINE c == [b EXCEPT !.writing = 0]
           n == c.written + b.writing
           d == [c EXCEPT !.written = n]
           e == [d EXCEPT !.have = 0]
           w == [d EXCEPT !.writing = d.have, !.have = 0]
<1>1. /\ b \in CopierRecord /\ b.left \in Nat /\ b.writing \in Nat /\ b.reading <= b.left
      /\ b.reading \in Nat /\ b.have \in Nat /\ b.written \in Nat
  BY DEF CopierOK, CopierRecord
<1>2. /\ c \in CopierRecord /\ c.left = b.left /\ c.reading = b.reading /\ c.st = "run" /\ c.writing = 0
      /\ c.have = b.have /\ c.written = b.written
  BY <1>1 DEF CopierRecord
<1>3. n \in Nat
  BY <1>1, <1>2
<1> HIDE DEF c, n
<1>4. /\ d \in CopierRecord /\ d.left = b.left /\ d.reading = b.reading /\ d.st = "run" /\ d.writing = 0
      /\ d.have = b.have
  BY <1>2, <1>3 DEF CopierRecord
<1> HIDE DEF d
<1>5. /\ e \in CopierRecord /\ e.left = b.left /\ e.reading = b.reading /\ e.st = "run" /\ e.writing = 0
      /\ e.have = 0
  BY <1>4 DEF CopierRecord
<1>6. /\ w \in CopierRecord /\ w.left = b.left /\ w.reading = b.reading /\ w.st = "run" /\ w.have = 0
  BY <1>1, <1>4 DEF CopierRecord
<1> HIDE DEF e, w
<1>7. EndsOne(e) /\ (w.reading = 0 => EndsOne(w)) /\ (d.reading = 0 => EndsOne(d))
  BY <1>1, <1>4, <1>5, <1>6 DEF EndsOne
<1>8. WritesOn(d) = w \/ WritesOn(d) = d
  BY DEF WritesOn, WriteDataBlock, w
<1> QED
  BY <1>7, <1>8 DEF e, d, n, c

\* read_data_block_success.
LEMMA ReadsOK ==
    ASSUME NEW s, NEW i \in Parts(s), CopyGoing(s), s.copiers[i].st = "run",
           s.copiers[i].reading > 0
    PROVE  LET c == [s.copiers[i] EXCEPT !.reading = 0]
           IN  Fine(Reads(s, i, c)) /\ EndsOne(c)
<1> DEFINE b == s.copiers[i]
           c == [b EXCEPT !.reading = 0]
           size == s.what.src[i]
           got == b.reading
           d == Got(c, got)
           w == IF c.writing > 0 THEN d ELSE WriteDataBlock(d)
           e == IF c.writing = 0 /\ w.left > 0 THEN ReadDataBlock(w) ELSE w
           t == WithCopier(s, i, c)
           r == WithCopier(s, i, e)
<1>1. Reads(s, i, c) = IF CopierStops(s) THEN CopierStopped(t)
                       ELSE IF c.failed THEN Told(t, i)
                       ELSE r
  BY DEF Reads, WithCopier
<1>2. CopierOK(b, size) /\ size \in Nat /\ (Crashing(s) \/ OneIfFailed(b))
  BY PartsAre DEF CopyGoing, AllRecorded, OldBase, CopiersOK
<1> HIDE DEF size
<1>3. /\ c \in CopierRecord /\ c.st = "run" /\ c.reading = 0 /\ c.left = b.left /\ c.have = b.have
      /\ c.writing = b.writing /\ c.failed = b.failed /\ c.written = b.written
  BY <1>2 DEF CopierOK, CopierRecord
<1>4. /\ b \in CopierRecord /\ b.left \in Nat /\ b.have \in Nat /\ b.writing \in Nat
      /\ b.written \in Nat /\ b.reading \in Nat /\ b.failed \in BOOLEAN
  BY <1>2 DEF CopierOK, CopierRecord
<1> HIDE DEF b, c
<1>5. CopierOK(c, size)
  BY <1>2, <1>3, <1>4 DEF CopierOK
<1>6. CopyGoing(t) /\ At(s, t, i, c)
  <2>1. CopierOK(c, s.what.src[i]) /\ c.st = "run" /\ OneIfFailed(c) /\ (s.copiers[i].failed => c.failed)
    BY <1>2, <1>3, <1>4, <1>5 DEF size, OneIfFailed, b
  <2> QED
    BY <2>1, WithCopierOK
<1>7. CopyOK(CopierStopped(t))
  BY <1>6, CopierStoppedOK
<1>8. c.failed => Fine(Told(t, i))
  <2> HAVE c.failed
  <2>1. c.failed = TRUE /\ (WaitsForOther(c) => Crashing(s))
    BY <1>2, <1>3, <1>4 DEF OneIfFailed, b, WaitsForOther
  <2>2. Crashing(t) = Crashing(s)
    BY DEF WithCopier, Crashing, Total, Parts
  <2> HIDE DEF t
  <2> QED
    BY <1>3, <1>6, <2>1, <2>2, ToldOK DEF At
<1>9. ~c.failed => CopyOK(r)
  <2> HAVE ~c.failed
  <2> DEFINE k == c.left - got
             dd == [c EXCEPT !.have = got, !.left = k]
  <2>1. got > 0 /\ got <= b.left /\ b.have = 0 /\ k \in Nat /\ k = b.left - got
    BY <1>2, <1>3, <1>4 DEF CopierOK, b
  <2>2. d = dd
    BY DEF Got
  <2> HIDE DEF got, k
  <2>3. /\ dd \in CopierRecord /\ dd.st = "run" /\ dd.reading = 0 /\ dd.left = k /\ dd.have = got
        /\ dd.writing = b.writing /\ ~dd.failed /\ dd.written = b.written
    <3>1. got \in Nat
      BY <1>4 DEF got
    <3> QED
      BY <1>3, <2>1, <3>1 DEF CopierRecord
  <2>4. got = IF CopyBlocks < b.left THEN CopyBlocks ELSE b.left
    BY <1>2, <1>3, <2>1 DEF CopierOK, got
  <2> HIDE DEF dd
  <2>5. CopierOK(dd, size)
    <3>1. b.written + b.writing + b.have + b.left = size
      BY <1>2, <1>3 DEF CopierOK
    <3>2. dd.written + dd.writing + dd.have + dd.left = size
      BY <1>4, <2>1, <2>3, <3>1 DEF got
    <3>3. size <= CopyBlocks => dd.left = 0
      BY <1>2, <1>4, <2>1, <2>3, <2>4, <3>1, CopyAssumption
    <3> QED
      BY <1>2, <2>1, <2>3, <3>2, <3>3 DEF CopierOK
  <2>6. CopierOK(e, size) /\ e.st = "run" /\ ~e.failed
    <3>1. CASE c.writing > 0
      <4>1. c.writing # 0
        BY <1>3, <1>4, <3>1
      <4>2. w = dd
        BY <2>2, <3>1
      <4> HIDE DEF w
      <4>3. e = dd
        BY <4>1, <4>2
      <4> QED
        BY <2>3, <2>5, <4>3
    <3>2. CASE c.writing = 0
      <4>1. w = WriteDataBlock(dd) /\ dd.writing = 0
        BY <1>3, <2>2, <2>3, <3>2
      <4> HIDE DEF w
      <4>2. /\ CopierOK(w, size) /\ w.st = "run" /\ ~w.failed /\ w.have = 0
        <5>1. CopierOK(dd, size) /\ dd.st = "run" /\ ~dd.failed /\ dd.writing = 0 /\ size \in Nat
          BY <1>2, <2>3, <2>5, <4>1
        <5> QED
          BY <4>1, <5>1, WriteDataBlockIs
      <4>3. CopierOK(ReadDataBlock(w), size) /\ ReadDataBlock(w).st = "run" /\ ~ReadDataBlock(w).failed
        BY <1>2, <4>2, ReadDataBlockIs
      <4> QED
        BY <4>2, <4>3
    <3> QED
      BY <1>3, <1>4, <3>1, <3>2
  <2>7. OneIfFailed(e) /\ ~s.copiers[i].failed
    BY <1>3, <2>6 DEF OneIfFailed, b
  <2> HIDE DEF e
  <2>8. CopierOK(e, s.what.src[i])
    BY <2>6 DEF size
  <2> QED
    BY <2>6, <2>7, <2>8, WithCopierOK
<1> HIDE DEF t, r
<1>10. EndsOne(c)
  BY <1>3, <1>5 DEF EndsOne, CopierOK
<1> QED
  BY <1>1, <1>7, <1>8, <1>9, <1>10 DEF c, b, Fine

LEMMA ReadBlockEndsOK ==
    ASSUME CopyRuns, ReadBlockEnds
    PROVE  CopyIInv'
<1>1. PICK i \in Parts(copy) :
        LET c == [copy.copiers[i] EXCEPT !.reading = 0]
            d == Got(c, copy.copiers[i].reading) IN
          /\ ~copy.gone /\ copy.copiers[i].reading > 0
          /\ \/ copy' = Reads(copy, i, c)
             \/ copy' = DataFails(copy, i, c)
             \/ /\ Goes(c) /\ c.writing = 0
                /\ WriteNotStarted(i, d) \/ ReadNotStarted(i, WriteDataBlock(d))
  BY DEF ReadBlockEnds
<1> DEFINE c == [copy.copiers[i] EXCEPT !.reading = 0]
           d == Got(c, copy.copiers[i].reading)
           e == [d EXCEPT !.have = 0]
           w == WriteDataBlock(d)
<1>2. CopyOK(copy) /\ CopierOK(copy.copiers[i], copy.what.src[i]) /\ copy.what.src[i] \in Nat
  BY PartsAre DEF CopyRuns, CopyOK, CopiersOK
<1>3. copy.copiers[i].st = "run"
  BY <1>1, <1>2 DEF CopierOK
<1>4. CopyGoing(copy)
  BY <1>2, <1>3, CopyingFacts DEF Running, InState
<1>5. Fine(Reads(copy, i, c)) /\ EndsOne(c)
  BY <1>1, <1>3, <1>4, ReadsOK
<1>6. c.writing = copy.copiers[i].writing
  BY <1>2 DEF CopierOK, CopierRecord
<1>7. EndsOne(e) /\ (c.writing = 0 => EndsOne(w))
  BY <1>1, <1>2, <1>3, <1>6, GotIs
<1>8. \/ copy' = Reads(copy, i, c)
      \/ copy' = DataFails(copy, i, c)
      \/ TRUE \in Lateness /\ copy' = NotStarted(copy, i, e, TRUE)
      \/ c.writing = 0 /\ \E late \in Lateness : copy' = NotStarted(copy, i, w, late)
  BY <1>1 DEF WriteNotStarted, ReadNotStarted, Lateness
<1> HIDE DEF c, e, w
<1>9. CopyOK(DataFails(copy, i, c))
  BY <1>3, <1>4, <1>5, DataFailsOK
<1>10. \A late \in Lateness : /\ CopyOK(NotStarted(copy, i, e, late))
                              /\ c.writing = 0 => CopyOK(NotStarted(copy, i, w, late))
  BY <1>3, <1>4, <1>7, NotStartedOK
<1> QED
  BY <1>5, <1>8, <1>9, <1>10 DEF CopyIInv, Fine

\* write_data_block_success.
LEMMA WritesOK ==
    ASSUME NEW s, NEW i \in Parts(s), CopyGoing(s), s.copiers[i].st = "run",
           s.copiers[i].writing > 0, NEW how \in Start
    PROVE  LET c == [s.copiers[i] EXCEPT !.writing = 0]
           IN  /\ Fine(Writes(s, i, [c EXCEPT !.written = @ + s.copiers[i].writing], how))
               /\ EndsOne(c)
<1> DEFINE b == s.copiers[i]
           size == s.what.src[i]
           z == [b EXCEPT !.writing = 0]
           n == z.written + b.writing
           c == [z EXCEPT !.written = n]
           w == WritesOn(c)
           e == IF w.left > 0 /\ w.reading = 0 THEN ReadDataBlock(w) ELSE w
           t == WithCopier(s, i, c)
           r == WithCopier(s, i, e)
<1>1. Writes(s, i, c, how) = IF CopierStops(s) THEN CopierStopped(t)
                        ELSE IF c.failed THEN Told(t, i)
                        ELSE IF w.left = 0 /\ w.writing = 0 THEN CopierSucceeds(r, i, how) ELSE r
  BY DEF Writes, WithCopier
<1>2. CopierOK(b, size) /\ size \in Nat /\ (Crashing(s) \/ OneIfFailed(b))
  BY PartsAre DEF CopyGoing, AllRecorded, OldBase, CopiersOK
<1>3. /\ b \in CopierRecord /\ b.left \in Nat /\ b.have \in Nat /\ b.writing \in Nat
      /\ b.written \in Nat /\ b.reading \in Nat /\ b.failed \in BOOLEAN /\ b.st = "run" /\ b.writing > 0
  BY <1>2 DEF CopierOK, CopierRecord
<1> HIDE DEF size, b
<1>4. /\ z \in CopierRecord /\ z.st = "run" /\ z.reading = b.reading /\ z.left = b.left
      /\ z.have = b.have /\ z.writing = 0 /\ z.failed = b.failed /\ z.written = b.written
  BY <1>3 DEF CopierRecord
<1> HIDE DEF z
<1>5. n \in Nat /\ n = b.written + b.writing
  BY <1>3, <1>4
<1> HIDE DEF n
<1>6. /\ c \in CopierRecord /\ c.st = "run" /\ c.reading = b.reading /\ c.left = b.left
      /\ c.have = b.have /\ c.writing = 0 /\ c.failed = b.failed /\ c.written = n
  BY <1>4, <1>5 DEF CopierRecord
<1> HIDE DEF c
<1>7. CopierOK(c, size)
  BY <1>2, <1>3, <1>5, <1>6 DEF CopierOK
<1>8. CopierOK(c, s.what.src[i]) /\ c.st = "run" /\ OneIfFailed(c) /\ (s.copiers[i].failed => c.failed)
  BY <1>2, <1>3, <1>6, <1>7 DEF size, OneIfFailed, b
<1>9. CopyGoing(t) /\ At(s, t, i, c) /\ CopyOK(CopierStopped(t))
  BY <1>8, WithCopierOK
<1>10. c.failed => Fine(Told(t, i))
  <2> HAVE c.failed
  <2>1. c.failed = TRUE /\ (WaitsForOther(c) => Crashing(s))
    BY <1>2, <1>3, <1>6 DEF OneIfFailed, WaitsForOther
  <2>2. Crashing(t) = Crashing(s)
    BY DEF WithCopier, Crashing, Total, Parts
  <2> HIDE DEF t
  <2> QED
    BY <1>6, <1>9, <2>1, <2>2, ToldOK DEF At
<1>11. ~CopierStops(s) /\ ~c.failed =>
          Fine(IF w.left = 0 /\ w.writing = 0 THEN CopierSucceeds(r, i, how) ELSE r)
  <2> HAVE ~CopierStops(s) /\ ~c.failed
  <2>1. /\ CopierOK(w, size) /\ w.st = "run" /\ ~w.failed /\ w.have = 0 /\ w.writing = c.have
        /\ w.left = c.left /\ w.reading = c.reading
    <3>1. CASE c.have > 0
      <4>1. /\ CopierOK(WriteDataBlock(c), size) /\ WriteDataBlock(c).st = "run"
            /\ ~WriteDataBlock(c).failed /\ WriteDataBlock(c).have = 0
            /\ WriteDataBlock(c).writing = c.have /\ WriteDataBlock(c).left = c.left
            /\ WriteDataBlock(c).reading = c.reading
        BY <1>2, <1>6, <1>7, WriteDataBlockIs
      <4> QED
        BY <3>1, <4>1 DEF WritesOn
    <3>2. CASE ~(c.have > 0)
      <4>1. w = c /\ c.have = 0
        BY <1>3, <1>6, <3>2 DEF WritesOn
      <4> QED
        BY <1>6, <1>7, <4>1
    <3> QED
      BY <3>1, <3>2
  <2> HIDE DEF w
  <2>2. CopierOK(ReadDataBlock(w), size) /\ ReadDataBlock(w).st = "run" /\ ~ReadDataBlock(w).failed
    BY <1>2, <2>1, ReadDataBlockIs
  <2>3. CopierOK(e, size) /\ e.st = "run" /\ ~e.failed
    BY <2>1, <2>2
  <2>4. w.left = 0 => e = w
    OBVIOUS
  <2> HIDE DEF e
  <2>5. e.failed = FALSE /\ CopierOK(e, s.what.src[i]) /\ OneIfFailed(e) /\ ~s.copiers[i].failed
    BY <1>6, <2>3 DEF CopierOK, CopierRecord, size, OneIfFailed, b
  <2>6. CopyGoing(r) /\ At(s, r, i, e) /\ CopyOK(r)
    BY <2>3, <2>5, WithCopierOK
  <2> HIDE DEF r
  <2>7. w.left = 0 /\ w.writing = 0 => Fine(CopierSucceeds(r, i, how))
    <3> HAVE w.left = 0 /\ w.writing = 0
    <3>1. e.reading = 0 /\ e.writing = 0 /\ e.left = 0 /\ e.have = 0
      BY <1>3, <1>6, <2>1, <2>4, <1>7 DEF CopierOK
    <3>2. ~r.shutdown /\ r.copiers[i] = e /\ i \in Parts(r)
      BY <2>6 DEF CopierStops, At
    <3> QED
      BY <2>3, <2>5, <2>6, <3>1, <3>2, CopierSucceedsOK
  <2> QED
    BY <2>6, <2>7 DEF Fine
<1>12. EndsOne(z)
  BY <1>2, <1>3, <1>4 DEF EndsOne, CopierOK
<1>13. Fine(Writes(s, i, c, how))
  <2> HIDE DEF t, r, w
  <2> QED
    BY <1>1, <1>9, <1>10, <1>11 DEF Fine
<1> QED
  BY <1>12, <1>13 DEF c, n, z, b

LEMMA WriteBlockEndsOK ==
    ASSUME CopyRuns, WriteBlockEnds
    PROVE  CopyIInv'
<1>1. PICK i \in Parts(copy) :
        LET c == [copy.copiers[i] EXCEPT !.writing = 0]
            d == [c EXCEPT !.written = @ + copy.copiers[i].writing] IN
          /\ ~copy.gone /\ copy.copiers[i].writing > 0
          /\ \/ \E how \in Start : copy' = Writes(copy, i, d, how)
             \/ copy' = DataFails(copy, i, c)
             \/ Goes(c) /\ (WriteNotStarted(i, d) \/ ReadNotStarted(i, WritesOn(d)))
  BY DEF WriteBlockEnds
<1> DEFINE c == [copy.copiers[i] EXCEPT !.writing = 0]
           d == [c EXCEPT !.written = @ + copy.copiers[i].writing]
           e == [d EXCEPT !.have = 0]
           w == WritesOn(d)
<1>2. CopyOK(copy) /\ CopierOK(copy.copiers[i], copy.what.src[i]) /\ copy.what.src[i] \in Nat
  BY PartsAre DEF CopyRuns, CopyOK, CopiersOK
<1>3. copy.copiers[i].st = "run"
  BY <1>1, <1>2 DEF CopierOK
<1>4. CopyGoing(copy)
  BY <1>2, <1>3, CopyingFacts DEF Running, InState
<1>5. \A how \in Start : Fine(Writes(copy, i, d, how)) /\ EndsOne(c)
  BY <1>1, <1>3, <1>4, WritesOK
<1>6. EndsOne(c)
  BY <1>5 DEF Start
<1>7. EndsOne(e) /\ (w.reading = 0 => EndsOne(w))
  BY <1>2, <1>3, WroteIs
<1>8. \/ \E how \in Start : copy' = Writes(copy, i, d, how)
      \/ copy' = DataFails(copy, i, c)
      \/ TRUE \in Lateness /\ copy' = NotStarted(copy, i, e, TRUE)
      \/ w.reading = 0 /\ \E late \in Lateness : copy' = NotStarted(copy, i, w, late)
  BY <1>1 DEF WriteNotStarted, ReadNotStarted, Lateness
<1> HIDE DEF c, d, e, w
<1>9. CopyOK(DataFails(copy, i, c))
  BY <1>3, <1>4, <1>6, DataFailsOK
<1>10. \A late \in Lateness : /\ CopyOK(NotStarted(copy, i, e, late))
                              /\ w.reading = 0 => CopyOK(NotStarted(copy, i, w, late))
  BY <1>3, <1>4, <1>7, NotStartedOK
<1> QED
  BY <1>5, <1>8, <1>9, <1>10 DEF CopyIInv, Fine

\* It may do no harm.
LEMMA LateIsOver ==
    ASSUME NEW s, NEW t, CopyOK(s), s.live # "new", Kept(s, t, {"late"}), t.late = FALSE
    PROVE  CopyOK(t)
<1>1. /\ IsCopy(t) /\ t.what = s.what /\ t.delayed = s.delayed /\ t.op = s.op /\ t.state = s.state
      /\ t.index = s.index /\ t.made = s.made /\ t.recs = s.recs /\ t.oldRec = s.oldRec
      /\ t.oldLeft = s.oldLeft /\ t.live = s.live /\ t.copiers = s.copiers
      /\ t.inflight = s.inflight /\ t.launched = s.launched /\ t.finished = s.finished
      /\ t.error = s.error /\ t.tasks = s.tasks /\ t.scheduled = s.scheduled
      /\ t.checks = s.checks /\ t.connected = s.connected /\ t.shutdown = s.shutdown
      /\ t.gone = s.gone /\ t.crashed = s.crashed
  BY DEF Kept, CopyFields
<1>2. Parts(t) = Parts(s) /\ Total(t) = Total(s) /\ (Crashing(t) <=> Crashing(s))
  BY <1>1 DEF Parts, Total, Crashing
<1>3. \A st : InState(t, st) = InState(s, st)
  BY <1>1, <1>2 DEF InState
<1>4. CopyTypeOK(t)
  BY <1>1, <1>2 DEF CopyOK, CopyTypeOK
<1>5. CopiersOK(t)
  BY <1>1, <1>2, <1>3 DEF CopyOK, CopiersOK
<1>6. Before(t) /\ Copying(t)
  BY <1>1, <1>2, <1>3 DEF CopyOK, Before, Copying, Running, Has, OldIsKept, AllWritten
<1>7. OldLives(t)
  BY <1>1 DEF CopyOK, OldLives
<1> QED
  BY <1>1, <1>4, <1>5, <1>6, <1>7 DEF CopyOK

\* The second report of an operation that was not launched.
LEMMA LateFailureOK ==
    ASSUME CopyRuns, LateFailure
    PROVE  CopyIInv'
<1> DEFINE t == [copy EXCEPT !.late = FALSE]
<1>1. CopyOK(copy) /\ copy.late /\ copy' \in {Crash(copy), t}
  BY DEF CopyRuns, LateFailure
<1>2. copy.live # "new"
  BY <1>1 DEF CopyOK, NewLives
<1>3. OldBase(copy) /\ OldLives(copy)
  BY <1>1, <1>2, OldLivesBase
<1>4. CrashBase(copy)
  BY <1>2, <1>3 DEF CrashBase, OldLives, OldBase, CopyTypeOK
<1>5. Crashing(copy) /\ \A i \in Parts(copy) : copy.copiers[i] \in CopierRecord
  BY <1>1, <1>3 DEF OldBase, CopiersOK, CopierOK, Crashing
<1>6. CrashedOK(Crash(copy))
  BY <1>4, <1>5, CrashOK
<1>7. Kept(copy, t, {"late"}) /\ t.late = FALSE
  BY <1>1 DEF CopyOK, CopyTypeOK, Kept, IsCopy, CopyFields
<1> HIDE DEF t
<1>8. CopyOK(t)
  BY <1>1, <1>2, <1>3, <1>7, LateIsOver
<1> QED
  BY <1>1, <1>6, <1>8 DEF CopyIInv, Fine

-----------------------------------------------------------------------------
(* The save, and the clean up after the reply.                             *)

\* A copy that is saved, when its records or the old object's have changed.
NewChanges == {"op", "recs", "oldRec", "oldLeft", "version"}
LEMMA NewKept ==
    ASSUME NEW s, NEW t, CopyOK(s), s.live = "new", s.gone = FALSE, Kept(s, t, NewChanges),
           t.recs \in [Parts(s) -> RecordStates], \A i \in Parts(s) : t.recs[i] # "forced",
           t.oldRec \in RecordStates, t.oldLeft \in 0 .. s.what.old,
           t.oldLeft > 0 => t.oldRec # "none"
    PROVE  /\ CopyTypeOK(t) /\ CopiersOK(t) /\ NewIsThere(t) /\ Flags(t) /\ TasksIn(t.tasks, NewTasks)
           /\ t.checks = FALSE /\ t.gone = FALSE
<1>1. /\ IsCopy(t) /\ t.what = s.what /\ t.live = s.live /\ t.made = s.made
      /\ t.index = s.index /\ t.copiers = s.copiers /\ t.tasks = s.tasks /\ t.state = s.state
      /\ t.checks = s.checks /\ t.launched = s.launched /\ t.error = s.error
      /\ t.gone = s.gone /\ t.scheduled = s.scheduled /\ t.inflight = s.inflight
      /\ t.finished = s.finished /\ t.delayed = s.delayed /\ t.connected = s.connected
      /\ t.shutdown = s.shutdown /\ t.late = s.late /\ t.crashed = s.crashed
  BY DEF Kept, CopyFields, NewChanges
<1>2. Parts(t) = Parts(s)
  BY <1>1 DEF Parts
<1>3. /\ CopyTypeOK(s) /\ CopiersOK(s) /\ NewLives(s) /\ Copying(s)
  BY DEF CopyOK
<1>4. CopyTypeOK(t)
  BY <1>1, <1>2, <1>3 DEF CopyTypeOK
<1>5. CopiersOK(t) /\ (Running(t) <=> Running(s)) /\ (AllWritten(t) <=> AllWritten(s))
  BY <1>1, <1>3, CopiersKept
<1>6. ~Running(s)
  BY <1>3 DEF Copying
<1>7. NewIsThere(t)
  BY <1>1, <1>2, <1>3, <1>4, <1>5, <1>6 DEF NewIsThere, NewLives, CopyTypeOK
<1>8. Flags(t)
  BY <1>4, BaseFlags
<1>9. TasksIn(t.tasks, NewTasks)
  BY <1>1, <1>3 DEF TasksIn, NewLives, CopyTypeOK
<1> QED
  BY <1>1, <1>4, <1>5, <1>7, <1>8, <1>9 DEF NewIsThere

LEMMA NextCleanupNew ==
    ASSUME NEW t, CopyTypeOK(t), CopiersOK(t), NewIsThere(t), Flags(t), TasksIn(t.tasks, NewTasks),
           t.checks = FALSE
    PROVE  CopyOK(NextCleanup(t))
<1>1. NextCleanup(t) = RunTasks(t)
  BY DEF NextCleanup
<1>2. NewEnds(t, RunTasks(t))
  BY RunTasksNew
<1> DEFINE r == RunTasks(t)
<1> HIDE DEF r
<1>3. NewEnds(t, r)
  BY <1>2 DEF r
<1>4. CopyOK(r)
  BY <1>3, NewEndsOK
<1> QED
  BY <1>1, <1>4 DEF r

\* One more operation on the old object.
LEMMA NewGoesOn ==
    ASSUME NEW t, CopyTypeOK(t), CopiersOK(t), NewIsThere(t), TasksIn(t.tasks, NewTasks),
           \/ t.op = "deleteOld" /\ t.oldLeft > 0
           \/ t.op \in {"deleteVersion", "unrecordOld"} /\ t.oldLeft = 0
    PROVE  CopyOK(t)
<1>1. Before(t)
  BY DEF Before, Building, CopyEarly
<1>2. Copying(t)
  BY DEF Copying, NewIsThere
<1>3. NewLives(t) /\ t.live = "new"
  BY DEF NewLives, NewIsThere, NewOps, NewTasks, TasksIn
<1> QED
  BY <1>1, <1>2, <1>3 DEF CopyOK

\* A copy that has failed, when its Motr objects or records have changed.
OldChanges == {"op", "recs", "oldRec", "made"}
LEMMA OldKept ==
    ASSUME NEW s, NEW t, CopyOK(s), s.live # "new", s.gone = FALSE,
           s.op \in OldTasks \cup {"unrecordNew"}, Kept(s, t, OldChanges),
           t.recs \in [Parts(s) -> RecordStates], t.oldRec \in {s.oldRec, "none"},
           t.made \subseteq s.made, \A i \in t.made : t.recs[i] # "none"
    PROVE  /\ OldBase(t) /\ ~Running(t) /\ NoneUnrecorded(t) /\ t.error = TRUE /\ t.gone = FALSE
           /\ t.live # "new" /\ t.what = s.what
<1>1. /\ IsCopy(t) /\ t.what = s.what /\ t.live = s.live /\ t.oldLeft = s.oldLeft
      /\ t.index = s.index /\ t.copiers = s.copiers /\ t.tasks = s.tasks /\ t.state = s.state
      /\ t.checks = s.checks /\ t.launched = s.launched /\ t.error = s.error
      /\ t.gone = s.gone /\ t.scheduled = s.scheduled /\ t.inflight = s.inflight
      /\ t.finished = s.finished /\ t.delayed = s.delayed /\ t.connected = s.connected
      /\ t.shutdown = s.shutdown /\ t.late = s.late /\ t.crashed = s.crashed
  BY DEF Kept, CopyFields, OldChanges
<1>2. Parts(t) = Parts(s)
  BY <1>1 DEF Parts
<1>3. /\ CopyTypeOK(s) /\ CopiersOK(s) /\ OldLives(s) /\ Copying(s) /\ OldBase(s)
  BY OldLivesBase DEF CopyOK
<1>4. CopyTypeOK(t)
  <2>1. t.oldRec \in RecordStates /\ t.made \subseteq Parts(s)
    BY <1>3 DEF CopyTypeOK, RecordStates
  <2> QED
    BY <1>1, <1>2, <1>3, <2>1 DEF CopyTypeOK
<1>5. CopiersOK(t) /\ (Running(t) <=> Running(s))
  BY <1>1, <1>3, CopiersKept
<1>6. ~Running(s)
  BY <1>3 DEF Copying, OldTasks
<1>7. OldIsThere(t)
  BY <1>1, <1>3 DEF OldIsThere, OldLives
<1>8. TasksIn(t.tasks, OldTasks)
  BY <1>1, <1>3 DEF OldBase
<1>9. t.error = TRUE
  BY <1>1, <1>3 DEF OldLives, CopyTypeOK
<1> QED
  BY <1>1, <1>4, <1>5, <1>6, <1>7, <1>8, <1>9 DEF OldBase, NoneUnrecorded

LEMMA NextCleanupOld ==
    ASSUME NEW t, OldBase(t), ~Running(t), NoneUnrecorded(t), t.error = TRUE, t.gone = FALSE
    PROVE  CopyOK(NextCleanup(t))
<1>1. CASE t.shutdown /\ t.checks
  BY <1>1, RollbackOK DEF NextCleanup
<1>2. CASE ~(t.shutdown /\ t.checks)
  <2> DEFINE r == RunTasks(t)
  <2>1. Flags(t) /\ TasksIn(t.tasks, OldTasks) /\ t.state # "completed"
    BY BaseFlags DEF OldBase, OldIsThere
  <2>2. /\ Carries(t, r) /\ TasksIn(r.tasks, OldTasks) /\ r.op \in OldTasks \cup {"none"}
        /\ r.gone \in BOOLEAN
    BY <2>1, RunTasksIs DEF Flags
  <2> HIDE DEF r
  <2>3. Same(t, r) /\ r.scheduled = t.scheduled /\ r.error = TRUE /\ r.state = t.state
    BY <2>2 DEF Carries
  <2>4. Flags(r)
    BY <2>1, <2>2, <2>3, SameFlags
  <2>5. OldOver(t, r) /\ CopyInterrupted(t, r) /\ Unrecorded(t, r)
    BY <2>1, <2>2, <2>3, <2>4 DEF OldOver, CopyInterrupted, Unrecorded, NoneUnrecorded
  <2>6. CopyOK(r)
    BY <2>5, OldOverOK DEF OldBase
  <2> QED
    BY <1>2, <2>6 DEF NextCleanup, r
<1> QED
  BY <1>1, <1>2

LEMMA SeqIn ==
    ASSUME NEW ts \in Seq(Tasks)
    PROVE  TasksIn(ts, Tasks)
  BY DEF TasksIn

\* save_object_metadata_success and save_object_metadata_failed.
LEMMA SavedOK ==
    ASSUME NEW s, CopyOK(s), s.op = "save", s.gone = FALSE
    PROVE  CopyOK(Saved(s)) /\ OldBase(s) /\ ~Running(s) /\ NoneUnrecorded(s)
<1> DEFINE t == [s EXCEPT !.live = "new", !.state = "metadataSaved"]
           l == [t EXCEPT !.gone = TRUE, !.op = "none"]
<1>1. s.live # "new"
  BY DEF CopyOK, NewLives, NewOps, NewTasks
<1>2. OldBase(s) /\ CopyTypeOK(s) /\ CopiersOK(s)
  BY <1>1, OldLivesBase DEF CopyOK
<1>3. /\ Has(s, Total(s), Total(s)) /\ OldIsKept(s) /\ AllWritten(s) /\ ~Running(s) /\ s.checks = FALSE
      /\ s.error = FALSE /\ s.scheduled = FALSE /\ ~s.late
  BY <1>2 DEF CopyOK, Before, CopyTypeOK
<1>4. Parts(s) = 1 .. Total(s) /\ Total(s) \in Nat /\ s.what.old \in Nat
  BY <1>2, PartsAre
<1>5. s.made = Parts(s) /\ (\A i \in Parts(s) : s.recs[i] = "kept") /\ NoneUnrecorded(s)
  BY <1>3, <1>4 DEF Has, NoneUnrecorded
<1>6. Kept(s, t, {"live", "state"}) /\ t.live = "new" /\ t.state = "metadataSaved"
  BY <1>2 DEF Kept, CopyTypeOK, IsCopy, CopyFields
<1> HIDE DEF t
<1>7. /\ IsCopy(t) /\ t.what = s.what /\ t.oldLeft = s.oldLeft /\ t.made = s.made
      /\ t.oldRec = s.oldRec /\ t.recs = s.recs /\ t.index = s.index /\ t.copiers = s.copiers
      /\ t.launched = s.launched /\ t.error = s.error /\ t.tasks = s.tasks /\ t.checks = s.checks
      /\ t.gone = s.gone /\ t.scheduled = s.scheduled /\ t.inflight = s.inflight
      /\ t.finished = s.finished /\ t.delayed = s.delayed /\ t.connected = s.connected
      /\ t.shutdown = s.shutdown /\ t.late = s.late /\ t.crashed = s.crashed
  BY <1>6 DEF Kept, CopyFields
<1>8. Parts(t) = Parts(s)
  BY <1>7 DEF Parts
<1>9. CopyTypeOK(t)
  BY <1>2, <1>7, <1>8 DEF CopyTypeOK
<1>10. CopiersOK(t) /\ (Running(t) <=> Running(s)) /\ (AllWritten(t) <=> AllWritten(s))
  BY <1>2, <1>7, CopiersKept
<1>11. NewIsThere(t)
  BY <1>2, <1>3, <1>4, <1>5, <1>6, <1>7, <1>8, <1>10 DEF NewIsThere, OldIsKept, CopyTypeOK
<1>12. Flags(t)
  BY <1>9, BaseFlags
<1>13. CopyOK(RespondCopy(t))
  <2> DEFINE r == RespondCopy(t)
  <2>1. NewEnds(t, r)
    BY <1>3, <1>7, <1>12, RespondNew
  <2> HIDE DEF r
  <2>2. CopyOK(r)
    BY <1>9, <1>10, <1>11, <2>1, NewEndsOK
  <2> QED
    BY <2>2 DEF r
<1>14. CopyOK(l)
  <2>1. /\ Same(t, l) /\ l.gone = TRUE /\ l.op = "none" /\ l.error = t.error
        /\ l.scheduled = t.scheduled /\ l.tasks = t.tasks
    BY <1>7 DEF Same, IsCopy, CopyFields
  <2> HIDE DEF l
  <2>2. Flags(l)
    BY <1>12, <2>1, SameFlags DEF Flags
  <2>3. TasksIn(l.tasks, Tasks)
    BY <1>9, <2>1, SeqIn DEF CopyTypeOK
  <2>4. NewEnds(t, l)
    BY <2>1, <2>2, <2>3 DEF NewEnds
  <2> QED
    BY <1>9, <1>10, <1>11, <2>4, NewEndsOK
<1>15. Stopped(t) = l
  BY <1>3, <1>7 DEF Stopped
<1>16. Saved(s) = IF Stops(t) THEN Stopped(t) ELSE RespondCopy(t)
  BY DEF Saved, t
<1> QED
  BY <1>2, <1>3, <1>5, <1>13, <1>14, <1>15, <1>16

LEMMA CopySaveEndsOK ==
    ASSUME CopyRuns, CopySaveEnds
    PROVE  CopyRuns'
<1>1. CopyOK(copy) /\ copy.op = "save" /\ copy.gone = FALSE
  BY DEF CopyRuns, CopyOK, CopyTypeOK, CopySaveEnds
<1>2. CopyOK(Saved(copy)) /\ OldBase(copy) /\ ~Running(copy) /\ NoneUnrecorded(copy)
  BY <1>1, SavedOK
<1>3. CopyOK(FailCopy(copy, "metadataSaveFailed"))
  BY <1>2, FailOK DEF NoneUnrecorded
<1> QED
  BY <1>2, <1>3 DEF CopySaveEnds, CopyRuns

\* The records of the parts are marked or removed.
LEMMA SetRecsIs ==
    ASSUME NEW s, CopyTypeOK(s), NEW value \in RecordStates
    PROVE  LET t == SetRecs(s, value)
           IN  /\ Kept(s, t, {"recs"}) /\ t.recs \in [Parts(s) -> RecordStates]
               /\ \A i \in Parts(s) : t.recs[i] = IF s.recs[i] = "none" THEN "none" ELSE value
<1> DEFINE rs == [i \in Parts(s) |-> IF s.recs[i] = "none" THEN "none" ELSE value]
           t == [s EXCEPT !.recs = rs]
<1>1. rs \in [Parts(s) -> RecordStates] /\ \A i \in Parts(s) : rs[i] = IF s.recs[i] = "none" THEN "none" ELSE value
  BY DEF RecordStates
<1> HIDE DEF rs
<1>2. Kept(s, t, {"recs"}) /\ t.recs = rs
  BY DEF Kept, CopyTypeOK, IsCopy, CopyFields
<1>3. SetRecs(s, value) = t
  BY DEF SetRecs, rs
<1> HIDE DEF t
<1> QED
  BY <1>1, <1>2, <1>3

LEMMA RecordTaskEndsOK ==
    ASSUME CopyRuns, RecordTaskEnds
    PROVE  CopyRuns'
<1> DEFINE Recording == {"markNew", "markOld", "unrecordNew", "unrecordOld"}
<1>1. CopyOK(copy) /\ CopyTypeOK(copy) /\ copy.gone = FALSE /\ IsCopy(copy)
  BY DEF CopyRuns, CopyOK, CopyTypeOK, RecordTaskEnds
<1>2. /\ copy.recs \in [Parts(copy) -> RecordStates] /\ copy.oldRec \in RecordStates
      /\ copy.oldLeft \in 0 .. copy.what.old /\ copy.made \subseteq Parts(copy)
  BY <1>1 DEF CopyTypeOK
<1>3. PICK t : /\ copy' = NextCleanup(t)
               /\ \/ copy.op \in Recording /\ t = copy
                  \/ copy.op = "markNew" /\ t = SetRecs(copy, "forced")
                  \/ copy.op = "unrecordNew" /\ t = SetRecs(copy, "none")
                  \/ copy.op = "markOld" /\ t = MarkOld(copy)
                  \/ copy.op = "unrecordOld" /\ t = [copy EXCEPT !.oldRec = "none"]
  BY DEF RecordTaskEnds
<1>4. \/ copy.op \in Recording /\ Kept(copy, t, {}) /\ t.recs = copy.recs /\ t.oldRec = copy.oldRec
      \/ /\ copy.op = "markNew" /\ Kept(copy, t, {"recs"}) /\ t.recs \in [Parts(copy) -> RecordStates]
         /\ \A i \in Parts(copy) : t.recs[i] = IF copy.recs[i] = "none" THEN "none" ELSE "forced"
      \/ /\ copy.op = "unrecordNew" /\ Kept(copy, t, {"recs"}) /\ t.recs \in [Parts(copy) -> RecordStates]
         /\ \A i \in Parts(copy) : t.recs[i] = IF copy.recs[i] = "none" THEN "none" ELSE "none"
      \/ copy.op = "markOld" /\ Kept(copy, t, {"oldRec"}) /\ t.oldRec = "forced"
      \/ copy.op = "unrecordOld" /\ Kept(copy, t, {"oldRec"}) /\ t.oldRec = "none"
  <2>1. CASE copy.op \in Recording /\ t = copy
    BY <1>1, <2>1 DEF Kept
  <2>2. CASE copy.op = "markNew" /\ t = SetRecs(copy, "forced")
    BY <1>1, <2>2, SetRecsIs DEF RecordStates
  <2>3. CASE copy.op = "unrecordNew" /\ t = SetRecs(copy, "none")
    BY <1>1, <2>3, SetRecsIs DEF RecordStates
  <2>4. CASE copy.op = "markOld" /\ t = MarkOld(copy)
    BY <1>1, <2>4 DEF MarkOld, Kept, IsCopy, CopyFields
  <2>5. CASE copy.op = "unrecordOld" /\ t = [copy EXCEPT !.oldRec = "none"]
    BY <1>1, <2>5 DEF Kept, IsCopy, CopyFields
  <2> QED
    BY <1>3, <2>1, <2>2, <2>3, <2>4, <2>5
<1>5. /\ Kept(copy, t, {"recs", "oldRec"}) /\ t.made = copy.made /\ t.oldLeft = copy.oldLeft
      /\ t.recs \in [Parts(copy) -> RecordStates] /\ t.oldRec \in RecordStates
      /\ Kept(copy, t, NewChanges) /\ Kept(copy, t, OldChanges)
  BY <1>2, <1>4 DEF Kept, CopyFields, RecordStates, NewChanges, OldChanges
<1>6. copy.live = "new" => CopyOK(NextCleanup(t))
  <2> HAVE copy.live = "new"
  <2>1. NewLives(copy)
    BY <1>1 DEF CopyOK
  <2>2. \A i \in Parts(copy) : t.recs[i] # "forced"
    BY <1>4, <2>1 DEF NewLives, NewOps, NewTasks, Kept, CopyFields
  <2>3. t.oldLeft > 0 => t.oldRec # "none"
    BY <1>4, <1>5, <2>1 DEF NewLives, Kept, CopyFields
  <2>4. /\ CopyTypeOK(t) /\ CopiersOK(t) /\ NewIsThere(t) /\ Flags(t) /\ TasksIn(t.tasks, NewTasks)
        /\ t.checks = FALSE /\ t.gone = FALSE
    BY <1>1, <1>2, <1>5, <2>2, <2>3, NewKept
  <2> QED
    BY <2>4, NextCleanupNew
<1>7. copy.live # "new" => CopyOK(NextCleanup(t))
  <2> HAVE copy.live # "new"
  <2>1. OldLives(copy)
    BY <1>1 DEF CopyOK
  <2>2. copy.op \in OldTasks \cup {"unrecordNew"}
    BY <1>4, <2>1 DEF OldLives, OldOps, OldTasks, Building, CopyEarly
  <2>3. t.oldRec \in {copy.oldRec, "none"}
    BY <1>4, <2>2 DEF OldTasks, Kept, CopyFields
  <2>4. \A i \in t.made : t.recs[i] # "none"
    BY <1>2, <1>4, <1>5, <2>1, <2>2 DEF OldLives, OldTasks, Kept, CopyFields
  <2>5. OldBase(t) /\ ~Running(t) /\ NoneUnrecorded(t) /\ t.error = TRUE /\ t.gone = FALSE
    BY <1>1, <1>5, <2>2, <2>3, <2>4, OldKept
  <2> QED
    BY <2>5, NextCleanupOld
<1> QED
  BY <1>3, <1>6, <1>7 DEF CopyRuns

\* delete_old_object, delete_old_object_success and remove_old_object_version_metadata.
LEMMA DeleteOldEndsOK ==
    ASSUME CopyRuns, DeleteOldEnds
    PROVE  CopyRuns'
<1>1. CopyOK(copy) /\ CopyTypeOK(copy) /\ copy.gone = FALSE /\ IsCopy(copy)
      /\ copy.op \in {"deleteOld", "deleteVersion"}
  BY DEF CopyRuns, CopyOK, CopyTypeOK, DeleteOldEnds
<1>2. copy.live = "new" /\ NewLives(copy)
  BY <1>1 DEF CopyOK, OldLives, OldOps, OldTasks, Building, CopyEarly
<1>3. /\ copy.recs \in [Parts(copy) -> RecordStates] /\ copy.oldRec \in RecordStates
      /\ copy.oldLeft \in 0 .. copy.what.old /\ copy.oldLeft \in Nat /\ copy.what.old \in Nat
      /\ (copy.oldLeft > 0 => copy.oldRec # "none") /\ \A i \in Parts(copy) : copy.recs[i] # "forced"
  BY <1>1, <1>2, PartsAre DEF CopyTypeOK, NewLives
<1>4. ASSUME NEW t, Kept(copy, t, {"op", "oldLeft", "version"}), t.oldLeft \in 0 .. copy.oldLeft
      PROVE  /\ CopyTypeOK(t) /\ CopiersOK(t) /\ NewIsThere(t) /\ Flags(t)
             /\ TasksIn(t.tasks, NewTasks) /\ t.checks = FALSE /\ t.gone = FALSE
  <2>1. t.recs = copy.recs /\ t.oldRec = copy.oldRec /\ Kept(copy, t, NewChanges)
    BY <1>4 DEF Kept, CopyFields, NewChanges
  <2>2. t.oldLeft \in 0 .. copy.what.old /\ (t.oldLeft > 0 => t.oldRec # "none")
    BY <1>3, <1>4, <2>1
  <2> QED
    BY <1>1, <1>2, <1>3, <2>1, <2>2, NewKept
<1>5. CASE copy' = NextCleanup(copy)
  <2>1. Kept(copy, copy, {"op", "oldLeft", "version"}) /\ copy.oldLeft \in 0 .. copy.oldLeft
    BY <1>1, <1>3 DEF Kept
  <2>2. CopyOK(NextCleanup(copy))
    BY <1>4, <2>1, NextCleanupNew
  <2> QED
    BY <1>5, <2>2 DEF CopyRuns
<1>6. CASE /\ copy.op = "deleteOld"
           /\ copy' = [copy EXCEPT !.oldLeft = @ - 1,
                                   !.op = IF copy.oldLeft > 1 THEN @ ELSE "deleteVersion"]
  <2> DEFINE n == copy.oldLeft - 1
             o == IF copy.oldLeft > 1 THEN copy.op ELSE "deleteVersion"
             t == [copy EXCEPT !.oldLeft = n, !.op = o]
  <2>1. copy' = t
    BY <1>6
  <2>2. copy.oldLeft > 0
    BY <1>2, <1>6 DEF NewLives
  <2>3. n \in 0 .. copy.oldLeft /\ ((o = "deleteOld" /\ n > 0) \/ (o = "deleteVersion" /\ n = 0))
    <3>1. n \in 0 .. copy.oldLeft /\ (copy.oldLeft > 1 => n > 0) /\ (~(copy.oldLeft > 1) => n = 0)
      BY <1>3, <2>2
    <3>2. copy.op = "deleteOld"
      BY <1>6
    <3> HIDE DEF n
    <3> QED
      BY <3>1, <3>2
  <2> HIDE DEF n, o
  <2>4. Kept(copy, t, {"op", "oldLeft", "version"}) /\ t.oldLeft = n /\ t.op = o
    BY <1>1 DEF Kept, IsCopy, CopyFields
  <2> HIDE DEF t
  <2>5. CopyTypeOK(t) /\ CopiersOK(t) /\ NewIsThere(t) /\ TasksIn(t.tasks, NewTasks)
    BY <1>4, <2>3, <2>4
  <2>6. CopyOK(t)
    BY <2>3, <2>4, <2>5, NewGoesOn
  <2> QED
    BY <2>1, <2>6 DEF CopyRuns
<1>7. CASE /\ copy.op = "deleteVersion"
           /\ copy' = [copy EXCEPT !.version = FALSE, !.op = "unrecordOld"]
  <2> DEFINE t == [copy EXCEPT !.version = FALSE, !.op = "unrecordOld"]
  <2>1. /\ Kept(copy, t, {"op", "oldLeft", "version"}) /\ t.oldLeft = copy.oldLeft
        /\ t.op = "unrecordOld"
    BY <1>1 DEF Kept, IsCopy, CopyFields
  <2>2. copy.oldLeft = 0
    BY <1>2, <1>7 DEF NewLives
  <2>3. copy' = t
    BY <1>7
  <2> HIDE DEF t
  <2>4. CopyTypeOK(t) /\ CopiersOK(t) /\ NewIsThere(t) /\ TasksIn(t.tasks, NewTasks)
    <3>1. t.oldLeft \in 0 .. copy.oldLeft
      BY <1>3, <2>1
    <3> QED
      BY <1>4, <2>1, <3>1
  <2>5. CopyOK(t)
    BY <2>1, <2>2, <2>4, NewGoesOn
  <2> QED
    BY <2>3, <2>5 DEF CopyRuns
<1> QED
  BY <1>5, <1>6, <1>7 DEF DeleteOldEnds

\* delete_new_object.
LEMMA DeleteNewEndsOK ==
    ASSUME CopyRuns, DeleteNewEnds
    PROVE  CopyRuns'
<1>1. CopyOK(copy) /\ CopyTypeOK(copy) /\ copy.gone = FALSE /\ IsCopy(copy) /\ copy.op = "deleteNew"
  BY DEF CopyRuns, CopyOK, CopyTypeOK, DeleteNewEnds
<1>2. copy.live # "new" /\ OldLives(copy) /\ copy.recs \in [Parts(copy) -> RecordStates]
  BY <1>1 DEF CopyOK, CopyTypeOK, NewLives, NewOps, NewTasks
<1>3. \A i \in copy.made : copy.recs[i] # "none"
  BY <1>1, <1>2 DEF OldLives
<1>4. ASSUME NEW t, Kept(copy, t, {"op", "made"}), t.made \subseteq copy.made
      PROVE  /\ OldBase(t) /\ ~Running(t) /\ NoneUnrecorded(t) /\ t.error = TRUE /\ t.gone = FALSE
             /\ t.live # "new"
  <2>1. t.recs = copy.recs /\ t.oldRec = copy.oldRec /\ Kept(copy, t, OldChanges)
    BY <1>4 DEF Kept, CopyFields, OldChanges
  <2>2. copy.op \in OldTasks \cup {"unrecordNew"}
    BY <1>1 DEF OldTasks
  <2>3. /\ t.recs \in [Parts(copy) -> RecordStates] /\ t.oldRec \in {copy.oldRec, "none"}
        /\ \A i \in t.made : t.recs[i] # "none"
    BY <1>2, <1>3, <1>4, <2>1
  <2>4. Kept(copy, t, OldChanges) /\ copy.live # "new"
    BY <1>2, <2>1
  <2> QED
    BY <1>1, <1>4, <2>2, <2>3, <2>4, OldKept
<1>5. CASE copy' = NextCleanup(copy)
  <2>1. Kept(copy, copy, {"op", "made"})
    BY <1>1 DEF Kept
  <2>2. CopyOK(NextCleanup(copy))
    BY <1>4, <2>1, NextCleanupOld
  <2> QED
    BY <1>5, <2>2 DEF CopyRuns
<1>6. CASE copy' = [copy EXCEPT !.made = {}, !.op = "unrecordNew"]
  <2> DEFINE t == [copy EXCEPT !.made = {}, !.op = "unrecordNew"]
  <2>1. Kept(copy, t, {"op", "made"}) /\ t.made = {} /\ t.op = "unrecordNew"
    BY <1>1 DEF Kept, IsCopy, CopyFields
  <2>2. copy' = t
    BY <1>6
  <2> HIDE DEF t
  <2>3. OldBase(t) /\ ~Running(t) /\ t.error = TRUE /\ t.live # "new"
    BY <1>4, <2>1
  <2>4. Before(t)
    BY <2>1 DEF Before, Building, CopyEarly
  <2>5. Copying(t)
    BY <2>3 DEF Copying
  <2>6. OldLives(t)
    BY <2>1, <2>3 DEF OldLives, OldBase, OldIsThere, OldOps, TasksIn
  <2>7. CopyOK(t)
    BY <2>3, <2>4, <2>5, <2>6 DEF CopyOK, OldBase
  <2> QED
    BY <2>2, <2>7 DEF CopyRuns
<1> QED
  BY <1>5, <1>6 DEF DeleteNewEnds

-----------------------------------------------------------------------------
(* The theorems.                                                           *)

LEMMA CopyInitOK == CopyInit => CopyRuns
<1> SUFFICES ASSUME NEW w \in Copies, NEW delayed \in BOOLEAN, copy = NewCopy(w, delayed)
             PROVE  CopyRuns
  BY DEF CopyInit
<1> DEFINE cs == [i \in 1 .. Len(w.src) |-> NewCopier(w.src[i])]
           rs == [i \in 1 .. Len(w.src) |-> "none"]
<1>1. w.src \in Seq(Nat) /\ Len(w.src) \in Nat \ {0} /\ w.old \in Nat /\ \A i \in 1 .. Len(w.src) : w.src[i] \in Nat
  BY CopyAssumption
<1>2. \A i \in 1 .. Len(w.src) : rs[i] = "none" /\ cs[i] = NewCopier(w.src[i])
  OBVIOUS
<1>3. rs \in [1 .. Len(w.src) -> RecordStates] /\ cs = [i \in 1 .. Len(w.src) |-> cs[i]]
  BY DEF RecordStates
<1>4. /\ IsCopy(copy) /\ copy.what = w /\ copy.delayed = delayed /\ copy.op = "authenticate"
      /\ copy.state = "empty" /\ copy.index = 1 /\ copy.made = {} /\ copy.recs = rs
      /\ copy.oldRec = "none" /\ copy.oldLeft = w.old
      /\ copy.live = (IF w.old > 0 THEN "old" ELSE "none") /\ copy.copiers = cs
      /\ copy.inflight = 0 /\ copy.launched = 0 /\ copy.finished = 0 /\ copy.error = FALSE
      /\ copy.tasks = <<>> /\ copy.scheduled = FALSE /\ copy.checks = TRUE
      /\ copy.connected = TRUE /\ copy.shutdown = FALSE /\ copy.gone = FALSE
      /\ copy.late = FALSE /\ copy.crashed = FALSE
  BY DEF NewCopy, IsCopy, CopyFields
<1> HIDE DEF cs, rs
<1>5. Parts(copy) = 1 .. Len(w.src) /\ Total(copy) = Len(w.src)
  BY <1>4 DEF Parts, Total
<1>6. CopyTypeOK(copy)
  <2>1. /\ copy.index \in Parts(copy) /\ copy.made \subseteq Parts(copy)
        /\ copy.recs \in [Parts(copy) -> RecordStates] /\ copy.oldRec \in RecordStates
    BY <1>1, <1>3, <1>4, <1>5 DEF RecordStates
  <2>2. copy.oldLeft \in 0 .. copy.what.old
    BY <1>1, <1>4
  <2>3. copy.tasks \in Seq(Tasks)
    BY <1>4
  <2>4. \A f \in {"delayed", "error", "scheduled", "checks", "connected", "shutdown", "gone"} :
           copy[f] \in BOOLEAN
    BY <1>4
  <2> QED
    BY <1>4, <2>1, <2>2, <2>3, <2>4 DEF CopyTypeOK
<1>7. \A i \in Parts(copy) : cs[i].st = "none" /\ cs[i].failed = FALSE /\ CopierOK(cs[i], w.src[i])
  <2> SUFFICES ASSUME NEW i \in Parts(copy)
               PROVE  cs[i].st = "none" /\ cs[i].failed = FALSE /\ CopierOK(cs[i], w.src[i])
    OBVIOUS
  <2>1. w.src[i] \in Nat /\ cs[i] = NewCopier(w.src[i])
    BY <1>1, <1>2, <1>5
  <2> DEFINE n == w.src[i]
             c == NewCopier(n)
  <2> HIDE DEF n
  <2>2. /\ c \in CopierRecord /\ c.st = "none" /\ c.left = n /\ c.reading = 0 /\ c.have = 0
        /\ c.writing = 0 /\ c.failed = FALSE /\ c.written = 0
    BY <2>1 DEF NewCopier, CopierRecord, n
  <2> HIDE DEF c
  <2>3. CopierOK(c, n)
    BY <2>1, <2>2 DEF CopierOK, n
  <2> QED
    BY <2>1, <2>2, <2>3 DEF c, n
<1>8. InState(copy, "run") = {} /\ InState(copy, "freed") = {}
  BY <1>4, <1>7 DEF InState
<1>9. Cardinality({}) = 0
  BY FS_EmptySet
<1>10. CopiersOK(copy)
  <2>1. \A i \in Parts(copy) : copy.copiers[i].st = "none" <=> i > copy.launched
    BY <1>4, <1>5, <1>7
  <2>2. copy.launched \in 0 .. Total(copy) /\ copy.inflight <= MaxParallel
    BY <1>1, <1>4, <1>5, CopyAssumption
  <2> QED
    BY <1>3, <1>4, <1>5, <1>7, <1>8, <1>9, <2>1, <2>2 DEF CopiersOK, OneIfFailed
<1>11. Has(copy, 0, 0)
  BY <1>2, <1>4, <1>5 DEF Has
<1>12. Before(copy)
  BY <1>4, <1>11 DEF Before, CopyEarly, Building
<1>13. Copying(copy)
  BY <1>8 DEF Copying, Running
<1>14. OldLives(copy) /\ copy.live # "new"
  BY <1>4 DEF OldLives, OldOps, OldTasks, Building, CopyEarly
<1> QED
  BY <1>6, <1>10, <1>12, <1>13, <1>14 DEF CopyRuns, CopyOK

\* Every step of a copy keeps the invariant, and after a crash there is none.
LEMMA CopyStepOK ==
    ASSUME CopyIInv, [CopyNext]_copy
    PROVE  CopyIInv'
<1>1. CASE UNCHANGED copy
  BY <1>1 DEF CopyIInv
<1>2. CASE CopyRuns /\ CopyNext
  <2>1. CopyRuns' \/ CopyIInv'
    BY <1>2, AuthEndsOK, LoadEndsOK, SourceAuthEndsOK, CreateEndsOK, RecordEndsOK, RecordOldEndsOK,
       ReadBlockEndsOK, WriteBlockEndsOK, CopySaveEndsOK, RecordTaskEndsOK, DeleteOldEndsOK,
       DeleteNewEndsOK, LateFailureOK, LeavesOrShutsOK DEF CopyNext
  <2> QED
    BY <2>1 DEF CopyRuns, CopyIInv, Fine
<1>3. CASE CrashedOK(copy) /\ CopyNext
  <2>1. copy.gone /\ ~copy.late
    BY <1>3 DEF CrashedOK
  <2> QED
    BY <1>3, <2>1 DEF CopyNext, AuthEnds, LoadEnds, SourceAuthEnds, CreateEnds, RecordEnds,
       RecordOldEnds, ReadBlockEnds, WriteBlockEnds, CopySaveEnds, RecordTaskEnds, DeleteOldEnds,
       DeleteNewEnds, LateFailure, CopyClientLeaves, CopyShutdownBegins
<1> QED
  BY <1>1, <1>2, <1>3 DEF CopyIInv, Fine, CopyRuns

\* The inductive invariant holds: at every step of a copy the request, its
\* copiers, its records and the object clients see agree.
THEOREM CopyInvariantHolds == CopySpec => []CopyIInv
<1>1. CopyInit => CopyIInv
  BY CopyInitOK DEF CopyRuns, CopyIInv, Fine
<1>2. CopyIInv /\ [CopyNext]_copy => CopyIInv'
  BY CopyStepOK
<1> QED
  BY <1>1, <1>2, PTL DEF CopySpec

\* S3CopyObjectAction: whatever fails and whenever the copy stops, the object
\* clients see has all its Motr objects, those of the copy hold all the data of
\* the source, and no record has one of them deleted without another look.
THEOREM CopyKeepsTheLive == CopySpec => []LiveIsKept
<1>1. CopyIInv => LiveIsKept
  <2> SUFFICES ASSUME CopyIInv
               PROVE  LiveIsKept
    OBVIOUS
  <2>1. CASE CrashedOK(copy)
    BY <2>1 DEF CrashedOK, LiveIsKept
  <2>2. CASE CopyOK(copy) /\ copy.live = "new"
    BY <2>2 DEF CopyOK, NewLives, AllWritten, LiveIsKept
  <2>3. CASE CopyOK(copy) /\ copy.live # "new"
    BY <2>3 DEF CopyOK, OldLives, LiveIsKept
  <2> QED
    BY <2>1, <2>2, <2>3 DEF CopyIInv, Fine
<1> QED
  BY <1>1, CopyInvariantHolds, PTL

\* add_object_oid_to_probable_dead_oid_list, startcleanup and the removals of the
\* clean up: a Motr object that clients do not see is recorded, or about to be,
\* at every step, unless its record could not be written.
THEOREM CopyRecordsItsGarbage == CopySpec => []CopyGarbageIsRecorded
<1>1. CopyIInv => CopyGarbageIsRecorded
  <2> SUFFICES ASSUME CopyIInv
               PROVE  CopyGarbageIsRecorded
    OBVIOUS
  <2>1. CASE CrashedOK(copy)
    BY <2>1 DEF CrashedOK, CopyGarbageIsRecorded
  <2>2. CASE CopyOK(copy) /\ copy.live = "new"
    BY <2>2 DEF CopyOK, NewLives, CopyGarbageIsRecorded
  <2>3. CASE CopyOK(copy) /\ copy.live # "new"
    BY <2>3 DEF CopyOK, OldLives, CopyGarbageIsRecorded
  <2> QED
    BY <2>1, <2>2, <2>3 DEF CopyIInv, Fine
<1> QED
  BY <1>1, CopyInvariantHolds, PTL

\* A copier is idle when it is freed; what is reported to it afterwards is told
\* by the flag of a late failure, or has ended the server.
LEMMA CopyImplies ==
    ASSUME CopyIInv
    PROVE  ParallelIsBounded /\ FreedIsIdle
<1>1. CASE CopyOK(copy)
  <2>1. ParallelIsBounded
    BY <1>1 DEF CopyOK, CopiersOK, InState, ParallelIsBounded
  <2>2. ASSUME NEW i \in Parts(copy), copy.copiers[i].st = "freed" \/ copy.gone
        PROVE  copy.copiers[i].reading = 0 /\ copy.copiers[i].writing = 0
    <3>1. copy.copiers[i].st # "run"
      BY <1>1, <2>2 DEF CopyOK, Copying, Running, InState
    <3> QED
      BY <1>1, <3>1 DEF CopyOK, CopiersOK, CopierOK
  <2>3. copy.crashed = FALSE /\ (copy.late => May("launch"))
    BY <1>1 DEF CopyOK, CopiersOK
  <2>4. copy.late => copy.live # "new"
    BY <1>1 DEF CopyOK, NewLives
  <2>5. copy.late => Crashing(copy)
    BY <2>3 DEF Crashing
  <2> QED
    BY <2>1, <2>2, <2>3, <2>4, <2>5 DEF FreedIsIdle
<1>2. CASE CrashedOK(copy)
  <2>1. /\ copy.inflight = 0 /\ copy.live # "new" /\ Crashing(copy)
        /\ \A i \in Parts(copy) :
              copy.copiers[i].st = "freed" /\ copy.copiers[i].reading = 0 /\ copy.copiers[i].writing = 0
    BY <1>2 DEF CrashedOK
  <2>2. {i \in Parts(copy) : copy.copiers[i].st = "run"} = {}
    BY <2>1
  <2>3. ParallelIsBounded
    <3>1. Cardinality({i \in Parts(copy) : copy.copiers[i].st = "run"}) = 0
      BY <2>2, FS_EmptySet
    <3> QED
      BY <2>1, <3>1, CopyAssumption DEF ParallelIsBounded
  <2> QED
    BY <2>1, <2>3 DEF FreedIsIdle
<1> QED
  BY <1>1, <1>2 DEF CopyIInv, Fine

\* copy_part_fragment_success and ..._failed: the counter of the copiers that
\* run is right and bounded, and no copier is freed, nor the action over, while
\* one of its reads or writes is under way.  What is called back after that, or
\* fails an assertion, comes from a refused launch, an exception or the failure
\* of one of several long parts, and never from a copy that was saved.
THEOREM CopiersAreBoundedAndIdle ==
    CopySpec => [](ParallelIsBounded /\ FreedIsIdle)
<1>1. CopyIInv => ParallelIsBounded /\ FreedIsIdle
  BY CopyImplies
<1> QED
  BY <1>1, CopyInvariantHolds, PTL
=============================================================================
