-------------------------- MODULE DataPaths_proofs --------------------------
(***************************************************************************)
(* Proofs about the requests that move data, together: the memory that is  *)
(* held for them and the copies that run for them are bounded, and nothing *)
(* that is under way calls back an action that is gone.                    *)
(***************************************************************************)
EXTENDS DataPaths, UploadStream_proofs, GetObject_proofs, CopyObject_proofs

-----------------------------------------------------------------------------
(* The inductive invariant: each request is as its own proofs say, or it   *)
(* has never been made and nothing of it moves.                            *)

\* The bodies, objects and copies of the proofs of uploads, GETs and copies.
Paths == Bodies /\ PartedGets /\ Stored # {}

PathsIInv ==
    /\ UpBoundIInv \/ up = NoUpload
    /\ FlowIInv \/ get = NoGet
    /\ CopyIInv \/ copy = NoCopy
IdlePaths == UpIdle(up) \/ up = NoUpload

\* A request that is not made.
LEMMA NoUploadIs ==
    /\ NoUpload.gone = TRUE /\ NoUpload.phase = "cleanup" /\ NoUpload.pos = 0 /\ NoUpload.taken = 0
    /\ NoUpload.writing = FALSE /\ NoUpload.auth = "init" /\ NoUpload.ops = 0
    /\ NoUpload.saving = FALSE
<1>1. PICK k : k = CHOOSE x \in Kind : TRUE
  OBVIOUS
<1>2. NoUpload = [NewUpload(k, FALSE, FALSE) EXCEPT !.gone = TRUE, !.connected = FALSE, !.phase = "cleanup",
                                                    !.timer = FALSE]
  BY <1>1 DEF NoUpload
<1> QED
  BY <1>2 DEF NewUpload

LEMMA NoGetIs ==
    /\ NoGet.gone = TRUE /\ NoGet.op = "none" /\ NoGet.timer = FALSE /\ NoGet.out = 0
    /\ NoGet.object = CHOOSE o \in Stored : TRUE
<1>1. PICK o : o = CHOOSE x \in Stored : TRUE
  OBVIOUS
<1>2. PICK h : h = CHOOSE x \in Headers : TRUE
  OBVIOUS
<1>3. NoGet = [NewGet(o, h) EXCEPT !.gone = TRUE, !.op = "none"]
  BY <1>1, <1>2 DEF NoGet
<1>4. /\ NoGet.gone = TRUE /\ NoGet.op = "none" /\ NoGet.timer = FALSE /\ NoGet.out = 0
      /\ NoGet.object = o
  BY <1>3 DEF NewGet
<1> QED
  BY <1>1, <1>4

LEMMA NoCopyIs ==
    /\ NoCopy.gone = TRUE /\ NoCopy.inflight = 0 /\ NoCopy.late = FALSE /\ NoCopy.crashed = FALSE
    /\ \A i \in Parts(NoCopy) :
          /\ NoCopy.copiers[i].st = "none"
          /\ NoCopy.copiers[i].reading = 0 /\ NoCopy.copiers[i].writing = 0
<1>1. PICK w : w = CHOOSE x \in Copies : TRUE
  OBVIOUS
<1>2. NoCopy = [NewCopy(w, FALSE) EXCEPT !.gone = TRUE, !.connected = FALSE]
  BY <1>1 DEF NoCopy
<1>3. /\ NoCopy.gone = TRUE /\ NoCopy.inflight = 0 /\ NoCopy.what = w
      /\ NoCopy.late = FALSE /\ NoCopy.crashed = FALSE
      /\ NoCopy.copiers = [i \in 1 .. Len(w.src) |-> NewCopier(w.src[i])]
  BY <1>2 DEF NewCopy
<1>4. ASSUME NEW n
      PROVE  NewCopier(n).st = "none" /\ NewCopier(n).reading = 0 /\ NewCopier(n).writing = 0
  BY DEF NewCopier
<1>5. \A i \in Parts(NoCopy) : NoCopy.copiers[i] = NewCopier(w.src[i])
  BY <1>3 DEF Parts
<1> QED
  BY <1>3, <1>4, <1>5

\* Nothing of it moves.
LEMMA NoneMoves ==
    /\ up = NoUpload /\ [UpNext]_up => up' = up
    /\ get = NoGet /\ [GetNext]_get => get' = get
    /\ copy = NoCopy /\ [CopyNext]_copy => copy' = copy
<1>1. up = NoUpload => ~UpNext
  <2> SUFFICES ASSUME up = NoUpload, UpNext PROVE FALSE
    OBVIOUS
  <2>1. up.gone = TRUE /\ up.phase = "cleanup"
    BY NoUploadIs
  <2>2. SetupDone \/ Live
    BY DEF UpNext, Arrive, ReadTimeout, WriteEnds, AuthAnswers, SaveEnds, CleanupEnds,
           ClientLeaves, RequestEnds, ShutdownBegins
  <2> QED
    BY <2>1, <2>2 DEF SetupDone, Live
<1>2. get = NoGet => ~GetNext
  <2> SUFFICES ASSUME get = NoGet, GetNext PROVE FALSE
    OBVIOUS
  <2>1. get.gone = TRUE /\ get.op = "none" /\ get.timer = FALSE
    BY NoGetIs
  <2> QED
    BY <2>1 DEF GetNext, FetchInfoEnds, OpenEnds, ReadEnds, PostedFailure, ResumeActionStep,
                ClientTakes, ReaderLeaves, GetShutdownBegins
<1>3. copy = NoCopy => ~CopyNext
  <2> SUFFICES ASSUME copy = NoCopy, CopyNext PROVE FALSE
    OBVIOUS
  <2>1. copy.gone = TRUE /\ copy.late = FALSE
    BY NoCopyIs
  <2> QED
    BY <2>1 DEF CopyNext, AuthEnds, LoadEnds, SourceAuthEnds, CreateEnds, RecordEnds,
                RecordOldEnds, ReadBlockEnds, WriteBlockEnds, CopySaveEnds, RecordTaskEnds,
                DeleteOldEnds, DeleteNewEnds, LateFailure, CopyClientLeaves, CopyShutdownBegins
<1> QED
  BY <1>1, <1>2, <1>3

\* One request begins, and the others are not made.
LEMMA PathsBegin ==
    ASSUME Paths, Init
    PROVE  PathsIInv /\ IdlePaths
<1>1. UpInit => UpBoundIInv /\ UpIdle(up)
  BY UploadBegins, IdleBegins DEF Paths
<1>2. GetInit => FlowIInv
  BY FlowBegins DEF Paths, GetInit, FlowIInv
<1>3. CopyInit => CopyIInv
  BY CopyInitOK DEF CopyRuns, CopyIInv, Fine
<1> QED
  BY <1>1, <1>2, <1>3 DEF Init, PathsIInv, IdlePaths

\* A step is one of one request, and changes nothing of the others.
LEMMA StepOfOne ==
    ASSUME [Next]_vars
    PROVE  [UpNext]_up /\ [GetNext]_get /\ [CopyNext]_copy
  BY DEF Next, vars

LEMMA PathsStep ==
    ASSUME Paths, PathsIInv, [Next]_vars
    PROVE  PathsIInv'
<1>1. [UpNext]_up /\ [GetNext]_get /\ [CopyNext]_copy
  BY StepOfOne
<1>2. (UpBoundIInv \/ up = NoUpload)'
  <2>1. CASE UpBoundIInv
    BY <1>1, <2>1, UploadSteps DEF Paths
  <2>2. CASE up = NoUpload
    BY <1>1, <2>2, NoneMoves DEF NoUpload, NewUpload
  <2> QED
    BY <2>1, <2>2 DEF PathsIInv
<1>3. (FlowIInv \/ get = NoGet)'
  <2>1. CASE FlowIInv
    BY <1>1, <2>1, FlowSteps DEF Paths
  <2>2. CASE get = NoGet
    BY <1>1, <2>2, NoneMoves DEF NoGet, NewGet
  <2> QED
    BY <2>1, <2>2 DEF PathsIInv
<1>4. (CopyIInv \/ copy = NoCopy)'
  <2>1. CASE CopyIInv
    BY <1>1, <2>1, CopyStepOK
  <2>2. CASE copy = NoCopy
    BY <1>1, <2>2, NoneMoves DEF NoCopy, NewCopy
  <2> QED
    BY <2>1, <2>2 DEF PathsIInv
<1> QED
  BY <1>2, <1>3, <1>4 DEF PathsIInv

LEMMA IdlePathsStep ==
    ASSUME Paths, InTime, PathsIInv, IdlePaths, [Next]_vars
    PROVE  IdlePaths'
<1>1. [UpNext]_up
  BY StepOfOne
<1>2. CASE up = NoUpload
  BY <1>1, <1>2, NoneMoves DEF NoUpload, NewUpload, IdlePaths
<1>3. CASE up # NoUpload
  BY <1>1, <1>3, IdleSteps DEF Paths, PathsIInv, IdlePaths
<1> QED
  BY <1>2, <1>3

-----------------------------------------------------------------------------
(* The theorems.                                                           *)

\* Each request is at every step as its own proofs say.
THEOREM PathsInvariantHolds == Paths /\ Spec => []PathsIInv
<1> SUFFICES ASSUME Paths PROVE Spec => []PathsIInv
  OBVIOUS
<1>1. Init => PathsIInv
  BY PathsBegin
<1>2. PathsIInv /\ [Next]_vars => PathsIInv'
  BY PathsStep
<1> QED
  BY <1>1, <1>2, PTL DEF Spec

\* The read ahead, the throttle of read_object_data and the limit on parallel
\* copies: however fast or slow clients and Motr are, what is held in memory for
\* a request and the copies that run for it stay within their limits.
THEOREM BuffersAreAlwaysBounded == Paths /\ Spec => []BuffersAreBounded
<1> SUFFICES ASSUME Paths PROVE Spec => []BuffersAreBounded
  OBVIOUS
<1>1. PathsIInv => BuffersAreBounded
  <2> SUFFICES ASSUME PathsIInv PROVE BuffersAreBounded
    OBVIOUS
  <2>1. InputIsBounded
    <3>1. CASE UpBoundIInv
      BY <3>1 DEF UpBoundIInv, UpBounded, InputIsBounded, Limit
    <3>2. CASE up = NoUpload
      <4>1. {i \in 1 .. 0 : Wire[up.kind][i] = "data"} = {}
        OBVIOUS
      <4>2. Buffered(up) = 0
        BY <3>2, <4>1, NoUploadIs, FS_EmptySet DEF Buffered, Received, CountOf
      <4> QED
        BY <4>2, LimitIs, PayloadAssumption DEF InputIsBounded, Limit
    <3> QED
      BY <3>1, <3>2 DEF PathsIInv
  <2>2. OutputIsBounded
    <3>1. CASE FlowIInv
      BY <3>1, FlowImplies DEF Paths
    <3>2. CASE get = NoGet
      <4> DEFINE u == get.object.parts[1].unit
      <4>1. get.out = 0 /\ get.object \in Stored
        BY <3>2, NoGetIs DEF Paths
      <4>2. u \in Nat \ {0}
        BY <4>1 DEF Paths, PartedGets, PartedObject
      <4> HIDE DEF u
      <4>3. ASSUME NEW a \in Nat \ {0}, NEW b \in Nat \ {0} PROVE a * b \in Nat \ {0}
        BY <4>3
      <4>4. OutMultiple + 1 \in Nat \ {0} /\ MaxBlocks \in Nat \ {0}
        BY BlocksAssumption, OutMultipleAssumption
      <4>5. (OutMultiple + 1) * MaxBlocks * u \in Nat \ {0}
        BY <4>2, <4>3, <4>4
      <4> QED
        BY <4>1, <4>5 DEF OutputIsBounded, u
    <3> QED
      BY <3>1, <3>2 DEF PathsIInv
  <2>3. ParallelIsBounded
    <3>1. CASE CopyIInv
      BY <3>1, CopyImplies
    <3>2. CASE copy = NoCopy
      <4>1. {i \in Parts(copy) : copy.copiers[i].st = "run"} = {}
        BY <3>2, NoCopyIs
      <4> QED
        BY <3>2, <4>1, NoCopyIs, FS_EmptySet, CopyAssumption DEF ParallelIsBounded
    <3> QED
      BY <3>1, <3>2 DEF PathsIInv
  <2> QED
    BY <2>1, <2>2, <2>3 DEF BuffersAreBounded
<1> QED
  BY <1>1, PathsInvariantHolds, PTL

\* The ends of the actions and of the copiers: nothing that is under way calls
\* back an action or a copier that is gone, although actions end early on errors,
\* timeouts, shutdowns and when the client leaves; the exceptions are those the
\* property names.
THEOREM NoneEverCallsBackTheGone == Paths /\ InTime /\ Spec => []NoneCallsBackTheGone
<1> SUFFICES ASSUME Paths, InTime PROVE Spec => []NoneCallsBackTheGone
  OBVIOUS
<1>1. Init => IdlePaths
  BY PathsBegin
<1>2. PathsIInv /\ IdlePaths /\ [Next]_vars => IdlePaths'
  BY IdlePathsStep
<1>3. PathsIInv /\ IdlePaths => NoneCallsBackTheGone
  <2> SUFFICES ASSUME PathsIInv, IdlePaths PROVE NoneCallsBackTheGone
    OBVIOUS
  <2>1. GoneUploadIsIdle
    <3>1. CASE UpIdle(up)
      BY <3>1 DEF UpIdle, Rest, GoneUploadIsIdle, Busy
    <3>2. CASE up = NoUpload
      BY <3>2, NoUploadIs DEF GoneUploadIsIdle, Busy
    <3> QED
      BY <3>1, <3>2 DEF IdlePaths
  <2>2. GoneGetIsIdle
    <3>1. CASE FlowIInv
      BY <3>1, FlowImplies DEF Paths
    <3>2. CASE get = NoGet
      BY <3>2, NoGetIs DEF GoneGetIsIdle
    <3> QED
      BY <3>1, <3>2 DEF PathsIInv
  <2>3. FreedIsIdle
    <3>1. CASE CopyIInv
      BY <3>1, CopyImplies
    <3>2. CASE copy = NoCopy
      BY <3>2, NoCopyIs DEF FreedIsIdle
    <3> QED
      BY <3>1, <3>2 DEF PathsIInv
  <2> QED
    BY <2>1, <2>2, <2>3 DEF NoneCallsBackTheGone
<1> QED
  BY <1>1, <1>2, <1>3, PathsInvariantHolds, PTL DEF Spec
=============================================================================
