-------------------------- MODULE GetObject_proofs --------------------------
(***************************************************************************)
(* Proofs about GET, for every size of an object, of its units and of a    *)
(* read, every Range header and every limit of the write buffer: the range *)
(* that is read is the one the header asks for; the client of a simple     *)
(* object gets its bytes, one status and one end, whatever fails; and what *)
(* waits for the client of an object of any parts is bounded.              *)
(***************************************************************************)
EXTENDS GetObject, FiniteSetTheorems, WellFoundedInduction, TLAPS

-----------------------------------------------------------------------------
(* GET: what its operators do to its record.                               *)

GetSpec == GetInit /\ [][GetNext]_get

GetFields ==
    {"object", "header", "op", "timer", "opened", "reader", "first", "last", "frag", "total",
     "already", "blocks", "index", "sent", "sentObj", "out", "started", "status", "ended",
     "error", "scheduled", "connected", "shutdown", "gone", "refused"}
IsGet(s) == s = [f \in GetFields |-> s[f]]

\* All fields but these.
GetKept(s, t, changed) ==
    IsGet(t) /\ \A f \in GetFields \ changed : t[f] = s[f]

LEMMA GetKeptAgain ==
    ASSUME NEW s, NEW t, NEW u, NEW c, NEW d, GetKept(s, t, c), GetKept(t, u, d)
    PROVE  GetKept(s, u, c \cup d)
  BY DEF GetKept

\* The end of a GET.
LEMMA RespondIs ==
    ASSUME NEW s, IsGet(s)
    PROVE  LET t == Respond(s)
               new == IF s.scheduled THEN ~s.started
                      ELSE s.error \/ (ContentLength(s.object) > 0 /\ s.reader # "success" /\ ~s.started)
               one == IF s.connected THEN 1 ELSE 0
           IN  /\ GetKept(s, t, {"status", "ended", "gone"}) /\ t.gone = TRUE
               /\ t.ended = s.ended + one
               /\ t.status = s.status + (IF new THEN one ELSE 0)
<1> DEFINE one == IF s.connected THEN 1 ELSE 0
           new == IF s.scheduled THEN ~s.started
                  ELSE s.error \/ (ContentLength(s.object) > 0 /\ s.reader # "success" /\ ~s.started)
           a == s.status + (IF new THEN one ELSE 0)
           b == s.ended + one
           t == [s EXCEPT !.status = a, !.ended = b, !.gone = TRUE]
<1>1. Respond(s) = t
  BY DEF Respond
<1> HIDE DEF a, b
<1>2. GetKept(s, t, {"status", "ended", "gone"}) /\ t.gone = TRUE /\ t.status = a /\ t.ended = b
  BY DEF GetKept, IsGet, GetFields
<1> HIDE DEF t
<1> QED
  BY <1>1, <1>2 DEF a, b

-----------------------------------------------------------------------------
(* The range of a GET is settled once, before anything is read.            *)

SameRange(s, t) ==
    /\ IsGet(t) /\ t.object = s.object /\ t.header = s.header /\ t.first = s.first /\ t.last = s.last
    /\ t.refused = s.refused

LEMMA SameRangeAgain ==
    ASSUME NEW s, NEW t, NEW u, SameRange(s, t), SameRange(t, u)
    PROVE  SameRange(s, u)
  BY DEF SameRange

LEMMA RespondKeepsRange ==
    ASSUME NEW s, IsGet(s)
    PROVE  /\ SameRange(s, Respond(s)) /\ SameRange(s, RespondError(s))
           /\ SameRange(s, GetRollback(s)) /\ SameRange(s, ReadObjectDataFailed(s))
<1>1. ASSUME NEW t, IsGet(t) PROVE SameRange(t, Respond(t))
  BY <1>1, RespondIs DEF GetKept, GetFields, SameRange
<1> DEFINE e == [s EXCEPT !.error = TRUE]
           c == [s EXCEPT !.scheduled = TRUE]
           d == [c EXCEPT !.error = TRUE]
           b == (s.error \/ ~s.started)
           f == [s EXCEPT !.error = b]
<1>2. SameRange(s, e) /\ SameRange(s, c)
  BY DEF SameRange, IsGet, GetFields
<1>3. SameRange(s, d)
  BY DEF SameRange, IsGet, GetFields
<1> HIDE DEF b
<1>4. SameRange(s, f)
  BY DEF SameRange, IsGet, GetFields
<1>5. /\ RespondError(s) = Respond(e) /\ GetRollback(s) = (IF s.scheduled THEN s ELSE Respond(d))
      /\ ReadObjectDataFailed(s) = Respond(f)
  BY DEF RespondError, GetRollback, ReadObjectDataFailed, b
<1> HIDE DEF e, d, f
<1>6. SameRange(s, Respond(e))
  BY <1>1, <1>2, SameRangeAgain DEF SameRange
<1>7. SameRange(s, Respond(d))
  BY <1>1, <1>3, SameRangeAgain DEF SameRange
<1>8. SameRange(s, Respond(f))
  BY <1>1, <1>4, SameRangeAgain DEF SameRange
<1>9. SameRange(s, s)
  BY DEF SameRange
<1> QED
  BY <1>1, <1>5, <1>6, <1>7, <1>8, <1>9

LEMMA ReadBlocksKeepsRange ==
    ASSUME NEW s, NEW e, IsGet(s)
    PROVE  SameRange(s, LaunchRead(s)) /\ SameRange(s, ReadBlocks(s, e))
<1> DEFINE i == s.index + s.blocks * s.object.parts[s.frag].unit
<1> HIDE DEF i
<1>1. SameRange(s, [s EXCEPT !.op = "read", !.reader = "reading", !.index = i])
  BY DEF SameRange, IsGet, GetFields
<1>2. SameRange(s, LaunchRead(s))
  BY <1>1 DEF LaunchRead, i
<1>3. SameRange(s, [s EXCEPT !.op = "open", !.reader = "reading"])
  BY DEF SameRange, IsGet, GetFields
<1> DEFINE o == [s EXCEPT !.reader = "ooo"]
           l == [s EXCEPT !.reader = "launch", !.op = "posted"]
<1>4. SameRange(s, o) /\ SameRange(s, l)
  BY DEF SameRange, IsGet, GetFields
<1> HIDE DEF o, l
<1>5. SameRange(s, RespondError(o)) /\ SameRange(s, RespondError(l))
  BY <1>4, RespondKeepsRange, SameRangeAgain DEF SameRange
<1> DEFINE r == RespondError(ReadObjectDataFailed(s))
<1>6. SameRange(s, r)
  <2> DEFINE q == ReadObjectDataFailed(s)
  <2>1. SameRange(s, q)
    BY RespondKeepsRange
  <2> HIDE DEF q
  <2>2. SameRange(q, RespondError(q))
    BY <2>1, RespondKeepsRange DEF SameRange
  <2> QED
    BY <2>1, <2>2, SameRangeAgain DEF q
<1> HIDE DEF r
<1>7. SameRange(s, [r EXCEPT !.reader = "launch", !.op = "posted"])
  BY <1>6 DEF SameRange, IsGet, GetFields
<1> QED
  BY <1>2, <1>3, <1>5, <1>7 DEF ReadBlocks, r, o, l

LEMMA ProceedKeepsRange ==
    ASSUME NEW s, NEW e, IsGet(s)
    PROVE  SameRange(s, DelayRead(s)) /\ SameRange(s, Proceed(s, e))
<1> DEFINE n == BlocksToRead(s)
           t == [s EXCEPT !.blocks = n]
<1>1. SameRange(s, DelayRead(s))
  BY DEF DelayRead, SameRange, IsGet, GetFields
<1> HIDE DEF n
<1>2. SameRange(s, t)
  BY DEF SameRange, IsGet, GetFields
<1> HIDE DEF t
<1>3. SameRange(s, ReadBlocks(t, e))
  <2>1. SameRange(t, ReadBlocks(t, e))
    BY <1>2, ReadBlocksKeepsRange DEF SameRange
  <2> QED
    BY <1>2, <2>1, SameRangeAgain
<1> QED
  BY <1>1, <1>3, RespondKeepsRange DEF Proceed, t, n

LEMMA StartKeepsRange ==
    ASSUME NEW s, NEW i, IsGet(s)
    PROVE  SameRange(s, StartObject(s, i))
<1> DEFINE a == ReadableBlocks(s, i)
           b == IF i = FirstPart(s) THEN (BlockOf(s, i, s.first) - 1) * s.object.parts[i].unit ELSE 0
<1> HIDE DEF a, b
<1>1. SameRange(s, [s EXCEPT !.frag = i, !.already = 0, !.sentObj = 0, !.total = a,
                              !.opened = FALSE, !.reader = "start", !.index = b])
  BY DEF SameRange, IsGet, GetFields
<1> QED
  BY <1>1 DEF StartObject, a, b

LEMMA ReadsKeepRange ==
    ASSUME NEW s, NEW e, IsGet(s)
    PROVE  SameRange(s, NextObject(s, e)) /\ SameRange(s, ReadObjectData(s, e))
<1> DEFINE n == StartObject(s, s.frag + 1)
<1>1. SameRange(s, n)
  BY StartKeepsRange
<1> HIDE DEF n
<1>2. SameRange(n, Proceed(n, e))
  BY <1>1, ProceedKeepsRange DEF SameRange
<1>3. SameRange(s, Proceed(n, e))
  BY <1>1, <1>2, SameRangeAgain
<1>4. SameRange(s, NextObject(s, e))
  BY <1>3, RespondKeepsRange DEF NextObject, n
<1> QED
  BY <1>4, ProceedKeepsRange, RespondKeepsRange DEF ReadObjectData

LEMMA SendKeepsRange ==
    ASSUME NEW s, NEW e, IsGet(s)
    PROVE  SameRange(s, SendDataToClient(s, e))
<1> DEFINE data == Trimmed(s)
           a == s.sent \o data
           b == s.sentObj + Len(data)
           c == s.already + s.blocks
           d == s.out + (IF s.connected THEN Len(data) ELSE 0)
           f == s.status + (IF s.connected /\ ~s.started THEN 1 ELSE 0)
           t == [s EXCEPT !.sent = a, !.sentObj = b, !.already = c, !.started = TRUE, !.out = d,
                          !.status = f]
<1>1. SendDataToClient(s, e) =
        IF s.shutdown THEN GetRollback(s)
        ELSE IF ~t.connected THEN RespondError(t)
        ELSE IF Len(t.sent) = Requested(t) THEN Respond(t)
        ELSE IF ~t.object.extended \/ t.sentObj # RequestedObjectSize(t, t.frag)
        THEN ReadObjectData(t, e)
        ELSE NextObject(t, e)
  BY DEF SendDataToClient
<1> HIDE DEF a, b, c, d, f
<1>2. SameRange(s, t)
  BY DEF SameRange, IsGet, GetFields
<1> HIDE DEF t
<1>3. /\ SameRange(t, RespondError(t)) /\ SameRange(t, Respond(t))
      /\ SameRange(t, ReadObjectData(t, e)) /\ SameRange(t, NextObject(t, e))
  BY <1>2, RespondKeepsRange, ReadsKeepRange DEF SameRange
<1>4. /\ SameRange(s, RespondError(t)) /\ SameRange(s, Respond(t))
      /\ SameRange(s, ReadObjectData(t, e)) /\ SameRange(s, NextObject(t, e))
  BY <1>2, <1>3, SameRangeAgain
<1> QED
  BY <1>1, <1>4, RespondKeepsRange

\* The offsets of a Range header and the lengths of the objects fit in a size_t.
RangeFits ==
    /\ SizeT \in Nat /\ \A o \in Stored : ContentLength(o) \in 0 .. (SizeT - 1)
    /\ \A h \in Headers :
          /\ h.kind \in {"none", "blank", "several", "span", "from", "suffix", "malformed"}
          /\ h.a \in 0 .. (SizeT - 1) /\ h.b \in 0 .. (SizeT - 1)

\* Either nothing has been read and nothing will, or the range is that of the
\* header, which is valid.
NoRange(s) == s.op \in {"load", "none"} /\ s.timer = FALSE /\ s.reader = "start"
RangeSet(s) ==
    LET r == ReadOptions(s.header, ContentLength(s.object))
    IN  r.valid /\ s.first = r.first /\ s.last = r.last
\* A header is refused only if it is not valid.
RefusedRightly(s) == s.refused => ~ReadOptions(s.header, ContentLength(s.object)).valid
RangeOK(s) ==
    /\ IsGet(s) /\ s.object \in Stored /\ s.header \in Headers
    /\ NoRange(s) \/ RangeSet(s)
    /\ RefusedRightly(s)
RangeIInv == RangeOK(get)

LEMMA RespondKeepsNoRange ==
    ASSUME NEW s, IsGet(s), NoRange(s)
    PROVE  /\ NoRange(Respond(s)) /\ NoRange(RespondError(s)) /\ NoRange(GetRollback(s))
<1>1. ASSUME NEW t, IsGet(t), NoRange(t) PROVE NoRange(Respond(t))
  BY <1>1, RespondIs DEF GetKept, GetFields, NoRange
<1> DEFINE e == [s EXCEPT !.error = TRUE]
           c == [s EXCEPT !.scheduled = TRUE]
           d == [c EXCEPT !.error = TRUE]
<1>2. IsGet(e) /\ NoRange(e)
  BY DEF IsGet, GetFields, NoRange
<1>3. IsGet(d) /\ NoRange(d)
  BY DEF IsGet, GetFields, NoRange
<1>4. /\ RespondError(s) = Respond(e) /\ GetRollback(s) = (IF s.scheduled THEN s ELSE Respond(d))
  BY DEF RespondError, GetRollback
<1> HIDE DEF e, d
<1>5. NoRange(Respond(e)) /\ NoRange(Respond(d)) /\ NoRange(Respond(s))
  BY <1>1, <1>2, <1>3
<1> QED
  BY <1>4, <1>5

\* An operation on the data leaves the range as it is.
LEMMA RangeStays ==
    ASSUME NEW s, NEW t, IsGet(s), s.object \in Stored, s.header \in Headers, RangeSet(s),
           RefusedRightly(s), SameRange(s, t)
    PROVE  RangeOK(t)
  BY DEF RangeOK, RangeSet, SameRange, RefusedRightly

LEMMA RangeOfFetch ==
    ASSUME RangeIInv, FetchInfoEnds
    PROVE  RangeIInv'
<1> DEFINE s == [get EXCEPT !.op = "none"]
           z == s.status + 1
           y == [s EXCEPT !.status = z]
           x == [s EXCEPT !.gone = TRUE]
           range == ReadOptions(s.header, ContentLength(s.object))
           t == [s EXCEPT !.first = range.first, !.last = range.last]
           k == [s EXCEPT !.refused = TRUE]
<1>1. /\ IsGet(get) /\ get.object \in Stored /\ get.header \in Headers
      /\ NoRange(get) \/ RangeSet(get)
      /\ RefusedRightly(get)
  BY DEF RangeIInv, RangeOK
<1>2. SameRange(get, s) /\ (NoRange(get) => NoRange(s))
  BY <1>1 DEF SameRange, IsGet, GetFields, NoRange
<1>3. \/ get' = RespondError(s)
      \/ \E e \in Environments :
           get' = IF s.shutdown THEN GetRollback(s)
                  ELSE IF ~s.connected THEN x
                  ELSE ValidateObjectInfo(s, e)
  BY DEF FetchInfoEnds
<1>4. ASSUME NEW e PROVE ValidateObjectInfo(s, e) =
        IF ContentLength(s.object) = 0 THEN Respond(y)
        ELSE IF ~range.valid THEN RespondError(k)
        ELSE Proceed(StartObject(t, FirstPart(t)), e)
  BY DEF ValidateObjectInfo
<1> HIDE DEF s, z
<1>5. /\ IsGet(s) /\ s.object \in Stored /\ s.header \in Headers /\ (NoRange(s) \/ RangeSet(s))
      /\ RefusedRightly(s)
  BY <1>1, <1>2 DEF SameRange, RangeSet, RefusedRightly
<1>6. ASSUME NEW q, SameRange(s, q), NoRange(s) => NoRange(q)
      PROVE  RangeOK(q)
  BY <1>5, <1>6 DEF RangeOK, RangeSet, SameRange, RefusedRightly
<1>7. SameRange(s, y) /\ (NoRange(s) => NoRange(y))
  BY <1>5 DEF SameRange, IsGet, GetFields, NoRange
<1>8. RangeOK(x)
  <2>1. SameRange(s, x) /\ (NoRange(s) => NoRange(x))
    BY <1>5 DEF SameRange, IsGet, GetFields, NoRange
  <2> HIDE DEF x
  <2> QED
    BY <1>6, <2>1
<1> HIDE DEF y
<1>9. RangeOK(Respond(y))
  <2>1. SameRange(s, Respond(y))
    BY <1>7, RespondKeepsRange, SameRangeAgain DEF SameRange
  <2>2. NoRange(s) => NoRange(Respond(y))
    BY <1>7, RespondKeepsNoRange DEF SameRange
  <2> QED
    BY <1>6, <2>1, <2>2
<1>10. RangeOK(RespondError(s)) /\ RangeOK(GetRollback(s))
  BY <1>5, <1>6, RespondKeepsRange, RespondKeepsNoRange
<1>11. ASSUME NEW e, range.valid
       PROVE  RangeOK(Proceed(StartObject(t, FirstPart(t)), e))
  <2> DEFINE r1 == range.first
             r2 == range.last
             v == [s EXCEPT !.first = r1, !.last = r2]
             q == StartObject(v, FirstPart(v))
             p == Proceed(q, e)
  <2> HIDE DEF r1, r2
  <2>1. /\ IsGet(v) /\ v.object = s.object /\ v.header = s.header /\ v.first = r1 /\ v.last = r2
        /\ v.refused = s.refused
    BY <1>5 DEF IsGet, GetFields
  <2> HIDE DEF v
  <2>2. RangeSet(v)
    BY <1>11, <2>1 DEF RangeSet, r1, r2
  <2>3. SameRange(v, q)
    BY <2>1, StartKeepsRange
  <2> HIDE DEF q
  <2>4. SameRange(q, p)
    BY <2>3, ProceedKeepsRange DEF SameRange
  <2> HIDE DEF p
  <2>5. SameRange(v, p)
    BY <2>3, <2>4, SameRangeAgain
  <2>6. RangeOK(p)
    BY <1>5, <2>1, <2>2, <2>5, RangeStays DEF RefusedRightly
  <2> QED
    BY <2>6 DEF p, q, v, r1, r2
<1>13. ~range.valid => RangeOK(RespondError(k))
  <2>1. /\ IsGet(k) /\ k.object = s.object /\ k.header = s.header /\ k.first = s.first /\ k.last = s.last
        /\ NoRange(s) => NoRange(k)
    BY <1>5 DEF IsGet, GetFields, NoRange
  <2> HIDE DEF k
  <2> DEFINE q == RespondError(k)
  <2>2. SameRange(k, q) /\ (NoRange(k) => NoRange(q))
    BY <2>1, RespondKeepsRange, RespondKeepsNoRange
  <2> HIDE DEF q
  <2>3. ~range.valid => RangeOK(q)
    BY <1>5, <2>1, <2>2 DEF RangeOK, RangeSet, SameRange, RefusedRightly
  <2> QED
    BY <2>3 DEF q
<1> HIDE DEF t, x, k, range
<1>12. ASSUME NEW e PROVE RangeOK(ValidateObjectInfo(s, e))
  BY <1>4, <1>9, <1>11, <1>13
<1> QED
  BY <1>3, <1>8, <1>10, <1>12 DEF RangeIInv

LEMMA RangeOfRest ==
    ASSUME RangeIInv, [GetNext]_get, ~FetchInfoEnds
    PROVE  RangeIInv'
<1> DEFINE s == [get EXCEPT !.op = "none"]
           w == [get EXCEPT !.timer = FALSE]
<1>1. /\ IsGet(get) /\ get.object \in Stored /\ get.header \in Headers
      /\ NoRange(get) \/ RangeSet(get)
      /\ RefusedRightly(get)
  BY DEF RangeIInv, RangeOK
<1>2. SameRange(get, s) /\ SameRange(get, w)
  BY <1>1 DEF SameRange, IsGet, GetFields
<1>3. SameRange(get, get') /\ ~NoRange(get) => RangeIInv'
  BY <1>1, RangeStays DEF RangeIInv
<1>4. CASE OpenEnds
  <2> DEFINE t == [s EXCEPT !.opened = TRUE]
             a == [t EXCEPT !.reader = "ooo"]
             b == [t EXCEPT !.reader = "launch", !.op = "posted"]
             c == [s EXCEPT !.reader = "failed"]
  <2>1. get' \in {LaunchRead(t), ReadObjectDataFailed(a), b, ReadObjectDataFailed(c)}
    BY <1>4 DEF OpenEnds
  <2> HIDE DEF s
  <2>2. SameRange(get, t) /\ SameRange(get, c)
    BY <1>2 DEF SameRange, IsGet, GetFields
  <2> HIDE DEF t
  <2>3. SameRange(get, a) /\ SameRange(get, b)
    BY <2>2 DEF SameRange, IsGet, GetFields
  <2> HIDE DEF a, b, c
  <2>4. SameRange(t, LaunchRead(t)) /\ SameRange(a, ReadObjectDataFailed(a)) /\ SameRange(c, ReadObjectDataFailed(c))
    BY <2>2, <2>3, RespondKeepsRange, ReadBlocksKeepsRange DEF SameRange
  <2>5. SameRange(get, get')
    BY <2>1, <2>2, <2>3, <2>4, SameRangeAgain
  <2> QED
    BY <1>3, <1>4, <2>5 DEF NoRange, OpenEnds
<1>5. CASE ReadEnds
  <2> DEFINE a == [s EXCEPT !.reader = "failed"]
             b == [s EXCEPT !.reader = "success"]
  <2>1. get' = ReadObjectDataFailed(a) \/ \E e \in Environments : get' = SendDataToClient(b, e)
    BY <1>5 DEF ReadEnds
  <2> HIDE DEF s
  <2>2. SameRange(get, a) /\ SameRange(get, b)
    BY <1>2 DEF SameRange, IsGet, GetFields
  <2> HIDE DEF a, b
  <2>3. SameRange(a, ReadObjectDataFailed(a)) /\ \A e : SameRange(b, SendDataToClient(b, e))
    BY <2>2, RespondKeepsRange, SendKeepsRange DEF SameRange
  <2>4. SameRange(get, get')
    BY <2>1, <2>2, <2>3, SameRangeAgain
  <2> QED
    BY <1>3, <1>5, <2>4 DEF NoRange, ReadEnds
<1>6. CASE PostedFailure
  <2> DEFINE a == [get EXCEPT !.op = "none", !.reader = "failed"]
  <2>1. get' = ReadObjectDataFailed(a)
    BY <1>6 DEF PostedFailure
  <2>2. SameRange(get, a)
    BY <1>1 DEF SameRange, IsGet, GetFields
  <2> HIDE DEF a
  <2>3. SameRange(a, ReadObjectDataFailed(a))
    BY <2>2, RespondKeepsRange DEF SameRange
  <2>4. SameRange(get, get')
    BY <2>1, <2>2, <2>3, SameRangeAgain
  <2> QED
    BY <1>3, <1>6, <2>4 DEF NoRange, PostedFailure
<1>7. CASE ResumeActionStep
  <2>1. \E e \in Environments : get' = ReadObjectData(w, e)
    BY <1>7 DEF ResumeActionStep
  <2> HIDE DEF w
  <2>2. \A e : SameRange(w, ReadObjectData(w, e))
    BY <1>2, ReadsKeepRange DEF SameRange
  <2>3. SameRange(get, get')
    BY <1>2, <2>1, <2>2, SameRangeAgain
  <2> QED
    BY <1>3, <1>7, <2>3 DEF NoRange, ResumeActionStep
<1>8. CASE ClientTakes \/ ReaderLeaves \/ GetShutdownBegins \/ UNCHANGED get
  <2>1. GetKept(get, get', {"out", "connected", "shutdown"})
    <3>1. CASE ClientTakes
      <4>1. PICK n : get' = [get EXCEPT !.out = @ - n]
        BY <3>1 DEF ClientTakes
      <4> DEFINE m == get.out - n
      <4> HIDE DEF m
      <4>2. get' = [get EXCEPT !.out = m]
        BY <4>1 DEF m
      <4> QED
        BY <1>1, <4>2 DEF GetKept, IsGet, GetFields
    <3>2. CASE ReaderLeaves
      BY <1>1, <3>2 DEF ReaderLeaves, GetKept, IsGet, GetFields
    <3>3. CASE GetShutdownBegins
      BY <1>1, <3>3 DEF GetShutdownBegins, GetKept, IsGet, GetFields
    <3>4. CASE UNCHANGED get
      BY <1>1, <3>4 DEF GetKept
    <3> QED
      BY <1>8, <3>1, <3>2, <3>3, <3>4
  <2>2. SameRange(get, get') /\ (NoRange(get) => NoRange(get'))
    BY <2>1 DEF GetKept, GetFields, SameRange, NoRange
  <2> QED
    BY <1>1, <2>2, RangeStays DEF RangeIInv, RangeOK, SameRange, RefusedRightly
<1> QED
  BY <1>4, <1>5, <1>6, <1>7, <1>8 DEF GetNext

\* The range the code computes on unsigned offsets is the one of the header.
LEMMA RangeIsRight ==
    ASSUME RangeFits, NEW h \in Headers, NEW length \in 0 .. (SizeT - 1),
           ReadOptions(h, length).valid
    PROVE  Expected(h, length) = ReadOptions(h, length).first .. ReadOptions(h, length).last
<1> DEFINE r == ReadOptions(h, length)
<1>1. /\ h.a \in Nat /\ h.b \in Nat /\ h.b < SizeT /\ SizeT \in Nat /\ length \in Nat /\ length < SizeT
  BY DEF RangeFits
<1>2. CASE h.kind = "span"
  <2>1. r.first = h.a /\ r.last = Least(h.b, length - 1) /\ h.a < length
    BY <1>2 DEF ReadOptions, FirstByte
  <2>2. Expected(h, length) = {b \in 0 .. (length - 1) : h.a <= b /\ b <= h.b}
    BY <1>2 DEF Expected
  <2>3. {b \in 0 .. (length - 1) : h.a <= b /\ b <= h.b} = h.a .. Least(h.b, length - 1)
    BY <1>1 DEF Least
  <2> QED
    BY <2>1, <2>2, <2>3
<1>3. CASE h.kind = "from"
  <2>1. r.first = h.a /\ r.last = length - 1
    BY <1>3 DEF ReadOptions, FirstByte
  <2>2. Expected(h, length) = {b \in 0 .. (length - 1) : h.a <= b}
    BY <1>3 DEF Expected
  <2>3. {b \in 0 .. (length - 1) : h.a <= b} = h.a .. (length - 1)
    BY <1>1
  <2> QED
    BY <2>1, <2>2, <2>3
<1>4. CASE h.kind = "suffix"
  <2>1. r.first = (length - h.b) % SizeT /\ r.last = length - 1 /\ r.first < length
    BY <1>4 DEF ReadOptions, FirstByte
  <2>2. h.b <= length => (length - h.b) % SizeT = length - h.b
    BY <1>1
  <2>3. h.b > length => (length - h.b) % SizeT = length - h.b + SizeT
    BY <1>1
  <2>4. h.b <= length /\ r.first = length - h.b
    BY <1>1, <2>1, <2>2, <2>3
  <2>5. Expected(h, length) = {b \in 0 .. (length - 1) : b >= length - h.b}
    BY <1>4 DEF Expected
  <2>6. {b \in 0 .. (length - 1) : b >= length - h.b} = (length - h.b) .. (length - 1)
    BY <1>1, <2>4
  <2> QED
    BY <2>1, <2>4, <2>5, <2>6
<1>5. CASE h.kind \notin {"span", "from", "suffix"}
  <2>1. h.kind # "malformed" /\ h.kind \in {"none", "blank", "several"}
    BY <1>5 DEF ReadOptions, RangeFits
  <2>2. Expected(h, length) = 0 .. (length - 1)
    BY <1>5, <2>1 DEF Expected
  <2> QED
    BY <1>5, <2>1, <2>2 DEF ReadOptions, FirstByte
<1> QED
  BY <1>2, <1>3, <1>4, <1>5

\* A header that the code refuses asks for no byte, but for the suffix that is
\* longer than the object.
LEMMA RefusalIsRight ==
    ASSUME RangeFits, NEW h \in Headers, NEW length \in 0 .. (SizeT - 1),
           ~ReadOptions(h, length).valid
    PROVE  Expected(h, length) = {} \/ LongSuffix(h, length)
<1>1. /\ h.a \in Nat /\ h.b \in Nat /\ h.b < SizeT /\ SizeT \in Nat /\ length \in Nat /\ length < SizeT
      /\ h.kind \in {"none", "blank", "several", "span", "from", "suffix", "malformed"}
  BY DEF RangeFits
<1> DEFINE r == ReadOptions(h, length)
<1>2. CASE h.kind = "span"
  <2>1. ~(h.a < length /\ h.a <= Least(h.b, length - 1))
    BY <1>2 DEF ReadOptions, FirstByte
  <2>2. Expected(h, length) = {b \in 0 .. (length - 1) : h.a <= b /\ b <= h.b}
    BY <1>2 DEF Expected
  <2>3. ~(h.a < length /\ h.a <= h.b)
    BY <1>1, <2>1 DEF Least
  <2>4. {b \in 0 .. (length - 1) : h.a <= b /\ b <= h.b} = {}
    BY <1>1, <2>3
  <2> QED
    BY <2>2, <2>4
<1>6. CASE h.kind = "from"
  <2>1. ~(h.a < length /\ h.a <= length - 1)
    BY <1>6 DEF ReadOptions, FirstByte
  <2>2. Expected(h, length) = {b \in 0 .. (length - 1) : h.a <= b}
    BY <1>6 DEF Expected
  <2>3. ~(h.a < length)
    BY <1>1, <2>1
  <2>4. {b \in 0 .. (length - 1) : h.a <= b} = {}
    BY <1>1, <2>3
  <2> QED
    BY <2>2, <2>4
<1>3. CASE h.kind = "suffix"
  <2>1. h.b <= length => (length - h.b) % SizeT = length - h.b
    BY <1>1
  <2>4. ~((length - h.b) % SizeT < length /\ (length - h.b) % SizeT <= length - 1)
    BY <1>3 DEF ReadOptions, FirstByte
  <2>2. h.b <= length => h.b = 0 \/ length = 0
    BY <1>1, <2>1, <2>4
  <2>3. Expected(h, length) = {b \in 0 .. (length - 1) : b >= length - h.b}
    BY <1>3 DEF Expected
  <2> QED
    BY <1>1, <1>3, <2>2, <2>3 DEF LongSuffix
<1>4. CASE h.kind = "malformed"
  BY <1>4 DEF Expected
<1>5. CASE h.kind \in {"none", "blank", "several"}
  <2>1. ~(0 < length /\ 0 <= length - 1)
    BY <1>5 DEF ReadOptions
  <2>2. Expected(h, length) = 0 .. (length - 1)
    BY <1>5 DEF Expected
  <2>3. length = 0
    BY <1>1, <2>1
  <2> QED
    BY <2>2, <2>3
<1> QED
  BY <1>1, <1>2, <1>3, <1>4, <1>5, <1>6

\* validate_range_header_and_set_read_options: data is read only of the range
\* the header asks for, as the HTTP specification reads it, and only a header
\* that asks for no byte, or for a suffix longer than the object, is refused, for
\* every object, simple or of parts, every header and every size of a size_t.
THEOREM RangeIsAlwaysExpected == RangeFits /\ GetSpec => []RangeIsExpected
<1> SUFFICES ASSUME RangeFits PROVE GetSpec => []RangeIsExpected
  OBVIOUS
<1>1. GetInit => RangeIInv
  <2> SUFFICES ASSUME NEW o \in Stored, NEW h \in Headers, get = NewGet(o, h)
               PROVE  RangeIInv
    BY DEF GetInit
  <2> QED
    BY DEF NewGet, RangeIInv, RangeOK, IsGet, GetFields, NoRange, RefusedRightly
<1>2. RangeIInv /\ [GetNext]_get => RangeIInv'
  BY RangeOfFetch, RangeOfRest
<1>3. RangeIInv => RangeIsExpected
  <2> SUFFICES ASSUME RangeIInv PROVE RangeIsExpected
    OBVIOUS
  <2> DEFINE h == get.header
             length == ContentLength(get.object)
  <2>1. /\ get.object \in Stored /\ h \in Headers /\ (get.reader = "success" => RangeSet(get))
        /\ get.refused => ~ReadOptions(h, length).valid
    BY DEF RangeIInv, RangeOK, NoRange, RefusedRightly
  <2>2. length \in 0 .. (SizeT - 1)
    BY <2>1 DEF RangeFits
  <2>3. get.reader = "success" => Expected(h, length) = get.first .. get.last
    BY <2>1, <2>2, RangeIsRight DEF RangeSet
  <2>4. get.refused => Expected(h, length) = {} \/ LongSuffix(h, length)
    BY <2>1, <2>2, RefusalIsRight
  <2> QED
    BY <2>3, <2>4 DEF RangeIsExpected
<1> QED
  BY <1>1, <1>2, <1>3, PTL DEF GetSpec

-----------------------------------------------------------------------------
(* The data of a simple object.                                            *)

\* A fold over no or one element.
LEMMA FoldIs ==
    ASSUME NEW parts, NEW S, S = {} \/ S = {1},
           NEW v, v = IF S = {} THEN 0 ELSE parts[1].size + 0
    PROVE  FoldFunctionOnSet(LAMBDA p, sum : p.size + sum, 0, parts, S) = v
<1> DEFINE Pick(s) == CHOOSE x \in s : TRUE
           Is(g) == g = [s \in SUBSET S |->
                           IF s = {} THEN 0 ELSE parts[Pick(s)].size + g[s \ {Pick(s)}]]
           h == [s \in SUBSET S |-> IF s = {} THEN 0 ELSE parts[1].size + 0]
<1>1. \A s \in SUBSET S : s # {} => s = {1} /\ Pick(s) = 1 /\ s \ {Pick(s)} = {}
  OBVIOUS
<1>2. Is(h)
  <2> SUFFICES ASSUME NEW s \in SUBSET S
               PROVE  h[s] = IF s = {} THEN 0 ELSE parts[Pick(s)].size + h[s \ {Pick(s)}]
    OBVIOUS
  <2> HIDE DEF Pick
  <2> QED
    BY <1>1
<1>3. \A g : Is(g) => g[S] = v
  <2> SUFFICES ASSUME NEW g, Is(g) PROVE g[S] = v
    OBVIOUS
  <2>1. g[{}] = 0
    OBVIOUS
  <2> HIDE DEF Pick
  <2>2. S # {} => g[S] = parts[1].size + g[{}]
    BY <1>1
  <2> QED
    BY <2>1, <2>2
<1>4. FoldFunctionOnSet(LAMBDA p, sum : p.size + sum, 0, parts, S) = (CHOOSE g : Is(g))[S]
  BY Zenon DEF FoldFunctionOnSet, MapThenFoldSet
<1> HIDE DEF Is
<1>5. Is(CHOOSE g : Is(g))
  BY <1>2, Zenon
<1> QED
  BY <1>3, <1>4, <1>5

\* Simple objects, and no operation that fails at its launch or for want of
\* memory: those are answered twice.
SimpleObject(o) ==
    /\ o.extended = FALSE /\ Len(o.parts) = 1
    /\ o.parts[1].size \in Nat /\ o.parts[1].unit \in Nat \ {0}
SimpleGets ==
    /\ RangeFits /\ \A o \in Stored : SimpleObject(o)
    /\ GetFault \cap {"memory", "launch", "openLaunch"} = {}

LEMMA SimpleIs ==
    ASSUME NEW o, SimpleObject(o)
    PROVE  PartStart(o, 1) = 0 /\ ContentLength(o) = o.parts[1].size
<1>1. 1 .. (1 - 1) = {} /\ 1 .. (2 - 1) = {1} /\ Len(o.parts) + 1 = 2
  BY DEF SimpleObject
<1>2. PartStart(o, 1) = 0
  BY <1>1, FoldIs DEF PartStart
<1>3. PartStart(o, 2) = o.parts[1].size + 0
  BY <1>1, FoldIs DEF PartStart
<1> QED
  BY <1>1, <1>2, <1>3 DEF ContentLength, SimpleObject

\* Arithmetic of blocks.
LEMMA Euclid ==
    ASSUME NEW a \in Nat, NEW u \in Nat \ {0}
    PROVE  /\ a \div u \in Nat /\ a % u \in Nat /\ a % u < u
           /\ a = ((a \div u) * u) + (a % u) /\ (a + u) \div u = 1 + (a \div u)
  OBVIOUS
LEMMA DivMonotone ==
    ASSUME NEW a \in Nat, NEW b \in Nat, a <= b, NEW u \in Nat \ {0}
    PROVE  a \div u <= b \div u
  OBVIOUS
LEMMA Distributes ==
    ASSUME NEW a \in Int, NEW b \in Int, NEW u \in Int
    PROVE  (a + b) * u = a * u + b * u /\ (a - b) * u = a * u - b * u /\ a * u \in Int
  OBVIOUS
LEMMA TimesMonotone ==
    ASSUME NEW a \in Nat, NEW b \in Nat, NEW u \in Nat \ {0}
    PROVE  (a <= b => a * u <= b * u) /\ (a * u < b * u => a < b)
  OBVIOUS

Unit(s) == s.object.parts[1].unit
FirstBlock(s) == s.first \div Unit(s)
Span(s) == s.last \div Unit(s) - FirstBlock(s) + 1
OutLimit(s) == OutMultiple * MaxBlocks * Unit(s)

\* What has been sent is the beginning of the range.
SentOK(s) ==
    /\ s.sent \in Seq(Int) /\ s.first \in Nat /\ s.last \in Nat /\ Len(s.sent) <= Requested(s)
    /\ \A i \in 1 .. Len(s.sent) : s.sent[i] = s.first + i - 1

\* The blocks that have been taken are those of what has been sent, and those
\* that are left hold the rest.
InReads(s) ==
    /\ s.first <= s.last /\ s.last < s.object.parts[1].size /\ s.frag = 1
    /\ s.total = Span(s) /\ s.already \in Nat /\ s.already < s.total
    /\ (s.op \in {"open", "read", "posted"} /\ s.timer = FALSE) \/ (s.op = "none" /\ s.timer = TRUE)
    /\ s.op \in {"open", "read"} =>
          /\ s.blocks \in 1 .. MaxBlocks /\ s.already + s.blocks <= s.total
          /\ s.out < OutLimit(s)
    /\ s.index = (FirstBlock(s) + s.already + (IF s.op = "read" THEN s.blocks ELSE 0)) * Unit(s)
    /\ Len(s.sent) < Requested(s)
    /\ Len(s.sent) = IF s.already = 0 THEN 0 ELSE (s.already * Unit(s)) - (s.first % Unit(s))

GetTypeOK(s) ==
    /\ IsGet(s) /\ s.object \in Stored /\ s.header \in Headers
    /\ s.connected \in BOOLEAN /\ s.shutdown \in BOOLEAN /\ s.started \in BOOLEAN
    /\ s.out \in Nat /\ s.out < OutLimit(s) + MaxBlocks * Unit(s) /\ (s.connected = FALSE => s.out = 0)
NoReplyYet(s) ==
    /\ s.error = FALSE /\ s.scheduled = FALSE /\ s.ended = 0 /\ s.status \in {0, 1}
    /\ s.started = FALSE => s.status = 0
Answered(s) ==
    /\ s.op = "none" /\ s.timer = FALSE /\ s.status \in {0, 1} /\ s.ended \in {0, 1}
    /\ s.error = FALSE /\ s.reader = "success" => Len(s.sent) = Requested(s)
Loading(s) ==
    /\ s.op = "load" /\ s.timer = FALSE /\ s.reader = "start" /\ s.started = FALSE
    /\ s.sent = <<>> /\ s.first = 0 /\ s.last = 0
GetOK(s) ==
    /\ GetTypeOK(s) /\ SentOK(s)
    /\ \/ s.gone = TRUE /\ Answered(s)
       \/ s.gone = FALSE /\ NoReplyYet(s) /\ (Loading(s) \/ InReads(s))
GetIInv == GetOK(get)

\* Between two operations.
Ready(s) ==
    /\ GetTypeOK(s) /\ SentOK(s) /\ s.gone = FALSE /\ NoReplyYet(s)
    /\ s.op = "none" /\ s.timer = FALSE

\* The rest of the record after the flags of the reply have changed.
Replies == {"status", "ended", "gone", "error", "scheduled", "refused"}
LEMMA ReplyKeeps ==
    ASSUME NEW s, NEW t, GetTypeOK(s), SentOK(s), GetKept(s, t, Replies)
    PROVE  /\ GetTypeOK(t) /\ SentOK(t) /\ Requested(t) = Requested(s) /\ t.sent = s.sent
           /\ t.op = s.op /\ t.timer = s.timer /\ t.reader = s.reader /\ t.started = s.started
           /\ t.connected = s.connected
<1>1. /\ IsGet(t) /\ t.object = s.object /\ t.header = s.header /\ t.connected = s.connected
      /\ t.shutdown = s.shutdown /\ t.started = s.started /\ t.out = s.out /\ t.sent = s.sent
      /\ t.first = s.first /\ t.last = s.last /\ t.op = s.op /\ t.timer = s.timer
      /\ t.reader = s.reader
  BY DEF GetKept, GetFields, Replies
<1> QED
  BY <1>1 DEF GetTypeOK, SentOK, Requested, OutLimit, Unit

\* The reply ends: it is the first, or the end of the one that was started.
LEMMA EndIsOnce ==
    ASSUME NEW s, GetTypeOK(s), SentOK(s), s.op = "none", s.timer = FALSE, s.ended = 0,
           s.status \in {0, 1},
           \/ s.status = 0
           \/ s.connected = FALSE
           \/ s.started = TRUE /\ (s.scheduled = TRUE \/ s.error = FALSE),
           s.scheduled \in BOOLEAN, s.error \in BOOLEAN,
           s.error = FALSE /\ s.reader = "success" => Len(s.sent) = Requested(s)
    PROVE  GetOK(Respond(s))
<1> DEFINE t == Respond(s)
           new == IF s.scheduled THEN ~s.started
                  ELSE s.error \/ (ContentLength(s.object) > 0 /\ s.reader # "success" /\ ~s.started)
           one == IF s.connected THEN 1 ELSE 0
<1>1. /\ GetKept(s, t, {"status", "ended", "gone"}) /\ t.gone = TRUE
      /\ t.ended = s.ended + one /\ t.status = s.status + (IF new THEN one ELSE 0)
  BY RespondIs DEF GetTypeOK
<1> HIDE DEF t
<1>2. s.status # 0 => ~new \/ s.connected = FALSE
  BY DEF GetTypeOK
<1>3. one \in {0, 1} /\ (s.connected = FALSE => one = 0)
  BY DEF GetTypeOK
<1> HIDE DEF one, new
<1>4. t.status \in {0, 1} /\ t.ended \in {0, 1}
  BY <1>1, <1>2, <1>3
<1>5. GetKept(s, t, Replies) /\ t.error = s.error
  BY <1>1 DEF GetKept, Replies, GetFields
<1>6. /\ GetTypeOK(t) /\ SentOK(t) /\ Requested(t) = Requested(s) /\ t.sent = s.sent
      /\ t.op = s.op /\ t.timer = s.timer /\ t.reader = s.reader
  BY <1>5, ReplyKeeps
<1>7. GetOK(t)
  BY <1>1, <1>4, <1>5, <1>6 DEF GetOK, Answered
<1> QED
  BY <1>7 DEF t

\* An error, before the reply is started or when nobody gets it.
LEMMA RespondErrorOK ==
    ASSUME NEW s, Ready(s), s.status = 0 \/ s.connected = FALSE
    PROVE  GetOK(RespondError(s))
<1> DEFINE t == [s EXCEPT !.error = TRUE]
<1>1. GetKept(s, t, {"error"}) /\ t.error = TRUE
  BY DEF Ready, GetTypeOK, GetKept, IsGet, GetFields
<1> HIDE DEF t
<1>2. GetKept(s, t, Replies) /\ t.status = s.status /\ t.ended = s.ended /\ t.scheduled = s.scheduled
  BY <1>1 DEF GetKept, GetFields, Replies
<1>3. /\ GetTypeOK(t) /\ SentOK(t) /\ t.op = s.op /\ t.timer = s.timer /\ t.connected = s.connected
  BY <1>2, ReplyKeeps DEF Ready
<1>4. GetOK(Respond(t))
  BY <1>1, <1>2, <1>3, EndIsOnce DEF Ready, NoReplyYet
<1> QED
  BY <1>4 DEF RespondError, t

LEMMA GetRollbackOK ==
    ASSUME NEW s, Ready(s)
    PROVE  GetOK(GetRollback(s))
<1> DEFINE r == [s EXCEPT !.scheduled = TRUE]
           t == [r EXCEPT !.error = TRUE]
<1>1. GetKept(s, t, {"error", "scheduled"}) /\ t.error = TRUE /\ t.scheduled = TRUE
  BY DEF Ready, GetTypeOK, GetKept, IsGet, GetFields
<1>2. GetRollback(s) = Respond(t)
  BY DEF GetRollback, RespondError, Ready, NoReplyYet
<1> HIDE DEF t
<1>3. GetKept(s, t, Replies) /\ t.status = s.status /\ t.ended = s.ended
  BY <1>1 DEF GetKept, GetFields, Replies
<1>4. /\ GetTypeOK(t) /\ SentOK(t) /\ t.op = s.op /\ t.timer = s.timer /\ t.started = s.started
  BY <1>3, ReplyKeeps DEF Ready
<1>5. s.status = 0 \/ s.started = TRUE
  BY DEF Ready, NoReplyYet, GetTypeOK
<1>6. GetOK(Respond(t))
  BY <1>1, <1>3, <1>4, <1>5, EndIsOnce DEF Ready, NoReplyYet
<1> QED
  BY <1>2, <1>6

LEMMA ReadFailedOK ==
    ASSUME NEW s, Ready(s), s.reader # "success"
    PROVE  GetOK(ReadObjectDataFailed(s))
<1> DEFINE b == (s.error \/ ~s.started)
           t == [s EXCEPT !.error = b]
<1>1. ReadObjectDataFailed(s) = Respond(t)
  BY DEF ReadObjectDataFailed
<1>2. b \in BOOLEAN /\ (s.started = TRUE => b = FALSE)
  BY DEF Ready, NoReplyYet
<1> HIDE DEF b
<1>3. GetKept(s, t, {"error"}) /\ t.error = b
  BY DEF Ready, GetTypeOK, GetKept, IsGet, GetFields
<1> HIDE DEF t
<1>4. GetKept(s, t, Replies) /\ t.status = s.status /\ t.ended = s.ended /\ t.scheduled = s.scheduled
  BY <1>3 DEF GetKept, GetFields, Replies
<1>5. /\ GetTypeOK(t) /\ SentOK(t) /\ t.op = s.op /\ t.timer = s.timer /\ t.started = s.started
      /\ t.reader = s.reader
  BY <1>4, ReplyKeeps DEF Ready
<1>6. s.status = 0 \/ s.started = TRUE
  BY DEF Ready, NoReplyYet, GetTypeOK
<1>7. GetOK(Respond(t))
  BY <1>2, <1>3, <1>4, <1>5, <1>6, EndIsOnce DEF Ready, NoReplyYet
<1> QED
  BY <1>1, <1>7

\* All of the range has been sent.
LEMMA WholeOK ==
    ASSUME NEW s, Ready(s), s.started = TRUE, Len(s.sent) = Requested(s)
    PROVE  GetOK(Respond(s))
  BY EndIsOnce DEF Ready, NoReplyYet

\* Ready for the next blocks.
Positioned(s) ==
    /\ s.first <= s.last /\ s.last < s.object.parts[1].size /\ s.frag = 1
    /\ s.total = Span(s) /\ s.already \in Nat /\ s.already < s.total
    /\ s.index = (FirstBlock(s) + s.already) * Unit(s)
    /\ Len(s.sent) < Requested(s)
    /\ Len(s.sent) = IF s.already = 0 THEN 0 ELSE (s.already * Unit(s)) - (s.first % Unit(s))

LEMMA SimpleFacts ==
    ASSUME SimpleGets, NEW s, GetTypeOK(s)
    PROVE  /\ SimpleObject(s.object) /\ Unit(s) \in Nat \ {0} /\ s.object.parts[1].size \in Nat
           /\ ContentLength(s.object) = s.object.parts[1].size /\ PartStart(s.object, 1) = 0
           /\ FirstPart(s) = 1
           /\ MaxBlocks \in Nat \ {0} /\ OutMultiple \in Nat \ {0} /\ FirstRead \in Nat \ {0}
           /\ OutLimit(s) \in Nat /\ OutLimit(s) > 0 /\ MaxBlocks * Unit(s) \in Nat
           /\ OutLimit(s) = OutMultiple * MaxBlocks * s.object.parts[1].unit
<1>1. SimpleObject(s.object)
  BY DEF SimpleGets, GetTypeOK
<1>2. /\ Unit(s) \in Nat \ {0} /\ s.object.parts[1].size \in Nat /\ FirstPart(s) = 1
      /\ MaxBlocks \in Nat \ {0} /\ OutMultiple \in Nat \ {0} /\ FirstRead \in Nat \ {0}
  BY <1>1, BlocksAssumption, OutMultipleAssumption DEF SimpleObject, Unit, FirstPart
<1>3. ASSUME NEW a \in Nat \ {0}, NEW b \in Nat \ {0} PROVE a * b \in Nat \ {0}
  BY <1>3
<1>4. OutMultiple * MaxBlocks \in Nat \ {0} /\ MaxBlocks * Unit(s) \in Nat \ {0}
  BY <1>2, <1>3
<1>5. OutMultiple * MaxBlocks * Unit(s) \in Nat \ {0}
  BY <1>2, <1>3, <1>4
<1> QED
  BY <1>1, <1>2, <1>4, <1>5, SimpleIs DEF OutLimit, Unit

\* The blocks of the range, and what they hold.
LEMMA RangeBlocks ==
    ASSUME NEW first \in Nat, NEW last \in Nat, first <= last, NEW u \in Nat \ {0}
    PROVE  /\ ((last \div u) - (first \div u)) + 1 \in Nat \ {0}
           /\ first \div u \in Nat /\ first % u \in Nat /\ first % u < u
           /\ (((last \div u) - (first \div u)) + 1) * u >= ((last - first) + 1) + (first % u)
           /\ first = ((first \div u) * u) + (first % u)
<1> DEFINE a == first \div u
           b == last \div u
<1>1. a \in Nat /\ b \in Nat /\ a <= b
  BY Euclid, DivMonotone
<1>2. first = (a * u) + (first % u) /\ first % u \in Nat /\ first % u < u
  BY Euclid
<1>3. last = (b * u) + (last % u) /\ last % u \in Nat /\ last % u < u
  BY Euclid
<1> DEFINE f == first % u
           l == last % u
<1> HIDE DEF a, b, f, l
<1>4. (b - a + 1) * u = (b * u) - (a * u) + u /\ a * u \in Int /\ b * u \in Int
  BY <1>1
<1> DEFINE x == a * u
           y == b * u
<1> HIDE DEF x, y
<1>5. (b - a + 1) * u >= last - first + 1 + f
  BY <1>2, <1>3, <1>4 DEF f, l, x, y
<1> QED
  BY <1>1, <1>2, <1>5 DEF a, b, f

\* read_object_data for the blocks that are left.
LEMMA ProceedOK ==
    ASSUME SimpleGets, NEW s, NEW e, Ready(s), Positioned(s), e.fault = "none"
    PROVE  GetOK(Proceed(s, e))
<1> DEFINE u == Unit(s)
           n == BlocksToRead(s)
           t == [s EXCEPT !.blocks = n]
           d == DelayRead(s)
           o == [t EXCEPT !.op = "open", !.reader = "reading"]
           i == t.index + t.blocks * t.object.parts[t.frag].unit
           r == [t EXCEPT !.op = "read", !.reader = "reading", !.index = i]
<1>0. GetTypeOK(s) /\ SentOK(s)
  BY DEF Ready
<1>1. /\ SimpleObject(s.object) /\ u \in Nat \ {0} /\ s.object.parts[1].size \in Nat
      /\ FirstPart(s) = 1 /\ MaxBlocks \in Nat \ {0} /\ FirstRead \in Nat \ {0}
      /\ OutLimit(s) \in Nat /\ OutLimit(s) > 0
      /\ OutLimit(s) = OutMultiple * MaxBlocks * s.object.parts[1].unit
  BY <1>0, SimpleFacts
<1>2. Proceed(s, e) = IF s.shutdown THEN GetRollback(s)
                      ELSE IF Throttled(s, e) THEN d
                      ELSE IF ~t.opened THEN o ELSE r
  BY DEF Proceed, ReadBlocks, LaunchRead
<1>3. CASE s.shutdown
  BY <1>2, <1>3, GetRollbackOK
<1>4. GetOK(d)
  <2>1. GetKept(s, d, {"timer"}) /\ d.timer = TRUE
    BY <1>0 DEF DelayRead, GetTypeOK, GetKept, IsGet, GetFields
  <2> HIDE DEF d
  <2>2. /\ IsGet(d) /\ \A f \in GetFields \ {"timer"} : d[f] = s[f]
    BY <2>1 DEF GetKept
  <2>3. /\ d.object = s.object /\ d.header = s.header /\ d.connected = s.connected
        /\ d.shutdown = s.shutdown /\ d.started = s.started /\ d.out = s.out /\ d.sent = s.sent
        /\ d.first = s.first /\ d.last = s.last /\ d.op = s.op /\ d.frag = s.frag
        /\ d.total = s.total /\ d.already = s.already /\ d.index = s.index /\ d.gone = s.gone
        /\ d.error = s.error /\ d.scheduled = s.scheduled /\ d.ended = s.ended /\ d.status = s.status
    BY <2>2 DEF GetFields
  <2>4. /\ Unit(d) = u /\ FirstBlock(d) = FirstBlock(s) /\ Span(d) = Span(s)
        /\ OutLimit(d) = OutLimit(s) /\ Requested(d) = Requested(s)
    BY <2>3 DEF Unit, FirstBlock, Span, OutLimit, Requested
  <2>5. GetTypeOK(d) /\ SentOK(d)
    BY <1>0, <2>2, <2>3, <2>4 DEF GetTypeOK, SentOK, Requested
  <2>6. InReads(d)
    <3>1. FirstBlock(s) \in Nat
      BY <1>0, <1>1, Euclid DEF FirstBlock, SentOK
    <3>2. d.index = (FirstBlock(d) + d.already + 0) * Unit(d)
      BY <2>3, <2>4, <3>1 DEF Positioned
    <3> QED
      BY <2>1, <2>3, <2>4, <3>2 DEF Positioned, InReads, Ready
  <2> QED
    BY <2>3, <2>5, <2>6 DEF GetOK, Ready, NoReplyYet
<1>5. n \in 1 .. MaxBlocks /\ s.already + n <= s.total
  <2>1. /\ s.total \in Nat \ {0} /\ s.total * u >= Requested(s) /\ Requested(s) \in Nat
    <3>1. /\ s.total = ((s.last \div u) - (s.first \div u)) + 1 /\ s.first <= s.last
          /\ s.first \in Nat /\ s.last \in Nat
      BY <1>0 DEF Positioned, Span, FirstBlock, SentOK
    <3> HIDE DEF u
    <3>2. /\ ((s.last \div u) - (s.first \div u)) + 1 \in Nat \ {0} /\ s.first % u \in Nat
          /\ (((s.last \div u) - (s.first \div u)) + 1) * u
                >= ((s.last - s.first) + 1) + (s.first % u)
      BY <1>1, <3>1, RangeBlocks, Zenon
    <3> DEFINE x == s.total * u
               m == s.first % u
    <3>3. s.total \in Nat \ {0} /\ m \in Nat /\ x >= ((s.last - s.first) + 1) + m
      BY <3>1, <3>2, Zenon
    <3>4. x \in Int
      BY <1>1, <3>3
    <3> HIDE DEF x, m
    <3>5. x >= Requested(s) /\ Requested(s) \in Nat
      BY <3>1, <3>3, <3>4 DEF Requested
    <3> QED
      BY <3>3, <3>5 DEF x
  <2>2. Requested(s) > MaxBlocks * u => MaxBlocks < s.total
    <3>1. MaxBlocks * u < s.total * u => MaxBlocks < s.total
      <4> HIDE DEF u
      <4> QED
        BY <1>1, <2>1, TimesMonotone
    <3>2. MaxBlocks * u \in Int /\ s.total * u \in Int
      <4> HIDE DEF u
      <4> QED
        BY <1>1, <2>1
    <3> QED
      BY <2>1, <3>1, <3>2
  <2>3. n = IF s.already = 0 /\ Requested(s) > MaxBlocks * u THEN Least(MaxBlocks, FirstRead)
            ELSE Least(MaxBlocks, s.total - s.already)
    BY <1>1 DEF BlocksToRead, SimpleObject, Positioned, Unit
  <2>4. s.already \in Nat /\ s.already < s.total
    BY DEF Positioned
  <2> DEFINE long == (Requested(s) > MaxBlocks * u)
  <2>5. /\ n = (IF s.already = 0 /\ long THEN Least(MaxBlocks, FirstRead)
                ELSE Least(MaxBlocks, s.total - s.already))
        /\ long => MaxBlocks < s.total
    BY <2>2, <2>3
  <2> HIDE DEF n, u, long
  <2> QED
    BY <1>1, <2>1, <2>4, <2>5 DEF Least
<1>6. ~Throttled(s, e) => s.out < OutLimit(s)
  BY <1>0, <1>1 DEF Throttled, GetTypeOK
<1> HIDE DEF n, d
<1>7. GetKept(s, t, {"blocks"}) /\ t.blocks = n
  BY <1>0 DEF GetTypeOK, GetKept, IsGet, GetFields
<1> HIDE DEF t
<1>8. i = s.index + n * u
  BY <1>7 DEF GetKept, GetFields, Positioned, Unit
<1> HIDE DEF i
<1>9. GetKept(t, o, {"op", "reader"}) /\ o.op = "open"
  BY <1>7 DEF GetKept, IsGet, GetFields
<1>10. GetKept(t, r, {"op", "reader", "index"}) /\ r.op = "read" /\ r.index = i
  BY <1>7 DEF GetKept, IsGet, GetFields
<1> HIDE DEF o, r
<1>11. ASSUME NEW q, GetKept(t, q, {"op", "reader", "index"}), s.out < OutLimit(s),
              (q.op = "open" /\ q.index = s.index) \/ (q.op = "read" /\ q.index = i)
       PROVE  GetOK(q)
  <2>1. /\ IsGet(q) /\ \A f \in GetFields \ {"op", "reader", "index", "blocks"} : q[f] = s[f]
    BY <1>7, <1>11 DEF GetKept
  <2>2. /\ q.object = s.object /\ q.header = s.header /\ q.connected = s.connected
        /\ q.shutdown = s.shutdown /\ q.started = s.started /\ q.out = s.out /\ q.sent = s.sent
        /\ q.first = s.first /\ q.last = s.last /\ q.timer = s.timer /\ q.frag = s.frag
        /\ q.total = s.total /\ q.already = s.already /\ q.gone = s.gone
        /\ q.error = s.error /\ q.scheduled = s.scheduled /\ q.ended = s.ended /\ q.status = s.status
    BY <2>1 DEF GetFields
  <2>3. q.blocks = n
    BY <1>7, <1>11 DEF GetKept, GetFields
  <2>4. /\ Unit(q) = u /\ FirstBlock(q) = FirstBlock(s) /\ Span(q) = Span(s)
        /\ OutLimit(q) = OutLimit(s) /\ Requested(q) = Requested(s)
    BY <2>2 DEF Unit, FirstBlock, Span, OutLimit, Requested
  <2>5. GetTypeOK(q) /\ SentOK(q)
    BY <1>0, <2>1, <2>2, <2>4 DEF GetTypeOK, SentOK, Requested
  <2>6. q.index = (FirstBlock(q) + q.already + (IF q.op = "read" THEN q.blocks ELSE 0)) * Unit(q)
    <3>1. FirstBlock(s) \in Nat /\ s.already \in Nat /\ n \in Nat /\ u \in Nat
      <4>1. FirstBlock(s) \in Nat
        BY <1>0, <1>1, Euclid DEF FirstBlock, SentOK
      <4> QED
        BY <1>1, <1>5, <4>1 DEF Positioned
    <3>2. s.index = (FirstBlock(s) + s.already) * u
      BY DEF Positioned
    <3> DEFINE m == FirstBlock(s) + s.already
    <3>3. m \in Nat /\ m + 0 = m /\ s.index = m * u
      BY <3>1, <3>2
    <3> HIDE DEF m, u
    <3>4. (m + n) * u = (m * u) + (n * u)
      BY <3>1, <3>3, Distributes
    <3>5. CASE q.op = "open" /\ q.index = s.index
      BY <2>2, <2>4, <3>3, <3>5 DEF m, u
    <3>6. CASE q.op = "read" /\ q.index = i
      BY <1>8, <2>2, <2>3, <2>4, <3>3, <3>4, <3>6 DEF m, u
    <3> QED
      BY <1>11, <3>5, <3>6
  <2>7. InReads(q)
    BY <1>5, <1>11, <2>2, <2>3, <2>4, <2>6 DEF InReads, Positioned, Ready
  <2> QED
    BY <2>2, <2>5, <2>7 DEF GetOK, Ready, NoReplyYet
<1>12. t.index = s.index /\ o.index = t.index /\ GetKept(t, o, {"op", "reader", "index"})
  BY <1>7, <1>9 DEF GetKept, GetFields
<1>13. s.out < OutLimit(s) => GetOK(o) /\ GetOK(r)
  BY <1>9, <1>10, <1>11, <1>12
<1> QED
  BY <1>2, <1>3, <1>4, <1>6, <1>13

\* A read of some blocks in the range: fb is the first block of the range, m
\* where the range begins in it, len how much has been sent.
LEMMA Blockwise ==
    ASSUME NEW first \in Nat, NEW last \in Nat, NEW u \in Nat \ {0}, NEW total \in Nat,
           NEW already \in Nat, NEW blocks \in Nat \ {0}, already + blocks <= total,
           NEW fb \in Nat, NEW m \in Nat, m < u, first = (fb * u) + m,
           total * u >= ((last - first) + 1) + m,
           NEW len, len = IF already = 0 THEN 0 ELSE (already * u) - m,
           NEW drop, drop = IF len = 0 THEN m ELSE 0,
           NEW from, from = ((fb + already + blocks) * u) - (blocks * u)
    PROVE  /\ from \in Nat /\ len \in Nat /\ drop \in Nat /\ from + drop = first + len
           /\ blocks * u \in Nat /\ (blocks * u) - drop \in Nat \ {0}
           /\ len + ((blocks * u) - drop) = ((already + blocks) * u) - m
           /\ already + blocks = total => len + ((blocks * u) - drop) >= (last - first) + 1
<1> DEFINE x == fb * u
           y == already * u
           z == blocks * u
           w == total * u
<1>1. x \in Int /\ y \in Int /\ z \in Int /\ w \in Int
  OBVIOUS
<1>2. (fb + already + blocks) * u = (x + y) + z /\ (already + blocks) * u = y + z
  OBVIOUS
<1>3. /\ already = 0 => y = 0
      /\ already # 0 => y >= u
      /\ z >= u /\ x >= 0
  <2>1. ASSUME NEW k \in Nat \ {0} PROVE k * u >= u
    BY <2>1
  <2> QED
    BY <2>1
<1>4. already + blocks = total => w = y + z
  BY <1>2
<1>5. /\ first = x + m /\ w >= ((last - first) + 1) + m
      /\ len = (IF already = 0 THEN 0 ELSE y - m)
      /\ from = ((x + y) + z) - z
  BY <1>2
<1> HIDE DEF x, y, z, w
<1>6. len \in Nat /\ (len = 0 <=> already = 0) /\ drop \in Nat /\ drop < u
  BY <1>1, <1>3, <1>5
<1>7. from = x + y /\ from \in Nat /\ from + drop = first + len
  BY <1>1, <1>3, <1>5, <1>6
<1>8. z - drop \in Nat \ {0} /\ z \in Nat /\ len + (z - drop) = (y + z) - m
  BY <1>1, <1>3, <1>5, <1>6
<1>9. already + blocks = total => len + (z - drop) >= (last - first) + 1
  BY <1>1, <1>4, <1>5, <1>8
<1> QED
  BY <1>2, <1>6, <1>7, <1>8, <1>9 DEF z

\* The data of the blocks, without what is in front of the range and behind it.
LEMMA SliceIs ==
    ASSUME NEW from \in Nat, NEW size \in Nat, NEW n \in Nat, NEW drop \in Nat, drop <= n,
           NEW l \in Nat, l <= n - drop, from + drop + l <= size,
           NEW read, read = [k \in 1 .. n |-> IF from + k - 1 < size THEN 0 + from + k - 1 ELSE Pad]
    PROVE  LET buf == SubSeq(read, drop + 1, Len(read))
               data == SubSeq(buf, 1, l)
           IN  /\ Len(buf) = n - drop /\ data \in Seq(Int) /\ Len(data) = l
               /\ \A j \in 1 .. l : data[j] = from + drop + j - 1
<1>1. read \in Seq(Int) /\ Len(read) = n
  BY DEF Pad
<1> DEFINE buf == SubSeq(read, drop + 1, Len(read))
           data == SubSeq(buf, 1, l)
<1>2. buf \in Seq(Int) /\ Len(buf) = n - drop /\ \A j \in 1 .. (n - drop) : buf[j] = read[drop + j]
  BY <1>1
<1>3. \A j \in 1 .. l : buf[j] = from + drop + j - 1
  <2> SUFFICES ASSUME NEW j \in 1 .. l PROVE buf[j] = from + drop + j - 1
    OBVIOUS
  <2> HIDE DEF buf
  <2>1. drop + j \in 1 .. n /\ from + (drop + j) - 1 < size /\ j \in 1 .. (n - drop)
    OBVIOUS
  <2>2. read[drop + j] = 0 + from + (drop + j) - 1
    BY <2>1
  <2> QED
    BY <1>2, <2>1, <2>2
<1> HIDE DEF buf
<1>4. data \in Seq(Int) /\ Len(data) = l /\ \A j \in 1 .. l : data[j] = buf[j]
  BY <1>2
<1> QED
  BY <1>2, <1>3, <1>4 DEF buf

\* The range is the sequence of its bytes.
LEMMA Appended ==
    ASSUME NEW first \in Nat, NEW sent \in Seq(Int), NEW data \in Seq(Int),
           \A i \in 1 .. Len(sent) : sent[i] = first + i - 1,
           \A j \in 1 .. Len(data) : data[j] = first + Len(sent) + j - 1
    PROVE  /\ sent \o data \in Seq(Int) /\ Len(sent \o data) = Len(sent) + Len(data)
           /\ \A i \in 1 .. Len(sent \o data) : (sent \o data)[i] = first + i - 1
<1> DEFINE all == sent \o data
<1>1. /\ all \in Seq(Int) /\ Len(all) = Len(sent) + Len(data) /\ Len(sent) \in Nat /\ Len(data) \in Nat
      /\ \A i \in 1 .. Len(sent) : all[i] = sent[i]
      /\ \A i \in (Len(sent) + 1) .. Len(all) : all[i] = data[i - Len(sent)]
  OBVIOUS
<1> HIDE DEF all
<1>2. ASSUME NEW i \in 1 .. Len(all) PROVE all[i] = first + i - 1
  <2>1. CASE i <= Len(sent)
    BY <1>1, <2>1
  <2>2. CASE i > Len(sent)
    <3>1. i - Len(sent) \in 1 .. Len(data) /\ i \in (Len(sent) + 1) .. Len(all)
      BY <1>1, <2>2
    <3>2. data[i - Len(sent)] = first + Len(sent) + (i - Len(sent)) - 1
      BY <3>1
    <3> QED
      BY <1>1, <3>1, <3>2
  <2> QED
    BY <1>1, <2>1, <2>2
<1> QED
  BY <1>1, <1>2 DEF all

\* The blocks of a simple object's range.
LEMMA RangeFacts ==
    ASSUME SimpleGets, NEW s, GetTypeOK(s), SentOK(s), s.first <= s.last, s.total = Span(s)
    PROVE  /\ s.total \in Nat \ {0} /\ FirstBlock(s) \in Nat /\ Requested(s) \in Nat \ {0}
           /\ s.first % Unit(s) \in Nat /\ s.first % Unit(s) < Unit(s)
           /\ s.first = (FirstBlock(s) * Unit(s)) + (s.first % Unit(s))
           /\ s.total * Unit(s) >= ((s.last - s.first) + 1) + (s.first % Unit(s))
<1> DEFINE u == Unit(s)
<1>1. u \in Nat \ {0} /\ s.first \in Nat /\ s.last \in Nat
  BY SimpleFacts DEF SentOK
<1>2. s.total = ((s.last \div u) - (s.first \div u)) + 1 /\ FirstBlock(s) = s.first \div u
  BY DEF Span, FirstBlock
<1> HIDE DEF u
<1>3. /\ ((s.last \div u) - (s.first \div u)) + 1 \in Nat \ {0}
      /\ s.first \div u \in Nat /\ s.first % u \in Nat /\ s.first % u < u
      /\ (((s.last \div u) - (s.first \div u)) + 1) * u >= ((s.last - s.first) + 1) + (s.first % u)
      /\ s.first = ((s.first \div u) * u) + (s.first % u)
  BY <1>1, RangeBlocks, Zenon
<1>4. Requested(s) \in Nat \ {0}
  BY <1>1 DEF Requested
<1> QED
  BY <1>2, <1>3, <1>4, Zenon DEF u

\* Some blocks have been read.
Taken(s) ==
    /\ s.first <= s.last /\ s.last < s.object.parts[1].size /\ s.frag = 1
    /\ s.total = Span(s) /\ s.already \in Nat /\ s.already < s.total
    /\ s.blocks \in 1 .. MaxBlocks /\ s.already + s.blocks <= s.total /\ s.out < OutLimit(s)
    /\ s.index = (FirstBlock(s) + s.already + s.blocks) * Unit(s)
    /\ Len(s.sent) < Requested(s)
    /\ Len(s.sent) = IF s.already = 0 THEN 0 ELSE (s.already * Unit(s)) - (s.first % Unit(s))

LEMMA TrimmedIs ==
    ASSUME SimpleGets, NEW s, GetTypeOK(s), SentOK(s), Taken(s)
    PROVE  LET data == Trimmed(s)
           IN  /\ data \in Seq(Int) /\ Len(data) <= MaxBlocks * Unit(s)
               /\ Len(s.sent) + Len(data) <= Requested(s)
               /\ \A j \in 1 .. Len(data) : data[j] = s.first + Len(s.sent) + j - 1
               /\ Len(s.sent) + Len(data) # Requested(s) =>
                    /\ s.already + s.blocks < s.total
                    /\ Len(s.sent) + Len(data)
                         = ((s.already + s.blocks) * Unit(s)) - (s.first % Unit(s))
<1> DEFINE u == Unit(s)
           m == s.first % Unit(s)
           len == Len(s.sent)
           drop == IF len = 0 THEN m ELSE 0
           from == s.index - (s.blocks * u)
           size == s.object.parts[1].size
           n == s.blocks * u
           read == BlocksRead(s)
           req == Requested(s)
           l == IF req - len <= n - drop THEN req - len ELSE n - drop
           data == SubSeq(SubSeq(read, drop + 1, Len(read)), 1, l)
<1>1. /\ u \in Nat \ {0} /\ SimpleObject(s.object) /\ size \in Nat /\ PartStart(s.object, 1) = 0
      /\ MaxBlocks \in Nat
  BY SimpleFacts
<1>2. /\ s.total \in Nat \ {0} /\ FirstBlock(s) \in Nat /\ req \in Nat
      /\ m \in Nat /\ m < u /\ s.first = (FirstBlock(s) * u) + m
      /\ s.total * u >= ((s.last - s.first) + 1) + m
  BY RangeFacts DEF Taken
<1>3. /\ s.first \in Nat /\ s.last \in Nat /\ s.already \in Nat /\ s.blocks \in Nat \ {0}
      /\ s.blocks <= MaxBlocks /\ s.already + s.blocks <= s.total /\ s.last < size
      /\ len = (IF s.already = 0 THEN 0 ELSE (s.already * u) - m)
      /\ s.index = (FirstBlock(s) + s.already + s.blocks) * u
      /\ s.sent \in Seq(Int) /\ req = (s.last - s.first) + 1
  BY <1>1 DEF Taken, SentOK, Requested
<1>4. read = [k \in 1 .. n |-> IF from + k - 1 < size THEN 0 + from + k - 1 ELSE Pad]
  BY <1>1 DEF BlocksRead, Taken, Unit
<1> HIDE DEF u, m, read
<1>5. /\ from \in Nat /\ len \in Nat /\ drop \in Nat /\ from + drop = s.first + len
      /\ s.blocks * u \in Nat /\ (s.blocks * u) - drop \in Nat \ {0}
      /\ len + ((s.blocks * u) - drop) = ((s.already + s.blocks) * u) - m
      /\ s.already + s.blocks = s.total => len + ((s.blocks * u) - drop) >= (s.last - s.first) + 1
  <2> DEFINE fb == FirstBlock(s)
  <2>1. from = ((fb + s.already + s.blocks) * u) - (s.blocks * u)
    BY <1>3
  <2>2. fb \in Nat /\ s.first = (fb * u) + m /\ s.total \in Nat
    BY <1>2
  <2> HIDE DEF fb, from, len, drop
  <2>3. drop = IF len = 0 THEN m ELSE 0
    BY DEF drop
  <2> DEFINE f == s.first
             a == s.last
             t == s.total
             d == s.already
             b == s.blocks
  <2>4. /\ f \in Nat /\ a \in Nat /\ u \in Nat \ {0} /\ t \in Nat /\ d \in Nat /\ b \in Nat \ {0}
        /\ d + b <= t /\ fb \in Nat /\ m \in Nat /\ m < u /\ f = (fb * u) + m
        /\ t * u >= ((a - f) + 1) + m /\ len = (IF d = 0 THEN 0 ELSE (d * u) - m)
        /\ from = ((fb + d + b) * u) - (b * u)
    BY <1>1, <1>2, <1>3, <2>1, <2>2, Zenon
  <2> HIDE DEF f, a, t, d, b
  <2>5. /\ from \in Nat /\ len \in Nat /\ drop \in Nat /\ from + drop = f + len
        /\ b * u \in Nat /\ (b * u) - drop \in Nat \ {0}
        /\ len + ((b * u) - drop) = ((d + b) * u) - m
        /\ d + b = t => len + ((b * u) - drop) >= (a - f) + 1
    BY <2>3, <2>4, Blockwise
  <2> QED
    BY <2>5, Zenon DEF f, a, t, d, b
<1>6. n <= MaxBlocks * u
  BY <1>1, <1>3, TimesMonotone
<1> HIDE DEF from, n, size, req
<1>13. /\ n \in Nat /\ n - drop \in Nat \ {0} /\ from \in Nat /\ len \in Nat /\ drop \in Nat
       /\ from + drop = s.first + len
       /\ s.already + s.blocks = s.total => len + (n - drop) >= req
  BY <1>3, <1>5, Zenon DEF n
<1>q. /\ s.first \in Nat /\ s.last \in Nat /\ s.last < size /\ size \in Nat /\ req \in Nat
       /\ req = (s.last - s.first) + 1 /\ len < req
  BY <1>1, <1>2, <1>3 DEF req, Taken
<1>7. /\ l \in Nat /\ l <= n - drop /\ drop <= n /\ n \in Nat /\ len + l <= req
      /\ from + drop + l <= size /\ (len + l # req => l = n - drop)
  <2> HIDE DEF drop, len
  <2>1. CASE req - len <= n - drop
    <3>1. l = req - len
      BY <2>1
    <3> HIDE DEF l
    <3>2. l \in Nat /\ len + l = req
      BY <1>13, <1>q, <3>1
    <3>3. l <= n - drop /\ drop <= n
      BY <1>13, <2>1, <3>1
    <3>4. from + drop + l <= size
      BY <1>13, <1>q, <3>2
    <3> QED
      BY <1>13, <1>q, <3>2, <3>3, <3>4
  <2>2. CASE ~(req - len <= n - drop)
    <3>1. l = n - drop
      BY <2>2
    <3> HIDE DEF l
    <3> QED
      BY <1>13, <1>q, <2>2, <3>1
  <2> QED
    BY <2>1, <2>2
<1>8. /\ Len(SubSeq(read, drop + 1, Len(read))) = n - drop /\ data \in Seq(Int) /\ Len(data) = l
      /\ \A j \in 1 .. l : data[j] = from + drop + j - 1
  <2> HIDE DEF l, drop
  <2> QED
    BY <1>4, <1>7, <1>13, <1>q, SliceIs
<1>9. Trimmed(s) = data
  <2>1. Buffer(s) = SubSeq(read, drop + 1, Len(read))
    <3>1. s.sent = <<>> <=> len = 0
      BY <1>3
    <3> QED
      BY <3>1 DEF Buffer, read, m, u, Unit, Taken
  <2>2. s.object.extended = FALSE
    BY <1>1 DEF SimpleObject
  <2> DEFINE buf == Buffer(s)
             length == IF len + Len(buf) >= req \/ Len(buf) >= req THEN req - len ELSE Len(buf)
  <2>3. Trimmed(s) = SubSeq(buf, 1, Least(length, Len(buf)))
    BY <2>2 DEF Trimmed, req
  <2>4. Len(buf) = n - drop
    BY <1>8, <2>1
  <2> HIDE DEF buf, drop, len
  <2>5. Least(length, Len(buf)) = l
    <3> DEFINE c == n - drop
    <3>1. c \in Nat /\ len \in Nat /\ req \in Nat /\ len < req /\ Len(buf) = c
      BY <1>13, <1>q, <2>4
    <3>2. l = IF req - len <= c THEN req - len ELSE c
      OBVIOUS
    <3> HIDE DEF c, l
    <3> QED
      BY <3>1, <3>2 DEF Least
  <2> QED
    BY <2>1, <2>3, <2>5 DEF buf
<1> HIDE DEF data
<1>10. \A j \in 1 .. Len(data) : data[j] = s.first + len + j - 1
  BY <1>3, <1>5, <1>7, <1>8
<1>11. Len(data) <= MaxBlocks * u
  BY <1>1, <1>5, <1>6, <1>7, <1>8
<1>12. ASSUME len + l # req
       PROVE  s.already + s.blocks < s.total /\ len + l = ((s.already + s.blocks) * u) - m
  <2>1. l = n - drop
    BY <1>7, <1>12
  <2>2. len + l = ((s.already + s.blocks) * u) - m
    BY <1>5, <2>1 DEF n
  <2>3. s.already + s.blocks # s.total
    <3> HIDE DEF l, drop
    <3> QED
      BY <1>7, <1>12, <1>13, <1>q, <2>1
  <2>4. s.total \in Nat /\ s.already \in Nat /\ s.blocks \in Nat /\ s.already + s.blocks <= s.total
    BY <1>2, <1>3, Zenon
  <2>5. s.already + s.blocks < s.total
    BY <2>3, <2>4
  <2> QED
    BY <2>2, <2>5, Zenon
<1> QED
  BY <1>7, <1>8, <1>9, <1>10, <1>11, <1>12 DEF u, m, req

\* send_data_to_client: what it sends is the next of the range.
LEMMA SendOK ==
    ASSUME SimpleGets, NEW s, NEW e, Ready(s), Taken(s), e.fault = "none"
    PROVE  GetOK(SendDataToClient(s, e))
<1> DEFINE data == Trimmed(s)
           u == Unit(s)
           sent == s.sent \o data
           more == Len(data)
           out == s.out + (IF s.connected THEN more ELSE 0)
           status == s.status + (IF s.connected /\ ~s.started THEN 1 ELSE 0)
           obj == s.sentObj + more
           already == s.already + s.blocks
           t == [s EXCEPT !.sent = sent, !.sentObj = obj, !.already = already,
                          !.started = TRUE, !.out = out, !.status = status]
<1>0. GetTypeOK(s) /\ SentOK(s)
  BY DEF Ready
<1>1. /\ SimpleObject(s.object) /\ u \in Nat \ {0} /\ MaxBlocks * u \in Nat /\ OutLimit(s) \in Nat
  BY <1>0, SimpleFacts
<1>2. /\ data \in Seq(Int) /\ more <= MaxBlocks * u /\ Len(s.sent) + more <= Requested(s)
      /\ \A j \in 1 .. more : data[j] = s.first + Len(s.sent) + j - 1
      /\ Len(s.sent) + more # Requested(s) =>
           /\ already < s.total /\ Len(s.sent) + more = (already * u) - (s.first % u)
  BY <1>0, TrimmedIs
<1> HIDE DEF data
<1>3. /\ sent \in Seq(Int) /\ Len(sent) = Len(s.sent) + more
      /\ \A i \in 1 .. Len(sent) : sent[i] = s.first + i - 1
  BY <1>0, <1>2, Appended DEF SentOK
<1>4. /\ out \in Nat /\ out < OutLimit(s) + MaxBlocks * u /\ more \in Nat
      /\ (s.connected = FALSE => out = 0)
  <2>1. more \in Nat /\ s.out \in Nat /\ s.out < OutLimit(s)
    BY <1>0, <1>2 DEF Taken, GetTypeOK
  <2>2. s.connected = FALSE => s.out = 0
    BY <1>0 DEF GetTypeOK
  <2> HIDE DEF more, u
  <2> QED
    BY <1>1, <1>2, <2>1, <2>2
<1>5. status \in {0, 1}
  BY DEF Ready, NoReplyYet
<1>6. SendDataToClient(s, e)
        = IF s.shutdown THEN GetRollback(s)
          ELSE IF ~t.connected THEN RespondError(t)
          ELSE IF Len(t.sent) = Requested(t) THEN Respond(t)
          ELSE IF ~t.object.extended \/ t.sentObj # RequestedObjectSize(t, t.frag)
          THEN ReadObjectData(t, e)
          ELSE NextObject(t, e)
  BY DEF SendDataToClient, data
<1> HIDE DEF sent, more, out, status, obj, already
<1>7. /\ GetKept(s, t, {"sent", "sentObj", "already", "started", "out", "status"})
      /\ t.sent = sent /\ t.already = already /\ t.started = TRUE /\ t.out = out /\ t.status = status
  BY <1>0 DEF GetTypeOK, GetKept, IsGet, GetFields
<1> HIDE DEF t
<1>8. /\ IsGet(t) /\ t.object = s.object /\ t.header = s.header /\ t.connected = s.connected
      /\ t.shutdown = s.shutdown /\ t.first = s.first /\ t.last = s.last /\ t.op = s.op
      /\ t.timer = s.timer /\ t.frag = s.frag /\ t.total = s.total /\ t.index = s.index
      /\ t.gone = s.gone /\ t.error = s.error /\ t.scheduled = s.scheduled /\ t.ended = s.ended
  BY <1>7 DEF GetKept, GetFields
<1>9. /\ Unit(t) = u /\ FirstBlock(t) = FirstBlock(s) /\ Span(t) = Span(s)
      /\ OutLimit(t) = OutLimit(s) /\ Requested(t) = Requested(s)
  BY <1>8 DEF Unit, FirstBlock, Span, OutLimit, Requested
<1>10. GetTypeOK(t)
  BY <1>0, <1>4, <1>7, <1>8, <1>9 DEF GetTypeOK
<1>11. SentOK(t)
  <2>1. s.first \in Nat /\ s.last \in Nat
    BY <1>0 DEF SentOK
  <2> QED
    BY <1>2, <1>3, <1>7, <1>8, <1>9, <2>1 DEF SentOK
<1>12. Ready(t)
  BY <1>5, <1>7, <1>8, <1>10, <1>11 DEF Ready, NoReplyYet
<1>13. CASE s.shutdown
  BY <1>6, <1>13, GetRollbackOK
<1>14. CASE ~s.shutdown /\ ~t.connected
  <2>1. t.connected = FALSE
    BY <1>10, <1>14 DEF GetTypeOK
  <2> QED
    BY <1>6, <1>12, <1>14, <2>1, RespondErrorOK
<1>15. CASE ~s.shutdown /\ t.connected /\ Len(t.sent) = Requested(t)
  BY <1>6, <1>7, <1>12, <1>15, WholeOK
<1>16. CASE ~s.shutdown /\ t.connected /\ Len(t.sent) # Requested(t)
  <2>1. /\ already < s.total /\ Len(t.sent) = (already * u) - (s.first % u)
    BY <1>2, <1>3, <1>7, <1>9, <1>16
  <2>2. Len(t.sent) < Requested(t)
    <3>1. Requested(s) \in Int /\ Len(s.sent) \in Nat
      BY <1>0 DEF SentOK, Requested
    <3> QED
      BY <1>2, <1>3, <1>4, <1>7, <1>9, <1>16, <3>1
  <2>3. already \in Nat \ {0} /\ s.total \in Nat
    <3>1. s.total \in Nat /\ s.already \in Nat /\ s.blocks \in Nat \ {0}
      BY <1>0, RangeFacts DEF Taken
    <3> QED
      BY <3>1 DEF already
  <2>4. t.index = (FirstBlock(t) + t.already) * Unit(t)
    <3>1. FirstBlock(s) \in Nat /\ s.already \in Nat /\ s.blocks \in Nat
      BY <1>0, RangeFacts DEF Taken
    <3>2. FirstBlock(s) + s.already + s.blocks = FirstBlock(s) + already
      BY <3>1 DEF already
    <3> QED
      BY <1>7, <1>8, <1>9, <3>2 DEF Taken
  <2>5. Positioned(t)
    BY <1>7, <1>8, <1>9, <2>1, <2>2, <2>3, <2>4 DEF Positioned, Taken
  <2>6. SendDataToClient(s, e) = Proceed(t, e)
    <3>1. t.object.extended = FALSE
      BY <1>1, <1>8 DEF SimpleObject
    <3>2. t.already # t.total
      BY <1>7, <1>8, <2>1, <2>3
    <3> QED
      BY <1>6, <1>16, <3>1, <3>2 DEF ReadObjectData
  <2> QED
    BY <1>12, <2>5, <2>6, ProceedOK
<1> QED
  BY <1>13, <1>14, <1>15, <1>16

\* read_object: the range of the header, from its first block on.
LEMMA StartOK ==
    ASSUME SimpleGets, NEW s, GetTypeOK(s), NEW t, t = StartObject(s, 1),
           s.first \in Nat, s.last \in Nat, s.first <= s.last, s.last < s.object.parts[1].size,
           s.sent = <<>>
    PROVE  /\ GetKept(s, t, {"frag", "already", "sentObj", "total", "opened", "reader", "index"})
           /\ Positioned(t)
<1> DEFINE u == Unit(s)
           a == ReadableBlocks(s, 1)
           b == IF 1 = FirstPart(s) THEN (BlockOf(s, 1, s.first) - 1) * s.object.parts[1].unit ELSE 0
<1>1. /\ u \in Nat \ {0} /\ SimpleObject(s.object) /\ s.object.parts[1].size \in Nat
      /\ PartStart(s.object, 1) = 0 /\ ContentLength(s.object) = s.object.parts[1].size
      /\ FirstPart(s) = 1
  BY SimpleFacts
<1>2. ASSUME NEW k \in Nat
      PROVE  BlockOf(s, 1, k) = 1 + (k \div u) /\ k \div u \in Nat
  <2>1. BlockOf(s, 1, k) = (k + u) \div u
    BY <1>1, <1>2 DEF BlockOf, Unit
  <2> HIDE DEF u
  <2> QED
    BY <1>1, <1>2, <2>1, Euclid
<1>3. a = Span(s)
  <2>1. CASE IsFull(s)
    <3> DEFINE k == s.last
               z == s.object.parts[1].size
    <3>1. s.first = 0 /\ z = k + 1 /\ k \in Nat /\ a = Blocks(s.object.parts[1])
      BY <1>1, <2>1 DEF IsFull, ReadableBlocks
    <3>2. (z + u) - 1 = k + u
      BY <1>1, <3>1
    <3>3. Blocks(s.object.parts[1]) = (k + u) \div u
      <4>1. z + (u - 1) = k + u
        BY <1>1, <3>1
      <4> QED
        BY <3>2, <4>1, Zenon DEF Blocks, Unit
    <3>4. Span(s) = ((k \div u) - (0 \div u)) + 1
      BY <3>1 DEF Span, FirstBlock
    <3> HIDE DEF u, k, z, a
    <3>5. (k + u) \div u = 1 + (k \div u) /\ k \div u \in Nat /\ 0 \div u = 0
      <4>1. 0 \div u = 0
        BY <1>1
      <4>2. (k + u) \div u = 1 + (k \div u) /\ k \div u \in Nat
        BY <1>1, <3>1, Euclid, Zenon
      <4> QED
        BY <4>1, <4>2
    <3> QED
      BY <3>1, <3>3, <3>4, <3>5
  <2>2. CASE ~IsFull(s)
    <3>1. a = BlockOf(s, 1, s.last) - BlockOf(s, 1, s.first) + 1
      BY <1>1, <2>2 DEF ReadableBlocks, SimpleObject
    <3>2. Span(s) = ((s.last \div u) - (s.first \div u)) + 1
      BY DEF Span, FirstBlock
    <3> DEFINE x == s.first \div u
               y == s.last \div u
    <3>3. BlockOf(s, 1, s.last) = 1 + y /\ BlockOf(s, 1, s.first) = 1 + x /\ x \in Nat /\ y \in Nat
      BY <1>2
    <3> HIDE DEF x, y, u, a
    <3> QED
      BY <3>1, <3>2, <3>3 DEF x, y
  <2> QED
    BY <2>1, <2>2
<1>4. b = FirstBlock(s) * u /\ FirstBlock(s) \in Nat
  <2>1. b = (BlockOf(s, 1, s.first) - 1) * u
    BY <1>1 DEF Unit
  <2>2. BlockOf(s, 1, s.first) = 1 + FirstBlock(s) /\ FirstBlock(s) \in Nat
    BY <1>2 DEF FirstBlock
  <2>3. (1 + FirstBlock(s)) - 1 = FirstBlock(s)
    BY <2>2
  <2> QED
    BY <2>1, <2>2, <2>3
<1>5. t = [s EXCEPT !.frag = 1, !.already = 0, !.sentObj = 0, !.total = a,
                    !.opened = FALSE, !.reader = "start", !.index = b]
  BY DEF StartObject
<1> HIDE DEF a, b
<1>6. /\ GetKept(s, t, {"frag", "already", "sentObj", "total", "opened", "reader", "index"})
      /\ t.frag = 1 /\ t.already = 0 /\ t.total = a /\ t.index = b
  BY <1>5 DEF GetTypeOK, GetKept, IsGet, GetFields
<1>7. t.object = s.object /\ t.first = s.first /\ t.last = s.last /\ t.sent = s.sent
  BY <1>6 DEF GetKept, GetFields
<1>8. /\ Unit(t) = u /\ FirstBlock(t) = FirstBlock(s) /\ Span(t) = Span(s)
      /\ Requested(t) = Requested(s)
  BY <1>7 DEF Unit, FirstBlock, Span, Requested
<1>9. 0 < Span(s) /\ Requested(s) > 0
  <2>1. s.first \div u \in Nat /\ s.last \div u \in Nat /\ s.first \div u <= s.last \div u
    <3> HIDE DEF u
    <3> QED
      BY <1>1, Euclid, DivMonotone
  <2>2. Span(s) = ((s.last \div u) - (s.first \div u)) + 1
    BY DEF Span, FirstBlock
  <2> DEFINE x == s.first \div u
             y == s.last \div u
  <2>3. x \in Nat /\ y \in Nat /\ x <= y /\ Span(s) = (y - x) + 1
    BY <2>1, <2>2
  <2> HIDE DEF x, y
  <2>4. 0 < Span(s)
    BY <2>3
  <2> QED
    BY <2>4 DEF Requested
<1>10. Len(t.sent) = 0 /\ FirstBlock(s) + 0 = FirstBlock(s)
  BY <1>4, <1>7
<1> QED
  BY <1>3, <1>4, <1>6, <1>7, <1>8, <1>9, <1>10 DEF Positioned

\* No operation fails at its launch.
LEMMA EnvironmentIs ==
    ASSUME SimpleGets, NEW e \in Environments
    PROVE  e.fault = "none"
  BY DEF SimpleGets, Environments

LEMMA FetchKeeps ==
    ASSUME SimpleGets, GetIInv, FetchInfoEnds
    PROVE  GetIInv'
<1> DEFINE s == [get EXCEPT !.op = "none"]
           z == s.status + 1
           y == [s EXCEPT !.status = z]
           x == [s EXCEPT !.gone = TRUE]
           length == ContentLength(s.object)
           range == ReadOptions(s.header, length)
           t == [s EXCEPT !.first = range.first, !.last = range.last]
           k == [s EXCEPT !.refused = TRUE]
<1>1. GetTypeOK(get) /\ SentOK(get) /\ get.gone = FALSE /\ NoReplyYet(get) /\ Loading(get)
  BY DEF GetIInv, GetOK, FetchInfoEnds, InReads
<1>2. \/ get' = RespondError(s)
      \/ \E e \in Environments :
           get' = IF s.shutdown THEN GetRollback(s)
                  ELSE IF ~s.connected THEN x
                  ELSE ValidateObjectInfo(s, e)
  BY DEF FetchInfoEnds
<1>3. ASSUME NEW e PROVE ValidateObjectInfo(s, e) =
        IF length = 0 THEN Respond(y)
        ELSE IF ~range.valid THEN RespondError(k)
        ELSE Proceed(StartObject(t, FirstPart(t)), e)
  BY DEF ValidateObjectInfo
<1>4. GetKept(get, s, {"op"}) /\ s.op = "none"
  BY <1>1 DEF GetTypeOK, GetKept, IsGet, GetFields
<1> HIDE DEF s, z
<1>5. /\ IsGet(s) /\ s.object = get.object /\ s.header = get.header /\ s.connected = get.connected
      /\ s.shutdown = get.shutdown /\ s.started = get.started /\ s.out = get.out
      /\ s.sent = get.sent /\ s.first = get.first /\ s.last = get.last /\ s.timer = get.timer
      /\ s.gone = get.gone /\ s.error = get.error /\ s.scheduled = get.scheduled
      /\ s.ended = get.ended /\ s.status = get.status /\ s.reader = get.reader
  BY <1>4 DEF GetKept, GetFields
<1>6. Ready(s) /\ s.status = 0 /\ s.reader = "start" /\ s.sent = <<>> /\ s.started = FALSE
  BY <1>1, <1>4, <1>5
     DEF Ready, GetTypeOK, SentOK, Requested, OutLimit, Unit, NoReplyYet, Loading
<1>7. GetOK(RespondError(s)) /\ GetOK(GetRollback(s))
  BY <1>6, RespondErrorOK, GetRollbackOK
<1>8. GetOK(x)
  <2>1. GetKept(s, x, {"gone"}) /\ x.gone = TRUE
    BY <1>5 DEF GetKept, IsGet, GetFields
  <2> HIDE DEF x
  <2>2. GetKept(s, x, Replies) /\ x.status = s.status /\ x.ended = s.ended
    BY <2>1 DEF GetKept, GetFields, Replies
  <2>3. /\ GetTypeOK(x) /\ SentOK(x) /\ x.op = s.op /\ x.timer = s.timer /\ x.reader = s.reader
    BY <1>6, <2>2, ReplyKeeps DEF Ready
  <2> QED
    BY <1>6, <2>1, <2>2, <2>3 DEF GetOK, Answered, Ready, NoReplyYet
<1>9. length = 0 => GetOK(Respond(y))
  <2>1. GetKept(s, y, {"status"}) /\ y.status = z
    BY <1>5 DEF GetKept, IsGet, GetFields
  <2> HIDE DEF y
  <2>2. /\ GetKept(s, y, Replies) /\ y.ended = s.ended /\ y.error = s.error
        /\ y.scheduled = s.scheduled /\ y.gone = s.gone /\ y.object = s.object
    BY <2>1 DEF GetKept, GetFields, Replies
  <2>3. /\ GetTypeOK(y) /\ SentOK(y) /\ y.op = s.op /\ y.timer = s.timer /\ y.reader = s.reader
        /\ y.sent = s.sent /\ y.connected = s.connected
    BY <1>6, <2>2, ReplyKeeps DEF Ready
  <2>4. z = 1
    BY <1>6 DEF z
  <2> DEFINE q == Respond(y)
  <2>5. ASSUME length = 0
        PROVE  /\ GetKept(y, q, {"status", "ended", "gone"}) /\ q.gone = TRUE
               /\ q.ended \in {0, 1} /\ q.status = 1
    <3>1. /\ y.scheduled = FALSE /\ y.error = FALSE /\ ContentLength(y.object) = 0 /\ y.ended = 0
          /\ y.status = 1 /\ IsGet(y)
      BY <1>6, <2>1, <2>2, <2>3, <2>4, <2>5 DEF Ready, NoReplyYet, GetTypeOK
    <3> DEFINE new == IF y.scheduled THEN ~y.started
                      ELSE \/ y.error
                           \/ ContentLength(y.object) > 0 /\ y.reader # "success" /\ ~y.started
               one == IF y.connected THEN 1 ELSE 0
    <3>2. /\ GetKept(y, q, {"status", "ended", "gone"}) /\ q.gone = TRUE
          /\ q.ended = y.ended + one /\ q.status = y.status + (IF new THEN one ELSE 0)
      BY <3>1, RespondIs
    <3>3. new = FALSE /\ one \in {0, 1}
      BY <3>1
    <3> HIDE DEF new, one, q
    <3> QED
      BY <3>1, <3>2, <3>3
  <2> HIDE DEF q
  <2>6. ASSUME length = 0 PROVE GetOK(q)
    <3>1. GetKept(y, q, Replies)
      BY <2>5, <2>6 DEF GetKept, Replies
    <3>2. /\ GetTypeOK(q) /\ SentOK(q) /\ q.op = y.op /\ q.timer = y.timer /\ q.reader = y.reader
      BY <2>3, <3>1, ReplyKeeps
    <3> QED
      BY <1>6, <2>3, <2>5, <2>6, <3>2 DEF GetOK, Answered, Ready
  <2> QED
    BY <2>6 DEF q
<1>10. ASSUME NEW e \in Environments, range.valid
       PROVE  GetOK(Proceed(StartObject(t, FirstPart(t)), e))
  <2> DEFINE f == range.first
             l == range.last
  <2>1. /\ f \in Nat /\ l \in Nat /\ f <= l /\ l < s.object.parts[1].size
    <3>1. /\ s.header.a \in Nat /\ s.header.b \in Nat /\ SizeT \in Nat \ {0}
      BY <1>1, <1>5 DEF SimpleGets, RangeFits, GetTypeOK
    <3>2. length \in Nat /\ length = s.object.parts[1].size
      BY <1>6, SimpleFacts DEF Ready
    <3>3. (length - s.header.b) % SizeT \in Nat
      BY <3>1, <3>2
    <3>4. FirstByte(s.header, length) \in Nat
      BY <3>1, <3>3 DEF FirstByte
    <3>5. f < length /\ f <= l /\ f \in Nat
      BY <1>10, <3>4 DEF ReadOptions
    <3>6. l \in {Least(s.header.b, length - 1), length - 1}
      BY DEF ReadOptions
    <3> HIDE DEF f, l, length
    <3> QED
      BY <3>1, <3>2, <3>5, <3>6 DEF Least
  <2>2. t = [s EXCEPT !.first = f, !.last = l]
    OBVIOUS
  <2> HIDE DEF f, l
  <2>3. GetKept(s, t, {"first", "last"}) /\ t.first = f /\ t.last = l
    BY <1>5, <2>2 DEF GetKept, IsGet, GetFields
  <2> HIDE DEF t
  <2>4. /\ IsGet(t) /\ t.object = s.object /\ t.header = s.header /\ t.connected = s.connected
        /\ t.shutdown = s.shutdown /\ t.started = s.started /\ t.out = s.out
        /\ t.sent = s.sent /\ t.timer = s.timer /\ t.op = s.op
        /\ t.gone = s.gone /\ t.error = s.error /\ t.scheduled = s.scheduled
        /\ t.ended = s.ended /\ t.status = s.status
    BY <2>3 DEF GetKept, GetFields
  <2>5. GetTypeOK(t)
    BY <1>6, <2>4 DEF Ready, GetTypeOK, OutLimit, Unit
  <2> DEFINE q == StartObject(t, 1)
  <2>6. FirstPart(t) = 1
    BY <2>5, SimpleFacts
  <2>7. /\ GetKept(t, q, {"frag", "already", "sentObj", "total", "opened", "reader", "index"})
        /\ Positioned(q)
    BY <1>6, <2>1, <2>3, <2>4, <2>5, StartOK
  <2> HIDE DEF q
  <2>8. /\ IsGet(q) /\ q.object = t.object /\ q.header = t.header /\ q.connected = t.connected
        /\ q.shutdown = t.shutdown /\ q.started = t.started /\ q.out = t.out
        /\ q.sent = t.sent /\ q.timer = t.timer /\ q.op = t.op
        /\ q.gone = t.gone /\ q.error = t.error /\ q.scheduled = t.scheduled
        /\ q.ended = t.ended /\ q.status = t.status /\ q.first = t.first /\ q.last = t.last
    BY <2>7 DEF GetKept, GetFields
  <2>9. GetTypeOK(q)
    BY <2>5, <2>8 DEF GetTypeOK, OutLimit, Unit
  <2>10. SentOK(q)
    <3>1. q.sent = <<>> /\ q.first \in Nat /\ q.last \in Nat /\ q.first <= q.last
      BY <1>6, <2>1, <2>3, <2>4, <2>8
    <3> QED
      BY <3>1 DEF SentOK, Requested
  <2>11. Ready(q)
    BY <1>6, <2>4, <2>8, <2>9, <2>10 DEF Ready, NoReplyYet
  <2>12. GetOK(Proceed(q, e))
    BY <1>10, <2>7, <2>11, EnvironmentIs, ProceedOK
  <2> QED
    BY <2>6, <2>12 DEF q
<1>13. GetOK(RespondError(k))
  <2>1. GetKept(s, k, {"refused"})
    BY <1>5 DEF GetKept, IsGet, GetFields
  <2> HIDE DEF k
  <2>2. /\ GetKept(s, k, Replies) /\ k.ended = s.ended /\ k.error = s.error /\ k.status = s.status
        /\ k.scheduled = s.scheduled /\ k.gone = s.gone /\ k.started = s.started
    BY <2>1 DEF GetKept, GetFields, Replies
  <2>3. /\ GetTypeOK(k) /\ SentOK(k) /\ k.op = s.op /\ k.timer = s.timer
    BY <1>6, <2>2, ReplyKeeps DEF Ready
  <2>4. Ready(k) /\ k.status = 0
    BY <1>6, <2>2, <2>3 DEF Ready, NoReplyYet
  <2> QED
    BY <2>4, RespondErrorOK
<1> HIDE DEF k
<1>11. ASSUME NEW e \in Environments PROVE GetOK(ValidateObjectInfo(s, e))
  BY <1>3, <1>9, <1>10, <1>11, <1>13
<1> HIDE DEF x
<1>12. GetOK(get')
  BY <1>2, <1>7, <1>8, <1>11
<1> QED
  BY <1>12 DEF GetIInv

\* What an operation finds that ends.
LEMMA UnderWay ==
    ASSUME GetIInv, get.gone = FALSE, get.op # "load"
    PROVE  /\ GetTypeOK(get) /\ SentOK(get) /\ NoReplyYet(get)
           /\ get.op \in {"open", "read", "posted"} \/ get.timer => InReads(get)
  BY DEF GetIInv, GetOK, Loading

\* Ready again when the operation is over.
LEMMA OverIsReady ==
    ASSUME NEW s, GetTypeOK(s), SentOK(s), NoReplyYet(s), s.gone = FALSE,
           NEW t, GetKept(s, t, {"op", "timer", "opened", "reader"}), t.op = "none", t.timer = FALSE
    PROVE  Ready(t)
<1>1. /\ IsGet(t) /\ t.object = s.object /\ t.header = s.header /\ t.connected = s.connected
      /\ t.shutdown = s.shutdown /\ t.started = s.started /\ t.out = s.out /\ t.sent = s.sent
      /\ t.first = s.first /\ t.last = s.last /\ t.gone = s.gone
      /\ t.error = s.error /\ t.scheduled = s.scheduled /\ t.ended = s.ended /\ t.status = s.status
  BY DEF GetKept, GetFields
<1> QED
  BY <1>1 DEF Ready, GetTypeOK, SentOK, Requested, OutLimit, Unit, NoReplyYet

\* The open object is read, or will be told that its read was not launched.
LEMMA OpenKeeps ==
    ASSUME SimpleGets, GetIInv, OpenEnds
    PROVE  GetIInv'
<1> DEFINE s == [get EXCEPT !.op = "none"]
           t == [s EXCEPT !.opened = TRUE]
           w == [t EXCEPT !.reader = "ooo"]
           f == [s EXCEPT !.reader = "failed"]
           p == [t EXCEPT !.reader = "launch", !.op = "posted"]
           i == t.index + t.blocks * t.object.parts[t.frag].unit
           r == [t EXCEPT !.op = "read", !.reader = "reading", !.index = i]
<1>1. /\ GetTypeOK(get) /\ SentOK(get) /\ NoReplyYet(get) /\ InReads(get) /\ get.gone = FALSE
      /\ get.op = "open" /\ get.timer = FALSE
  <2>1. get.gone = FALSE /\ get.op = "open"
    BY DEF OpenEnds, GetIInv, GetOK
  <2> QED
    BY <2>1, UnderWay DEF InReads
<1>2. \/ get' = r \/ get' = ReadObjectDataFailed(w) \/ get' = p \/ get' = ReadObjectDataFailed(f)
  BY DEF OpenEnds, LaunchRead
<1>3. /\ GetKept(get, w, {"op", "timer", "opened", "reader"}) /\ w.op = "none" /\ w.timer = FALSE
      /\ w.reader = "ooo"
  BY <1>1 DEF GetTypeOK, GetKept, IsGet, GetFields
<1>4. /\ GetKept(get, f, {"op", "timer", "opened", "reader"}) /\ f.op = "none" /\ f.timer = FALSE
      /\ f.reader = "failed"
  BY <1>1 DEF GetTypeOK, GetKept, IsGet, GetFields
<1>5. GetKept(get, p, {"op", "opened", "reader"}) /\ p.op = "posted"
  BY <1>1 DEF GetTypeOK, GetKept, IsGet, GetFields
<1>6. GetKept(get, t, {"op", "opened"})
  BY <1>1 DEF GetTypeOK, GetKept, IsGet, GetFields
<1> HIDE DEF t, w, f, p
<1>7. i = get.index + get.blocks * Unit(get)
  BY <1>1, <1>6 DEF GetKept, GetFields, InReads, Unit
<1> HIDE DEF i
<1>8. GetKept(get, r, {"op", "opened", "reader", "index"}) /\ r.op = "read" /\ r.index = i
  BY <1>6 DEF GetKept, IsGet, GetFields
<1> HIDE DEF r
<1>9. GetOK(ReadObjectDataFailed(w)) /\ GetOK(ReadObjectDataFailed(f))
  BY <1>1, <1>3, <1>4, OverIsReady, ReadFailedOK
<1>10. ASSUME NEW q, GetKept(get, q, {"op", "opened", "reader", "index"}),
              (q.op = "posted" /\ q.index = get.index) \/ (q.op = "read" /\ q.index = i)
       PROVE  GetOK(q)
  <2>1. /\ IsGet(q) /\ q.object = get.object /\ q.header = get.header /\ q.connected = get.connected
        /\ q.shutdown = get.shutdown /\ q.started = get.started /\ q.out = get.out
        /\ q.sent = get.sent /\ q.first = get.first /\ q.last = get.last /\ q.timer = get.timer
        /\ q.frag = get.frag /\ q.total = get.total /\ q.already = get.already
        /\ q.blocks = get.blocks /\ q.gone = get.gone /\ q.error = get.error
        /\ q.scheduled = get.scheduled /\ q.ended = get.ended /\ q.status = get.status
    BY <1>10 DEF GetKept, GetFields
  <2>2. /\ Unit(q) = Unit(get) /\ FirstBlock(q) = FirstBlock(get) /\ Span(q) = Span(get)
        /\ OutLimit(q) = OutLimit(get) /\ Requested(q) = Requested(get)
    BY <2>1 DEF Unit, FirstBlock, Span, OutLimit, Requested
  <2>3. GetTypeOK(q) /\ SentOK(q)
    BY <1>1, <2>1, <2>2 DEF GetTypeOK, SentOK
  <2>4. q.index = (FirstBlock(q) + q.already + (IF q.op = "read" THEN q.blocks ELSE 0)) * Unit(q)
    <3> DEFINE fb == FirstBlock(get)
               a == get.already
               n == get.blocks
               u == Unit(get)
               m == (fb + a) + 0
    <3>1. fb \in Nat /\ a \in Nat /\ n \in Nat /\ u \in Nat
      <4>1. fb \in Nat
        BY <1>1, RangeFacts DEF InReads
      <4>2. u \in Nat
        BY <1>1, SimpleFacts
      <4> QED
        BY <1>1, <4>1, <4>2, BlocksAssumption DEF InReads
    <3>2. get.index = m * u
      BY <1>1 DEF InReads
    <3>3. /\ q.already = a /\ q.blocks = n /\ FirstBlock(q) = fb /\ Unit(q) = u /\ i = get.index + (n * u)
      BY <1>7, <2>1, <2>2
    <3> HIDE DEF fb, a, n, u
    <3>4. m \in Nat /\ m + n = (fb + a) + n
      BY <3>1
    <3> HIDE DEF m
    <3>5. (m + n) * u = (m * u) + (n * u)
      BY <3>1, <3>4, Distributes
    <3>6. CASE q.op = "posted" /\ q.index = get.index
      BY <3>2, <3>3, <3>6 DEF m
    <3>7. CASE q.op = "read" /\ q.index = i
      BY <3>2, <3>3, <3>4, <3>5, <3>7
    <3> QED
      BY <1>10, <3>6, <3>7
  <2>5. InReads(q)
    BY <1>1, <1>10, <2>1, <2>2, <2>4 DEF InReads
  <2> QED
    BY <1>1, <2>1, <2>3, <2>5 DEF GetOK, NoReplyYet
<1>11. GetOK(p) /\ GetOK(r)
  <2>1. /\ GetKept(get, p, {"op", "opened", "reader", "index"}) /\ p.index = get.index
    BY <1>5 DEF GetKept, GetFields
  <2> QED
    BY <1>5, <1>8, <1>10, <2>1
<1>12. GetOK(get')
  BY <1>2, <1>9, <1>11
<1> QED
  BY <1>12 DEF GetIInv

LEMMA ReadKeeps ==
    ASSUME SimpleGets, GetIInv, ReadEnds \/ PostedFailure
    PROVE  GetIInv'
<1> DEFINE s == [get EXCEPT !.op = "none"]
           f == [s EXCEPT !.reader = "failed"]
           g == [s EXCEPT !.reader = "success"]
           h == [get EXCEPT !.op = "none", !.reader = "failed"]
<1>1. /\ GetTypeOK(get) /\ SentOK(get) /\ NoReplyYet(get) /\ InReads(get) /\ get.gone = FALSE
      /\ get.timer = FALSE
  <2>1. get.gone = FALSE /\ get.op \in {"read", "posted"}
    BY DEF ReadEnds, PostedFailure, GetIInv, GetOK
  <2> QED
    BY <2>1, UnderWay DEF InReads
<1>2. \/ get' = ReadObjectDataFailed(f)
      \/ get.op = "read" /\ \E e \in Environments : get' = SendDataToClient(g, e)
      \/ get' = ReadObjectDataFailed(h)
  BY DEF ReadEnds, PostedFailure
<1>3. /\ GetKept(get, f, {"op", "timer", "opened", "reader"}) /\ f.op = "none" /\ f.timer = FALSE
      /\ f.reader = "failed"
  BY <1>1 DEF GetTypeOK, GetKept, IsGet, GetFields
<1>4. /\ GetKept(get, g, {"op", "timer", "opened", "reader"}) /\ g.op = "none" /\ g.timer = FALSE
  BY <1>1 DEF GetTypeOK, GetKept, IsGet, GetFields
<1>5. /\ GetKept(get, h, {"op", "timer", "opened", "reader"}) /\ h.op = "none" /\ h.timer = FALSE
      /\ h.reader = "failed"
  BY <1>1 DEF GetTypeOK, GetKept, IsGet, GetFields
<1> HIDE DEF f, g, h
<1>6. GetOK(ReadObjectDataFailed(f)) /\ GetOK(ReadObjectDataFailed(h))
  BY <1>1, <1>3, <1>5, OverIsReady, ReadFailedOK
<1>7. Ready(g)
  BY <1>1, <1>4, OverIsReady
<1>8. get.op = "read" => Taken(g)
  <2>1. /\ g.object = get.object /\ g.first = get.first /\ g.last = get.last /\ g.frag = get.frag
        /\ g.total = get.total /\ g.already = get.already /\ g.blocks = get.blocks
        /\ g.index = get.index /\ g.sent = get.sent /\ g.out = get.out
    BY <1>4 DEF GetKept, GetFields
  <2>2. /\ Unit(g) = Unit(get) /\ FirstBlock(g) = FirstBlock(get) /\ Span(g) = Span(get)
        /\ OutLimit(g) = OutLimit(get) /\ Requested(g) = Requested(get)
    BY <2>1 DEF Unit, FirstBlock, Span, OutLimit, Requested
  <2> QED
    BY <1>1, <2>1, <2>2 DEF InReads, Taken
<1>9. ASSUME NEW e \in Environments, get.op = "read" PROVE GetOK(SendDataToClient(g, e))
  BY <1>7, <1>8, <1>9, EnvironmentIs, SendOK
<1>10. GetOK(get')
  BY <1>2, <1>6, <1>9
<1> QED
  BY <1>10 DEF GetIInv

LEMMA ResumeKeeps ==
    ASSUME SimpleGets, GetIInv, ResumeActionStep
    PROVE  GetIInv'
<1> DEFINE s == [get EXCEPT !.timer = FALSE]
<1>1. /\ GetTypeOK(get) /\ SentOK(get) /\ NoReplyYet(get) /\ InReads(get) /\ get.gone = FALSE
      /\ get.op = "none"
  <2>1. get.gone = FALSE /\ get.timer /\ get.op # "load"
    BY DEF ResumeActionStep, GetIInv, GetOK, Loading, InReads
  <2> QED
    BY <2>1, UnderWay DEF InReads
<1>2. PICK e \in Environments : get' = ReadObjectData(s, e)
  BY DEF ResumeActionStep
<1>3. GetKept(get, s, {"timer"}) /\ s.timer = FALSE
  BY <1>1 DEF GetTypeOK, GetKept, IsGet, GetFields
<1> HIDE DEF s
<1>4. /\ s.object = get.object /\ s.first = get.first /\ s.last = get.last /\ s.frag = get.frag
      /\ s.total = get.total /\ s.already = get.already /\ s.op = get.op
      /\ s.index = get.index /\ s.sent = get.sent
  BY <1>3 DEF GetKept, GetFields
<1>5. Ready(s)
  <2>1. GetKept(get, s, {"op", "timer", "opened", "reader"})
    BY <1>3 DEF GetKept
  <2> QED
    BY <1>1, <1>3, <1>4, <2>1, OverIsReady
<1>6. /\ Unit(s) = Unit(get) /\ FirstBlock(s) = FirstBlock(get) /\ Span(s) = Span(get)
      /\ Requested(s) = Requested(get)
  BY <1>4 DEF Unit, FirstBlock, Span, Requested
<1>7. s.total \in Nat /\ FirstBlock(s) \in Nat
  BY <1>1, <1>4, <1>6, RangeFacts DEF InReads
<1>8. Positioned(s)
  <2>1. (FirstBlock(s) + s.already) + 0 = FirstBlock(s) + s.already
    BY <1>1, <1>4, <1>7 DEF InReads
  <2> QED
    BY <1>1, <1>4, <1>6, <2>1 DEF InReads, Positioned
<1>9. s.already # s.total
  BY <1>7, <1>8 DEF Positioned
<1>10. GetOK(get')
  BY <1>2, <1>5, <1>8, <1>9, EnvironmentIs, ProceedOK DEF ReadObjectData
<1> QED
  BY <1>10 DEF GetIInv

\* The client, and the server's shutdown.
LEMMA AroundKeeps ==
    ASSUME SimpleGets, GetIInv, ClientTakes \/ ReaderLeaves \/ GetShutdownBegins \/ UNCHANGED get
    PROVE  GetIInv'
<1>1. GetTypeOK(get) /\ SentOK(get)
  BY DEF GetIInv, GetOK
<1>2. /\ GetKept(get, get', {"out", "connected", "shutdown"})
      /\ get'.out \in Nat /\ get'.out <= get.out /\ get'.connected \in BOOLEAN
      /\ get'.shutdown \in BOOLEAN /\ (get'.connected = FALSE => get'.out = 0)
  <2>1. CASE ClientTakes
    <3>1. PICK n \in 1 .. get.out : get' = [get EXCEPT !.out = @ - n]
      BY <2>1 DEF ClientTakes
    <3> DEFINE m == get.out - n
    <3>2. m \in Nat /\ m <= get.out /\ get.connected = TRUE
      BY <1>1, <2>1 DEF GetTypeOK, ClientTakes
    <3> HIDE DEF m
    <3>3. get' = [get EXCEPT !.out = m]
      BY <3>1 DEF m
    <3> QED
      BY <1>1, <3>2, <3>3 DEF GetKept, IsGet, GetFields, GetTypeOK
  <2>2. CASE ReaderLeaves
    <3>1. /\ GetKept(get, get', {"out", "connected", "shutdown"})
          /\ get'.out = 0 /\ get'.connected = FALSE /\ get'.shutdown = get.shutdown
      BY <1>1, <2>2 DEF ReaderLeaves, GetKept, IsGet, GetFields, GetTypeOK
    <3>2. get'.out \in Nat /\ get'.out <= get.out
      BY <1>1, <3>1 DEF GetTypeOK
    <3>3. /\ get'.connected \in BOOLEAN /\ get'.shutdown \in BOOLEAN
          /\ (get'.connected = FALSE => get'.out = 0)
      BY <1>1, <3>1, Zenon DEF GetTypeOK
    <3> QED
      BY <3>1, <3>2, <3>3, Zenon
  <2>3. CASE GetShutdownBegins
    <3>1. /\ GetKept(get, get', {"out", "connected", "shutdown"})
          /\ get'.out = get.out /\ get'.connected = get.connected /\ get'.shutdown = TRUE
      BY <1>1, <2>3 DEF GetShutdownBegins, GetKept, IsGet, GetFields, GetTypeOK
    <3>2. get'.out \in Nat /\ get'.out <= get.out
      BY <1>1, <3>1 DEF GetTypeOK
    <3>3. /\ get'.connected \in BOOLEAN /\ get'.shutdown \in BOOLEAN
          /\ (get'.connected = FALSE => get'.out = 0)
      BY <1>1, <3>1, Zenon DEF GetTypeOK
    <3> QED
      BY <3>1, <3>2, <3>3, Zenon
  <2>4. CASE UNCHANGED get
    BY <1>1, <2>4 DEF GetKept, GetTypeOK
  <2> QED
    BY <2>1, <2>2, <2>3, <2>4
<1> DEFINE q == get'
<1>3. /\ IsGet(q) /\ q.object = get.object /\ q.header = get.header /\ q.started = get.started
      /\ q.sent = get.sent /\ q.first = get.first /\ q.last = get.last /\ q.timer = get.timer
      /\ q.frag = get.frag /\ q.total = get.total /\ q.already = get.already /\ q.op = get.op
      /\ q.blocks = get.blocks /\ q.gone = get.gone /\ q.error = get.error /\ q.index = get.index
      /\ q.scheduled = get.scheduled /\ q.ended = get.ended /\ q.status = get.status
      /\ q.reader = get.reader
  BY <1>2 DEF GetKept, GetFields
<1>4. q.out \in Nat /\ q.out <= get.out /\ get.out \in Nat
  BY <1>1, <1>2 DEF GetTypeOK
<1> HIDE DEF q
<1>5. /\ Unit(q) = Unit(get) /\ FirstBlock(q) = FirstBlock(get) /\ Span(q) = Span(get)
      /\ OutLimit(q) = OutLimit(get) /\ Requested(q) = Requested(get)
  BY <1>3 DEF Unit, FirstBlock, Span, OutLimit, Requested
<1>6. /\ OutLimit(get) \in Nat /\ MaxBlocks * Unit(get) \in Nat
  BY <1>1, SimpleFacts
<1>7. GetTypeOK(q)
  <2>1. q.out < OutLimit(q) + MaxBlocks * Unit(q)
    <3> DEFINE x == MaxBlocks * Unit(get)
    <3>1. get.out < OutLimit(get) + x /\ x \in Nat
      BY <1>1, <1>6 DEF GetTypeOK
    <3> HIDE DEF x
    <3>2. q.out < OutLimit(get) + x
      BY <1>4, <1>6, <3>1
    <3> QED
      BY <1>5, <3>2 DEF x
  <2> QED
    BY <1>1, <1>2, <1>3, <2>1 DEF GetTypeOK, q
<1>8. SentOK(q)
  BY <1>1, <1>3, <1>5 DEF SentOK
<1>9. NoReplyYet(get) => NoReplyYet(q)
  BY <1>3 DEF NoReplyYet
<1>10. (Answered(get) => Answered(q)) /\ (Loading(get) => Loading(q))
  BY <1>3, <1>5 DEF Answered, Loading
<1>11. InReads(get) => InReads(q)
  <2>1. get.out < OutLimit(get) => q.out < OutLimit(q)
    BY <1>4, <1>5, <1>6
  <2> QED
    BY <1>3, <1>5, <2>1 DEF InReads
<1>12. GetOK(q)
  BY <1>3, <1>7, <1>8, <1>9, <1>10, <1>11 DEF GetIInv, GetOK
<1> QED
  BY <1>12 DEF GetIInv, q

\* Between the events of a GET of a simple object, the blocks it has taken are
\* those of the bytes it has sent and the blocks that are left hold the rest of
\* the range; until the action is gone nothing has been answered to the end.
THEOREM GetInvariantHolds == SimpleGets /\ GetSpec => []GetIInv
<1> SUFFICES ASSUME SimpleGets PROVE GetSpec => []GetIInv
  OBVIOUS
<1>1. GetInit => GetIInv
  <2> SUFFICES ASSUME NEW o \in Stored, NEW h \in Headers, get = NewGet(o, h)
               PROVE  GetIInv
    BY DEF GetInit
  <2>1. /\ IsGet(get) /\ get.object = o /\ get.header = h /\ get.connected = TRUE
        /\ get.shutdown = FALSE /\ get.started = FALSE /\ get.out = 0 /\ get.sent = <<>>
        /\ get.first = 0 /\ get.last = 0 /\ get.gone = FALSE /\ get.error = FALSE
        /\ get.scheduled = FALSE /\ get.ended = 0 /\ get.status = 0 /\ get.op = "load"
        /\ get.timer = FALSE /\ get.reader = "start"
    BY DEF NewGet, IsGet, GetFields
  <2>2. get.out < OutLimit(get) + MaxBlocks * Unit(get)
    <3> DEFINE u == o.parts[1].unit
    <3>1. u \in Nat \ {0}
      BY DEF SimpleGets, SimpleObject
    <3>2. ASSUME NEW a \in Nat \ {0}, NEW b \in Nat \ {0} PROVE a * b \in Nat \ {0}
      BY <3>2
    <3> HIDE DEF u
    <3>3. OutMultiple * MaxBlocks \in Nat \ {0} /\ MaxBlocks * u \in Nat \ {0}
      BY <3>1, <3>2, BlocksAssumption, OutMultipleAssumption
    <3>4. OutMultiple * MaxBlocks * u \in Nat \ {0}
      BY <3>1, <3>2, <3>3
    <3> DEFINE x == MaxBlocks * u
               y == OutMultiple * MaxBlocks * u
    <3>5. x \in Nat \ {0} /\ y \in Nat \ {0}
      BY <3>3, <3>4
    <3> HIDE DEF x, y
    <3>6. 0 < y + x
      BY <3>5
    <3> QED
      BY <2>1, <3>6 DEF OutLimit, Unit, u, x, y
  <2>3. GetTypeOK(get)
    <3>1. 0 \in Nat /\ TRUE # FALSE
      OBVIOUS
    <3>2. /\ get.object \in Stored /\ get.header \in Headers /\ get.out \in Nat
          /\ get.connected \in BOOLEAN /\ get.shutdown \in BOOLEAN /\ get.started \in BOOLEAN
          /\ (get.connected = FALSE => get.out = 0)
      BY <2>1, <3>1, Zenon
    <3> QED
      BY <2>1, <2>2, <3>2, Zenon DEF GetTypeOK
  <2>4. SentOK(get)
    BY <2>1 DEF SentOK, Requested
  <2> QED
    BY <2>1, <2>3, <2>4 DEF GetIInv, GetOK, NoReplyYet, Loading
<1>2. GetIInv /\ [GetNext]_get => GetIInv'
  BY FetchKeeps, OpenKeeps, ReadKeeps, ResumeKeeps, AroundKeeps DEF GetNext
<1> QED
  BY <1>1, <1>2, PTL DEF GetSpec

\* send_data_to_client, read_object_data_failed and send_response_to_s3_client:
\* the client of a simple object gets the bytes of its range, in order, from
\* the first on; a reply that ends without an error holds them all; and there
\* is one status line and one end, whatever fails, and whenever the client
\* leaves or the server shuts down.  For every size of the object and of its
\* units, every header, and every limit of a read and of the write buffer.
THEOREM ReplyIsAlwaysRight == SimpleGets /\ GetSpec => []ReplyIsRight
<1> SUFFICES ASSUME SimpleGets PROVE GetSpec => []ReplyIsRight
  OBVIOUS
<1>1. GetIInv => ReplyIsRight
  <2> SUFFICES ASSUME GetIInv PROVE ReplyIsRight
    OBVIOUS
  <2>1. SentIsRequested
    BY DEF GetIInv, GetOK, SentOK, SentIsRequested
  <2>2. EndIsWhole
    BY DEF GetIInv, GetOK, Answered, NoReplyYet, EndIsWhole
  <2>3. AnsweredOnce
    BY DEF GetIInv, GetOK, Answered, NoReplyYet, AnsweredOnce
  <2> QED
    BY <2>1, <2>2, <2>3 DEF ReplyIsRight
<1> QED
  BY <1>1, GetInvariantHolds, PTL

-----------------------------------------------------------------------------
(* Where the parts of an object begin.                                     *)

\* The element that a fold takes first.
AnyOf(s) == CHOOSE x \in s : TRUE

\* g gives the sizes of sets of parts, as the fold of PartStart takes them.
IsSize(D, parts, g) ==
    g = [s \in SUBSET D |-> IF s = {} THEN 0 ELSE parts[AnyOf(s)].size + g[s \ {AnyOf(s)}]]

\* A set of natural numbers has a least one.
LEMMA LeastNumber ==
    ASSUME NEW T \in SUBSET Nat, T # {}
    PROVE  \E x \in T : \A y \in T : x <= y
<1>1. PICK x \in T : \A y \in T : ~(<<y, x>> \in OpToRel(<, Nat))
  BY NatLessThanWellFounded, WFMin, Zenon
<1>2. \A y \in T : ~(y < x)
  BY <1>1, Zenon DEF OpToRel
<1> QED
  BY <1>2

\* What holds of a finite set as soon as it holds of all smaller ones holds of
\* all.
LEMMA SmallerSets ==
    ASSUME NEW D, IsFiniteSet(D), NEW T \in SUBSET SUBSET D,
           \A s \in SUBSET D : (\A r \in SUBSET s : r # s => r \in T) => s \in T
    PROVE  T = SUBSET D
<1> DEFINE Rest == (SUBSET D) \ T
           Sizes == {Cardinality(s) : s \in Rest}
<1>1. SUFFICES ASSUME Rest # {} PROVE FALSE
  OBVIOUS
<1>2. \A s \in SUBSET D : IsFiniteSet(s) /\ Cardinality(s) \in Nat
  BY FS_Subset, FS_CardinalityType, Zenon
<1>3. Sizes \in SUBSET Nat /\ Sizes # {}
  BY <1>1, <1>2
<1>4. PICK n \in Sizes : \A m \in Sizes : n <= m
  <2> HIDE DEF Sizes
  <2> QED
    BY <1>3, LeastNumber
<1>5. PICK s \in Rest : n = Cardinality(s)
  BY <1>4
<1>6. PICK r \in SUBSET s : r # s /\ r \notin T
  BY <1>5
<1>7. r \in Rest /\ s \in SUBSET D /\ r \in SUBSET D
  BY <1>5, <1>6
<1>8. Cardinality(r) < Cardinality(s)
  BY <1>2, <1>6, <1>7, FS_Subset
<1>9. Cardinality(r) \in Sizes /\ Cardinality(r) \in Nat /\ Cardinality(s) \in Nat
  BY <1>2, <1>7
<1> HIDE DEF Sizes, Rest
<1> QED
  BY <1>4, <1>5, <1>8, <1>9

\* There is such a g: the sizes of sets of at most n parts are built up with n.
LEMMA SizeExists ==
    ASSUME NEW D, IsFiniteSet(D), NEW parts
    PROVE  \E g : IsSize(D, parts, g)
<1> DEFINE Step(g) == [s \in SUBSET D |-> IF s = {} THEN 0 ELSE parts[AnyOf(s)].size + g[s \ {AnyOf(s)}]]
           UpTo(n, g) == \A s \in SUBSET D : Cardinality(s) <= n => g[s] = Step(g)[s]
           Never == {n \in Nat : \A g : ~UpTo(n, g)}
<1>1. \A s \in SUBSET D : IsFiniteSet(s) /\ Cardinality(s) \in Nat
  BY FS_Subset, FS_CardinalityType, Zenon
<1>2. \A s \in SUBSET D : s # {} =>
         /\ s \ {AnyOf(s)} \in SUBSET D /\ Cardinality(s \ {AnyOf(s)}) = Cardinality(s) - 1
  <2> SUFFICES ASSUME NEW s \in SUBSET D, s # {}
               PROVE  Cardinality(s \ {AnyOf(s)}) = Cardinality(s) - 1
    OBVIOUS
  <2>1. AnyOf(s) \in s
    BY DEF AnyOf
  <2> QED
    BY <1>1, <2>1, FS_RemoveElement
<1>3. \A g : \A s \in SUBSET D :
         Step(g)[s] = IF s = {} THEN 0 ELSE parts[AnyOf(s)].size + g[s \ {AnyOf(s)}]
  OBVIOUS
<1>4. \A n \in Nat : \A g : UpTo(n, g) => UpTo(n + 1, Step(g))
  <2> SUFFICES ASSUME NEW n \in Nat, NEW g, UpTo(n, g), NEW s \in SUBSET D,
                      Cardinality(s) <= n + 1
               PROVE  Step(g)[s] = Step(Step(g))[s]
    OBVIOUS
  <2>1. PICK h : h = Step(g)
    OBVIOUS
  <2>2. CASE s = {}
    BY <1>3, <2>2
  <2>3. CASE s # {}
    <3>1. PICK r : r = s \ {AnyOf(s)}
      OBVIOUS
    <3>2. r \in SUBSET D /\ Cardinality(r) = Cardinality(s) - 1
      BY <1>2, <2>3, <3>1, Zenon
    <3>3. Cardinality(r) <= n
      BY <1>1, <3>2
    <3>4. g[r] = h[r]
      BY <2>1, <3>2, <3>3, Zenon
    <3>5. /\ Step(g)[s] = parts[AnyOf(s)].size + g[r]
          /\ Step(h)[s] = parts[AnyOf(s)].size + h[r]
      BY <1>3, <2>3, <3>1, Zenon
    <3> QED
      BY <2>1, <3>4, <3>5
  <2> QED
    BY <2>2, <2>3
<1>5. \A n \in Nat : \E g : UpTo(n, g)
  <2>0. SUFFICES ASSUME NEW k \in Nat, \A g : ~UpTo(k, g) PROVE FALSE
    <3> HIDE DEF UpTo
    <3> QED
      BY Zenon
  <2>1. k \in Never
    <3> HIDE DEF UpTo
    <3> QED
      BY <2>0
  <2>2. PICK n \in Never : \A m \in Never : n <= m
    <3>1. Never \in SUBSET Nat
      OBVIOUS
    <3> HIDE DEF Never
    <3> QED
      BY <2>1, <3>1, LeastNumber
  <2>3. CASE n = 0
    <3>1. PICK g : g = [s \in SUBSET D |-> 0]
      OBVIOUS
    <3>2. ASSUME NEW s \in SUBSET D, Cardinality(s) <= 0 PROVE s = {}
      <4>1. Cardinality(s) = 0 /\ IsFiniteSet(s)
        BY <1>1, <3>2
      <4> QED
        BY <4>1, FS_EmptySet, Zenon
    <3>3. UpTo(0, g)
      BY <1>3, <3>1, <3>2
    <3> QED
      BY <2>2, <2>3, <3>3
  <2>4. CASE n # 0
    <3>1. n - 1 \in Nat /\ n - 1 \notin Never /\ (n - 1) + 1 = n
      <4>1. n \in Nat
        OBVIOUS
      <4> HIDE DEF Never
      <4> QED
        BY <2>2, <2>4, <4>1
    <3>2. PICK g : UpTo(n - 1, g)
      BY <3>1
    <3>3. UpTo(n, Step(g))
      <4> HIDE DEF UpTo, Step
      <4> QED
        BY <1>4, <3>1, <3>2
    <3> QED
      BY <2>2, <3>3
  <2> QED
    BY <2>3, <2>4
<1>6. PICK g : UpTo(Cardinality(D), g)
  BY <1>1, <1>5
<1>7. \A s \in SUBSET D : Cardinality(s) <= Cardinality(D)
  BY FS_Subset
<1>8. PICK h : h = Step(g)
  OBVIOUS
<1>9. \A s \in SUBSET D : h[s] = g[s]
  BY <1>6, <1>7, <1>8
<1>10. h = Step(h)
  BY <1>2, <1>8, <1>9
<1> QED
  BY <1>10 DEF IsSize

\* The size of no parts, and of some: that of the first one and of the rest.
LEMMA SizeOfNone ==
    ASSUME NEW D, NEW parts, NEW g, IsSize(D, parts, g)
    PROVE  g[{}] = 0
  BY DEF IsSize

LEMMA SizeOfMore ==
    ASSUME NEW D, NEW parts, NEW g, IsSize(D, parts, g), NEW s \in SUBSET D, s # {}
    PROVE  AnyOf(s) \in s /\ g[s] = parts[AnyOf(s)].size + g[s \ {AnyOf(s)}]
<1>1. g[s] = IF s = {} THEN 0 ELSE parts[AnyOf(s)].size + g[s \ {AnyOf(s)}]
  BY Zenon DEF IsSize
<1>2. AnyOf(s) \in s
  BY DEF AnyOf
<1> QED
  BY <1>1, <1>2

\* The size of a set is that of any part in it and of the rest.
LEMMA SizeOfAny ==
    ASSUME NEW D, IsFiniteSet(D), NEW parts, \A i \in D : parts[i].size \in Nat,
           NEW g, IsSize(D, parts, g), NEW d \in SUBSET D
    PROVE  g[d] \in Nat /\ \A x \in d : g[d] = parts[x].size + g[d \ {x}]
<1> DEFINE T == {s \in SUBSET D : g[s] \in Nat /\ \A x \in s : g[s] = parts[x].size + g[s \ {x}]}
<1>1. ASSUME NEW s \in SUBSET D, \A r \in SUBSET s : r # s => r \in T PROVE s \in T
  <2>1. CASE s = {}
    <3>1. g[s] = 0
      BY <2>1, SizeOfNone
    <3> QED
      BY <2>1, <3>1
  <2>2. CASE s # {}
    <3>1. PICK a \in s : a = AnyOf(s)
      BY <2>2, SizeOfMore
    <3>2. PICK p \in SUBSET D : p = s \ {a}
      OBVIOUS
    <3>3. g[s] = parts[a].size + g[p]
      <4>1. g[s] = parts[AnyOf(s)].size + g[s \ {AnyOf(s)}]
        BY <2>2, SizeOfMore
      <4> QED
        BY <3>1, <3>2, <4>1
    <3>4. p \in T
      BY <1>1, <3>1, <3>2
    <3>5. g[p] \in Nat /\ \A x \in p : g[p] = parts[x].size + g[p \ {x}]
      BY <3>4
    <3>6. ASSUME NEW x \in s, x # a PROVE g[s] = parts[x].size + g[s \ {x}]
      <4>1. PICK q \in SUBSET D : q = s \ {x}
        OBVIOUS
      <4>2. q \in T
        BY <1>1, <4>1
      <4>3. g[q] \in Nat /\ g[q] = parts[a].size + g[q \ {a}]
        BY <3>1, <3>6, <4>1, <4>2
      <4>4. PICK r \in SUBSET D : r = s \ {a, x}
        OBVIOUS
      <4>5. q \ {a} = r /\ p \ {x} = r
        BY <3>2, <4>1, <4>4
      <4>6. g[p] = parts[x].size + g[r]
        BY <3>2, <3>5, <3>6, <4>5
      <4>7. r \in T
        BY <1>1, <3>1, <4>4
      <4>8. g[r] \in Nat /\ parts[a].size \in Nat /\ parts[x].size \in Nat
        BY <3>1, <4>7
      <4>9. g[q] = parts[a].size + g[r]
        BY <4>3, <4>5
      <4> QED
        BY ONLY <3>3, <4>1, <4>6, <4>8, <4>9
    <3>7. \A x \in s : g[s] = parts[x].size + g[s \ {x}]
      BY <3>2, <3>3, <3>6
    <3>8. g[s] \in Nat
      BY <3>3, <3>5
    <3> QED
      BY <3>7, <3>8
  <2> QED
    BY <2>1, <2>2
<1>2. T = SUBSET D
  <2>1. T \in SUBSET SUBSET D
    OBVIOUS
  <2> HIDE DEF T
  <2> QED
    BY <1>1, <2>1, SmallerSets
<1> QED
  BY <1>2

\* It does not depend on the parts that are not in the set.
LEMMA SizesAgree ==
    ASSUME NEW D, IsFiniteSet(D), NEW parts, NEW E \in SUBSET D,
           NEW g, IsSize(D, parts, g), NEW h, IsSize(E, parts, h)
    PROVE  h[E] = g[E]
<1> DEFINE T == {s \in SUBSET E : h[s] = g[s]}
<1>1. ASSUME NEW s \in SUBSET E, \A r \in SUBSET s : r # s => r \in T PROVE s \in T
  <2>1. s \in SUBSET D
    OBVIOUS
  <2>2. CASE s = {}
    <3>1. g[s] = 0
      BY <2>2, SizeOfNone
    <3>2. h[s] = 0
      BY <2>2, SizeOfNone
    <3> QED
      BY <3>1, <3>2
  <2>3. CASE s # {}
    <3>1. g[s] = parts[AnyOf(s)].size + g[s \ {AnyOf(s)}]
      BY ONLY <2>1, <2>3, SizeOfMore, IsSize(D, parts, g)
    <3>2. h[s] = parts[AnyOf(s)].size + h[s \ {AnyOf(s)}] /\ AnyOf(s) \in s
      BY ONLY <2>3, SizeOfMore, IsSize(E, parts, h)
    <3>3. s \ {AnyOf(s)} \in T
      BY <1>1, <3>2
    <3> QED
      BY <3>1, <3>2, <3>3
  <2> QED
    BY <2>2, <2>3
<1>2. IsFiniteSet(E)
  BY FS_Subset
<1>3. T = SUBSET E
  <2>1. T \in SUBSET SUBSET E
    OBVIOUS
  <2> HIDE DEF T
  <2> QED
    BY <1>1, <1>2, <2>1, SmallerSets
<1> QED
  BY <1>3

\* The fold of PartStart is such a size.
SizeOf(parts, D) == FoldFunctionOnSet(LAMBDA p, sum : p.size + sum, 0, parts, D)
LEMMA FoldIsSize ==
    ASSUME NEW D, IsFiniteSet(D), NEW parts
    PROVE  \E g : /\ IsSize(D, parts, g)
                  /\ SizeOf(parts, D) = g[D]
<1> DEFINE Is(g) == g = [s \in SUBSET D |->
                           IF s = {} THEN 0
                           ELSE parts[CHOOSE x \in s : TRUE].size + g[s \ {CHOOSE x \in s : TRUE}]]
<1>1. SizeOf(parts, D) = (CHOOSE g : Is(g))[D]
  BY Zenon DEF SizeOf, FoldFunctionOnSet, MapThenFoldSet
<1>2. \A g : Is(g) <=> IsSize(D, parts, g)
  BY DEF IsSize, AnyOf
<1> HIDE DEF Is
<1>3. Is(CHOOSE g : Is(g))
  BY <1>2, SizeExists, Zenon
<1> QED
  BY <1>1, <1>2, <1>3

\* So a part adds its size to that of the others.
LEMMA SizesAdd ==
    ASSUME NEW D, IsFiniteSet(D), NEW parts, \A i \in D : parts[i].size \in Nat, NEW x \in D
    PROVE  /\ SizeOf(parts, D \ {x}) \in Nat
           /\ SizeOf(parts, D) = parts[x].size + SizeOf(parts, D \ {x})
<1>1. PICK E \in SUBSET D : E = D \ {x}
  OBVIOUS
<1>2. IsFiniteSet(E) /\ D \in SUBSET D
  BY FS_Subset
<1>3. PICK g : IsSize(D, parts, g) /\ SizeOf(parts, D) = g[D]
  BY FoldIsSize
<1>4. PICK h : IsSize(E, parts, h) /\ SizeOf(parts, E) = h[E]
  BY <1>2, FoldIsSize
<1>5. h[E] = g[E]
  BY <1>3, <1>4, SizesAgree
<1>6. g[E] \in Nat
  BY <1>3, SizeOfAny, Zenon
<1>7. \A y \in D : g[D] = parts[y].size + g[D \ {y}]
  BY <1>2, <1>3, SizeOfAny
<1> QED
  BY <1>1, <1>3, <1>4, <1>5, <1>6, <1>7

\* An object and its parts, none of larger units than the first.
PartedObject(o) ==
    /\ o.extended \in BOOLEAN /\ Len(o.parts) \in Nat \ {0}
    /\ \A i \in 1 .. Len(o.parts) :
          /\ o.parts[i].size \in Nat /\ o.parts[i].unit \in Nat \ {0}
          /\ o.parts[i].unit <= o.parts[1].unit

\* A part begins where the one before it ends.
LEMMA PartStarts ==
    ASSUME NEW o, PartedObject(o), NEW i \in 1 .. Len(o.parts)
    PROVE  /\ PartStart(o, 1) = 0 /\ PartStart(o, i) \in Nat
           /\ PartStart(o, i + 1) = PartStart(o, i) + o.parts[i].size
<1> DEFINE D == 1 .. Len(o.parts)
           A == 1 .. (i - 1)
           B == 1 .. ((i + 1) - 1)
<1>1. /\ IsFiniteSet(D) /\ A \in SUBSET D /\ B \in SUBSET D /\ i \in B /\ B \ {i} = A
      /\ \A j \in D : o.parts[j].size \in Nat
  <2>1. Len(o.parts) \in Nat /\ i \in Nat /\ 1 <= i /\ i <= Len(o.parts)
    BY DEF PartedObject
  <2>2. IsFiniteSet(D)
    BY <2>1, FS_Interval
  <2>3. A \in SUBSET D /\ B \in SUBSET D /\ i \in B
    BY <2>1
  <2>4. B \ {i} = A
    BY <2>1
  <2>5. \A j \in D : o.parts[j].size \in Nat
    BY DEF PartedObject
  <2> QED
    BY <2>2, <2>3, <2>4, <2>5
<1>2. IsFiniteSet(B) /\ \A j \in B : o.parts[j].size \in Nat
  BY <1>1, FS_Subset
<1>3. \A j : PartStart(o, j) = SizeOf(o.parts, 1 .. (j - 1))
  BY Zenon DEF PartStart, SizeOf
<1>4. PartStart(o, i) = SizeOf(o.parts, A) /\ PartStart(o, i + 1) = SizeOf(o.parts, B)
  BY <1>3
<1> HIDE DEF D, A, B
<1>5. SizeOf(o.parts, A) \in Nat /\ SizeOf(o.parts, B) = o.parts[i].size + SizeOf(o.parts, A)
  <2>1. PICK parts : parts = o.parts
    OBVIOUS
  <2>2. \A j \in B : parts[j].size \in Nat
    BY <1>2, <2>1
  <2>3. /\ SizeOf(parts, B \ {i}) \in Nat
        /\ SizeOf(parts, B) = parts[i].size + SizeOf(parts, B \ {i})
    BY <1>1, <1>2, <2>2, SizesAdd
  <2> QED
    BY <1>1, <2>1, <2>3
<1>6. SizeOf(o.parts, {}) = 0
  <2>1. IsFiniteSet({})
    BY FS_EmptySet
  <2>2. PICK g : IsSize({}, o.parts, g) /\ SizeOf(o.parts, {}) = g[{}]
    BY <2>1, FoldIsSize
  <2> QED
    BY <2>2, SizeOfNone
<1>7. PartStart(o, 1) = 0
  <2>1. 1 .. (1 - 1) = {}
    OBVIOUS
  <2> QED
    BY <1>3, <1>6, <2>1
<1>8. o.parts[i].size \in Nat
  BY DEF PartedObject
<1> QED
  BY <1>4, <1>5, <1>7, <1>8

\* Every byte of an object is in one of its parts.
LEMMA PartHolds ==
    ASSUME NEW o, PartedObject(o), NEW b \in Nat, b < ContentLength(o)
    PROVE  /\ PartOf(o, b) \in 1 .. Len(o.parts)
           /\ PartStart(o, PartOf(o, b)) <= b
           /\ b < PartStart(o, PartOf(o, b)) + o.parts[PartOf(o, b)].size
<1> DEFINE n == Len(o.parts)
           Above == {i \in 1 .. (n + 1) : b < PartStart(o, i)}
<1>1. n \in Nat \ {0} /\ n + 1 \in Above
  BY DEF PartedObject, ContentLength
<1>2. PICK j \in Above : \A k \in Above : j <= k
  <2>1. Above \in SUBSET Nat /\ Above # {}
    BY <1>1
  <2> HIDE DEF Above
  <2> QED
    BY <2>1, LeastNumber
<1>3. 1 \in 1 .. n /\ PartStart(o, 1) = 0
  BY <1>1, PartStarts
<1>4. j \in 1 .. (n + 1) /\ b < PartStart(o, j) /\ j # 1
  BY <1>2, <1>3
<1>5. PICK i \in 1 .. n : j = i + 1
  BY <1>1, <1>4
<1>6. PartStart(o, i) \in Nat /\ PartStart(o, i + 1) = PartStart(o, i) + o.parts[i].size
  BY <1>5, PartStarts
<1>7. i \notin Above
  <2> HIDE DEF Above
  <2> QED
    BY <1>1, <1>2, <1>5
<1>8. PartStart(o, i) <= b /\ b < PartStart(o, i) + o.parts[i].size
  BY <1>1, <1>4, <1>5, <1>6, <1>7
<1>9. \E k \in 1 .. Len(o.parts) : PartStart(o, k) <= b /\ b < PartStart(o, k) + o.parts[k].size
  BY <1>5, <1>8
<1> QED
  BY <1>9 DEF PartOf

-----------------------------------------------------------------------------
(* How much waits for the client, and what is under way when a GET is      *)
(* gone, for objects of any parts.                                         *)

\* No operation fails at its launch: such a failure is reported twice, and the
\* second report comes when the action is gone.  Any other may fail.
PartedGets ==
    /\ RangeFits /\ \A o \in Stored : PartedObject(o)
    /\ GetFault \cap {"launch", "openLaunch"} = {}

\* What waits for the client.
OutOK(s) ==
    /\ IsGet(s) /\ s.object \in Stored /\ s.header \in Headers
    /\ s.connected \in BOOLEAN /\ s.out \in Nat /\ s.out < OutLimit(s) + MaxBlocks * Unit(s)
    /\ s.connected = FALSE => s.out = 0

\* Where a GET stands whose range is settled.
Placed(s) ==
    /\ s.first \in Nat /\ s.last \in Nat /\ s.first <= s.last /\ s.last < ContentLength(s.object)
    /\ s.frag \in 1 .. Len(s.object.parts) /\ s.total \in Int /\ s.already \in Int
    /\ s.index \in Int /\ s.sentObj \in Int /\ s.sent \in Seq(Int)

\* A read is started only while there is room for what it brings, and nothing
\* is under way when the action is gone.
FlowOK(s) ==
    /\ OutOK(s)
    /\ s.gone = FALSE \/ (s.op = "none" /\ s.timer = FALSE)
    /\ s.timer = FALSE \/ (s.op = "none" /\ Placed(s))
    /\ s.op = "load" => s.sent = <<>>
    /\ s.op \in {"open", "read", "posted"} => Placed(s)
    /\ s.op \in {"open", "read"} =>
          s.blocks \in Int /\ s.blocks <= MaxBlocks /\ s.out < OutLimit(s)
FlowIInv == FlowOK(get)

\* Between two operations.
Quiet(s) == OutOK(s) /\ s.op = "none" /\ s.timer = FALSE

LEMMA QuietIsOK ==
    ASSUME NEW s, Quiet(s)
    PROVE  FlowOK(s)
  BY DEF Quiet, FlowOK

\* The numbers of an object of parts.
LEMMA PartedFacts ==
    ASSUME PartedGets, NEW s, OutOK(s)
    PROVE  /\ PartedObject(s.object) /\ Unit(s) \in Nat \ {0}
           /\ MaxBlocks \in Nat \ {0} /\ OutMultiple \in Nat \ {0} /\ FirstRead \in Nat \ {0}
           /\ OutLimit(s) \in Nat /\ OutLimit(s) > 0 /\ MaxBlocks * Unit(s) \in Nat \ {0}
           /\ OutLimit(s) = OutMultiple * MaxBlocks * s.object.parts[1].unit
<1>1. PartedObject(s.object)
  BY DEF PartedGets, OutOK
<1>2. 1 \in 1 .. Len(s.object.parts)
  BY <1>1 DEF PartedObject
<1>3. /\ Unit(s) \in Nat \ {0}
      /\ MaxBlocks \in Nat \ {0} /\ OutMultiple \in Nat \ {0} /\ FirstRead \in Nat \ {0}
  BY <1>1, <1>2, BlocksAssumption, OutMultipleAssumption DEF PartedObject, Unit
<1>4. ASSUME NEW a \in Nat \ {0}, NEW b \in Nat \ {0} PROVE a * b \in Nat \ {0}
  BY <1>4
<1>5. OutMultiple * MaxBlocks \in Nat \ {0} /\ MaxBlocks * Unit(s) \in Nat \ {0}
  BY <1>3, <1>4
<1>6. OutMultiple * MaxBlocks * Unit(s) \in Nat \ {0}
  BY <1>3, <1>4, <1>5
<1> QED
  BY <1>1, <1>3, <1>5, <1>6 DEF OutLimit, Unit

\* The flags of the reply have no part in it.
LEMMA RepliesAreQuiet ==
    ASSUME NEW s, Quiet(s), NEW t, GetKept(s, t, Replies)
    PROVE  Quiet(t)
<1>1. /\ IsGet(t) /\ t.object = s.object /\ t.header = s.header /\ t.connected = s.connected
      /\ t.out = s.out /\ t.op = s.op /\ t.timer = s.timer
  BY DEF GetKept, GetFields, Replies
<1> QED
  BY <1>1 DEF Quiet, OutOK, OutLimit, Unit

\* Every answer ends a GET that has nothing under way.
LEMMA AnswersAreOK ==
    ASSUME NEW s, Quiet(s)
    PROVE  /\ Quiet(Respond(s)) /\ Quiet(RespondError(s)) /\ Quiet(GetRollback(s))
           /\ Quiet(ReadObjectDataFailed(s))
<1>1. ASSUME NEW t, Quiet(t) PROVE Quiet(Respond(t))
  <2>1. GetKept(t, Respond(t), {"status", "ended", "gone"})
    BY <1>1, RespondIs DEF Quiet, OutOK
  <2>2. GetKept(t, Respond(t), Replies)
    BY <2>1 DEF GetKept, Replies
  <2> QED
    BY <1>1, <2>2, RepliesAreQuiet
<1> DEFINE e == [s EXCEPT !.error = TRUE]
           c == [s EXCEPT !.scheduled = TRUE]
           d == [c EXCEPT !.error = TRUE]
           b == (s.error \/ ~s.started)
           f == [s EXCEPT !.error = b]
<1>2. IsGet(s)
  BY DEF Quiet, OutOK
<1>3. GetKept(s, e, Replies) /\ GetKept(s, d, Replies)
  BY <1>2 DEF GetKept, IsGet, GetFields, Replies
<1> HIDE DEF b
<1>4. GetKept(s, f, Replies)
  BY <1>2 DEF GetKept, IsGet, GetFields, Replies
<1>5. /\ RespondError(s) = Respond(e) /\ GetRollback(s) = (IF s.scheduled THEN s ELSE Respond(d))
      /\ ReadObjectDataFailed(s) = Respond(f)
  BY DEF RespondError, GetRollback, ReadObjectDataFailed, b
<1> HIDE DEF e, d, f
<1>6. Quiet(e) /\ Quiet(d) /\ Quiet(f)
  BY <1>3, <1>4, RepliesAreQuiet
<1> QED
  BY <1>1, <1>5, <1>6

\* The blocks that are asked for are at most those of one read.
LEMMA BlocksAreFew ==
    ASSUME PartedGets, NEW s, OutOK(s), Placed(s)
    PROVE  BlocksToRead(s) \in Int /\ BlocksToRead(s) <= MaxBlocks
<1>1. MaxBlocks \in Nat /\ FirstRead \in Nat /\ s.total \in Int /\ s.already \in Int
  BY PartedFacts DEF Placed
<1> DEFINE n == IF s.already = 0 /\ s.frag = FirstPart(s)
                    /\ Requested(s) > MaxBlocks * s.object.parts[s.frag].unit
                THEN Least(MaxBlocks, FirstRead)
                ELSE Least(MaxBlocks, s.total - s.already)
<1>2. BlocksToRead(s) =
        IF s.already = 0 /\ s.index # 0 /\ s.object.extended THEN Least(n, s.total) ELSE n
  BY DEF BlocksToRead
<1>3. n \in Int /\ n <= MaxBlocks
  <2>1. n \in {Least(MaxBlocks, FirstRead), Least(MaxBlocks, s.total - s.already)}
    OBVIOUS
  <2> HIDE DEF n
  <2> QED
    BY <1>1, <2>1 DEF Least
<1> HIDE DEF n
<1> QED
  BY <1>1, <1>2, <1>3 DEF Least

\* read_object_data for the blocks that are left: delayed while too much waits
\* for the client.
LEMMA ProceedFlows ==
    ASSUME PartedGets, NEW s, NEW e \in Environments, Quiet(s), Placed(s), s.gone = FALSE
    PROVE  FlowOK(Proceed(s, e))
<1> DEFINE n == BlocksToRead(s)
           t == [s EXCEPT !.blocks = n]
           d == [s EXCEPT !.timer = TRUE]
           o == [t EXCEPT !.op = "open", !.reader = "reading"]
           m == [t EXCEPT !.reader = "ooo"]
           i == t.index + t.blocks * t.object.parts[t.frag].unit
           r == [t EXCEPT !.op = "read", !.reader = "reading", !.index = i]
<1>1. IsGet(s) /\ OutOK(s)
  BY DEF Quiet, OutOK
<1>2. /\ PartedObject(s.object) /\ OutLimit(s) \in Nat /\ OutLimit(s) > 0
      /\ OutLimit(s) = OutMultiple * MaxBlocks * s.object.parts[1].unit
  BY <1>1, PartedFacts
<1>3. e.fault \in {"none", "memory"}
  BY DEF PartedGets, Environments
<1>4. Proceed(s, e) = IF s.shutdown THEN GetRollback(s)
                      ELSE IF Throttled(s, e) THEN d
                      ELSE IF ~t.opened THEN o
                      ELSE IF e.fault = "memory" THEN RespondError(m) ELSE r
  BY <1>3 DEF Proceed, ReadBlocks, LaunchRead, DelayRead
<1>5. n \in Int /\ n <= MaxBlocks
  BY <1>1, BlocksAreFew
<1>6. ~Throttled(s, e) => s.out < OutLimit(s)
  BY <1>1, <1>2 DEF Throttled, OutOK
<1> HIDE DEF n
<1>7. GetKept(s, t, {"blocks"}) /\ t.blocks = n
  BY <1>1 DEF GetKept, IsGet, GetFields
<1>8. GetKept(s, d, {"timer"}) /\ d.timer = TRUE
  BY <1>1 DEF GetKept, IsGet, GetFields
<1> HIDE DEF t, d
<1>9. i \in Int
  <2>1. t.index = s.index /\ t.object = s.object /\ t.frag = s.frag
    BY <1>7 DEF GetKept, GetFields
  <2>2. s.object.parts[s.frag].unit \in Nat
    BY <1>2 DEF PartedObject, Placed
  <2> DEFINE x == s.object.parts[s.frag].unit
  <2>3. x \in Int /\ s.index \in Int
    BY <2>2 DEF Placed
  <2> HIDE DEF x
  <2>4. n * x \in Int
    BY <1>5, <2>3
  <2> DEFINE y == n * x
  <2>5. i = s.index + y
    BY <1>7, <2>1 DEF x
  <2> HIDE DEF y, i
  <2> QED
    BY <2>3, <2>4, <2>5 DEF y
<1> HIDE DEF i
<1>10. GetKept(t, o, {"op", "reader"}) /\ o.op = "open"
  BY <1>7 DEF GetKept, IsGet, GetFields
<1>11. GetKept(t, r, {"op", "reader", "index"}) /\ r.op = "read" /\ r.index = i
  BY <1>7 DEF GetKept, IsGet, GetFields
<1>12. GetKept(t, m, {"reader"})
  BY <1>7 DEF GetKept, IsGet, GetFields
<1> HIDE DEF o, r, m
<1>13. ASSUME NEW q, GetKept(s, q, {"blocks", "op", "reader", "index", "timer"}), q.index \in Int
       PROVE  OutOK(q) /\ Placed(q) /\ q.gone = FALSE /\ q.out = s.out /\ OutLimit(q) = OutLimit(s)
  <2>1. /\ IsGet(q) /\ q.object = s.object /\ q.header = s.header /\ q.connected = s.connected
        /\ q.out = s.out /\ q.first = s.first /\ q.last = s.last /\ q.frag = s.frag
        /\ q.total = s.total /\ q.already = s.already /\ q.sentObj = s.sentObj
        /\ q.sent = s.sent /\ q.gone = s.gone
    BY <1>13 DEF GetKept, GetFields
  <2> QED
    BY <1>1, <1>13, <2>1 DEF OutOK, Placed, OutLimit, Unit
<1>14. CASE s.shutdown
  BY <1>4, <1>14, AnswersAreOK, QuietIsOK
<1>15. FlowOK(d)
  <2>1. /\ GetKept(s, d, {"blocks", "op", "reader", "index", "timer"}) /\ d.index = s.index
        /\ d.op = s.op
    BY <1>8 DEF GetKept, GetFields
  <2>2. OutOK(d) /\ Placed(d) /\ d.gone = FALSE
    BY <1>13, <2>1 DEF Placed
  <2> QED
    BY <2>1, <2>2 DEF FlowOK, Quiet
<1>16. s.out < OutLimit(s) => FlowOK(o) /\ FlowOK(r)
  <2>1. /\ GetKept(s, o, {"blocks", "op", "reader", "index", "timer"}) /\ o.index = s.index
        /\ GetKept(s, r, {"blocks", "op", "reader", "index", "timer"})
        /\ o.timer = s.timer /\ r.timer = s.timer /\ o.blocks = n /\ r.blocks = n
    BY <1>7, <1>10, <1>11 DEF GetKept, GetFields
  <2>2. /\ OutOK(o) /\ Placed(o) /\ o.gone = FALSE /\ o.out = s.out /\ OutLimit(o) = OutLimit(s)
    BY <1>13, <2>1 DEF Placed
  <2>3. /\ OutOK(r) /\ Placed(r) /\ r.gone = FALSE /\ r.out = s.out /\ OutLimit(r) = OutLimit(s)
    BY <1>9, <1>11, <1>13, <2>1
  <2> QED
    BY <1>5, <1>10, <1>11, <2>1, <2>2, <2>3 DEF FlowOK, Quiet
<1>17. FlowOK(RespondError(m))
  <2>1. /\ GetKept(s, m, {"blocks", "op", "reader", "index", "timer"}) /\ m.index = s.index
        /\ m.op = s.op /\ m.timer = s.timer
    BY <1>7, <1>12 DEF GetKept, GetFields
  <2>2. Quiet(m)
    BY <1>13, <2>1 DEF Placed, Quiet
  <2> QED
    BY <2>2, AnswersAreOK, QuietIsOK
<1> QED
  BY <1>4, <1>6, <1>14, <1>15, <1>16, <1>17

\* The parts of a range are parts of the object.
LEMMA PartsOfRange ==
    ASSUME PartedGets, NEW s, OutOK(s), s.first \in Nat, s.last \in Nat, s.first <= s.last,
           s.last < ContentLength(s.object)
    PROVE  FirstPart(s) \in 1 .. Len(s.object.parts) /\ LastPart(s) \in 1 .. Len(s.object.parts)
<1>1. PartedObject(s.object)
  BY PartedFacts
<1>2. s.first < ContentLength(s.object)
  <2>1. ContentLength(s.object) \in Nat
    BY DEF PartedGets, RangeFits, OutOK
  <2> QED
    BY <2>1
<1>3. PartOf(s.object, s.first) \in 1 .. Len(s.object.parts)
  BY <1>1, <1>2, PartHolds
<1>4. PartOf(s.object, s.last) \in 1 .. Len(s.object.parts)
  BY <1>1, PartHolds
<1> QED
  BY <1>1, <1>3, <1>4 DEF FirstPart, LastPart, PartedObject

\* A reader for a Motr object stands at a block of it.
LEMMA StartIsPlaced ==
    ASSUME PartedGets, NEW s, Quiet(s), s.first \in Nat, s.last \in Nat, s.first <= s.last,
           s.last < ContentLength(s.object), s.sent \in Seq(Int), s.gone = FALSE,
           NEW i \in 1 .. Len(s.object.parts)
    PROVE  Quiet(StartObject(s, i)) /\ Placed(StartObject(s, i)) /\ StartObject(s, i).gone = FALSE
<1> DEFINE a == ReadableBlocks(s, i)
           u == s.object.parts[i].unit
           b == IF i = FirstPart(s) THEN (BlockOf(s, i, s.first) - 1) * u ELSE 0
           q == [s EXCEPT !.frag = i, !.already = 0, !.sentObj = 0, !.total = a, !.opened = FALSE,
                          !.reader = "start", !.index = b]
<1>1. StartObject(s, i) = q
  BY DEF StartObject
<1>2. OutOK(s) /\ IsGet(s)
  BY DEF Quiet, OutOK
<1>3. PartedObject(s.object)
  BY <1>2, PartedFacts
<1>4. u \in Nat \ {0} /\ s.object.parts[i].size \in Nat
  BY <1>3 DEF PartedObject
<1>5. PartStart(s.object, i) \in Nat
  BY <1>3, PartStarts
<1>6. BlockOf(s, i, s.first) \in Int /\ BlockOf(s, i, s.last) \in Int
  <2> DEFINE p == PartStart(s.object, i)
             f == s.first
             l == s.last
  <2>1. f \in Int /\ l \in Int /\ p \in Int /\ u \in Nat \ {0}
    BY <1>4, <1>5
  <2>2. BlockOf(s, i, s.first) = (f - p + u) \div u /\ BlockOf(s, i, s.last) = (l - p + u) \div u
    BY DEF BlockOf
  <2> HIDE DEF p, f, l, u
  <2>3. (f - p + u) \div u \in Int /\ (l - p + u) \div u \in Int
    BY <2>1
  <2> QED
    BY <2>2, <2>3
<1>7. Blocks(s.object.parts[i]) \in Int
  <2> DEFINE z == s.object.parts[i].size
  <2>1. ASSUME NEW x \in Int, NEW y \in Nat \ {0} PROVE x \div y \in Int
    BY <2>1
  <2> HIDE DEF u, z
  <2>2. (z + u - 1) \div u \in Int
    BY <1>4, <2>1 DEF z
  <2> QED
    BY <2>2 DEF Blocks, u, z
<1>8. a \in Int
  <2>1. BlockOf(s, i, s.first) \in Int /\ BlockOf(s, i, s.last) \in Int
    BY <1>6
  <2>2. a \in {Blocks(s.object.parts[i]), BlockOf(s, i, s.last) - BlockOf(s, i, s.first) + 1,
               Blocks(s.object.parts[i]) - BlockOf(s, i, s.first) + 1, BlockOf(s, i, s.last)}
    BY DEF ReadableBlocks
  <2> DEFINE x == BlockOf(s, i, s.first)
             y == BlockOf(s, i, s.last)
             z == Blocks(s.object.parts[i])
  <2>3. a \in {z, y - x + 1, z - x + 1, y} /\ x \in Int /\ y \in Int /\ z \in Int
    BY <1>7, <2>1, <2>2
  <2> HIDE DEF a, x, y, z
  <2> QED
    BY <2>3
<1>9. b \in Int
  <2> HIDE DEF u
  <2> DEFINE x == BlockOf(s, i, s.first)
  <2>1. x \in Int
    BY <1>6
  <2>2. b \in {(x - 1) * u, 0}
    OBVIOUS
  <2> HIDE DEF x, b
  <2> QED
    BY <1>4, <2>1, <2>2
<1> HIDE DEF a, b, u
<1>10. /\ GetKept(s, q, {"frag", "already", "sentObj", "total", "opened", "reader", "index"})
       /\ q.frag = i /\ q.already = 0 /\ q.sentObj = 0 /\ q.total = a /\ q.index = b
  BY <1>2 DEF GetKept, IsGet, GetFields
<1> HIDE DEF q
<1>11. /\ IsGet(q) /\ q.object = s.object /\ q.header = s.header /\ q.connected = s.connected
       /\ q.out = s.out /\ q.first = s.first /\ q.last = s.last /\ q.op = s.op
       /\ q.timer = s.timer /\ q.sent = s.sent /\ q.gone = s.gone
  BY <1>10 DEF GetKept, GetFields
<1>12. Quiet(q)
  BY <1>2, <1>11 DEF Quiet, OutOK, OutLimit, Unit
<1>13. Placed(q)
  BY <1>8, <1>9, <1>10, <1>11 DEF Placed
<1> QED
  BY <1>1, <1>11, <1>12, <1>13

\* The next Motr object, or the end.
LEMMA NextObjectFlows ==
    ASSUME PartedGets, NEW s, NEW e \in Environments, Quiet(s), Placed(s), s.gone = FALSE
    PROVE  FlowOK(NextObject(s, e)) /\ FlowOK(ReadObjectData(s, e))
<1>1. /\ s.first \in Nat /\ s.last \in Nat /\ s.first <= s.last /\ s.last < ContentLength(s.object)
      /\ s.frag \in 1 .. Len(s.object.parts) /\ s.sent \in Seq(Int)
  BY DEF Placed
<1>2. LastPart(s) \in 1 .. Len(s.object.parts)
  BY <1>1, PartsOfRange DEF Quiet
<1>3. s.frag < LastPart(s) => FlowOK(Proceed(StartObject(s, s.frag + 1), e))
  <2> SUFFICES ASSUME s.frag < LastPart(s) PROVE FlowOK(Proceed(StartObject(s, s.frag + 1), e))
    OBVIOUS
  <2>1. PICK i \in 1 .. Len(s.object.parts) : i = s.frag + 1
    BY <1>1, <1>2
  <2> DEFINE q == StartObject(s, i)
  <2>2. Quiet(q) /\ Placed(q) /\ q.gone = FALSE
    BY <1>1, StartIsPlaced
  <2> HIDE DEF q
  <2>3. FlowOK(Proceed(q, e))
    BY <2>2, ProceedFlows
  <2> QED
    BY <2>1, <2>3 DEF q
<1>4. FlowOK(NextObject(s, e))
  BY <1>3, AnswersAreOK, QuietIsOK DEF NextObject
<1>5. Throttled(s, e) => FlowOK(DelayRead(s))
  <2> DEFINE d == [s EXCEPT !.timer = TRUE]
  <2>1. IsGet(s)
    BY DEF Quiet, OutOK
  <2>2. GetKept(s, d, {"timer"})
    BY <2>1 DEF GetKept, IsGet, GetFields
  <2>3. DelayRead(s) = d
    BY DEF DelayRead
  <2> HIDE DEF d
  <2>4. /\ IsGet(d) /\ d.object = s.object /\ d.header = s.header /\ d.connected = s.connected
        /\ d.out = s.out /\ d.first = s.first /\ d.last = s.last /\ d.frag = s.frag
        /\ d.total = s.total /\ d.already = s.already /\ d.sentObj = s.sentObj
        /\ d.sent = s.sent /\ d.gone = s.gone /\ d.op = s.op /\ d.index = s.index
    BY <2>2 DEF GetKept, GetFields
  <2>5. OutOK(d) /\ Placed(d)
    BY <2>4 DEF Quiet, OutOK, Placed, OutLimit, Unit
  <2> QED
    BY <2>3, <2>4, <2>5 DEF FlowOK, Quiet
<1>6. FlowOK(Proceed(s, e)) /\ FlowOK(GetRollback(s))
  BY ProceedFlows, AnswersAreOK, QuietIsOK
<1> QED
  BY <1>4, <1>5, <1>6 DEF ReadObjectData

\* What is left of the blocks of a read when its ends are cut off.
LEMMA CutIs ==
    ASSUME NEW read \in Seq(Int), NEW drop \in Nat, NEW k \in Int,
           NEW buf, buf = SubSeq(read, drop + 1, Len(read)), k <= Len(buf)
    PROVE  /\ SubSeq(buf, 1, k) \in Seq(Int) /\ Len(SubSeq(buf, 1, k)) \in Nat
           /\ Len(SubSeq(buf, 1, k)) <= Len(read)
<1>1. buf \in Seq(Int) /\ Len(buf) \in Nat /\ Len(buf) <= Len(read)
  <2>1. CASE drop < Len(read)
    BY <2>1
  <2>2. CASE drop >= Len(read)
    BY <2>2
  <2> QED
    BY <2>1, <2>2
<1>2. /\ SubSeq(buf, 1, k) \in Seq(Int) /\ Len(SubSeq(buf, 1, k)) \in Nat
      /\ Len(SubSeq(buf, 1, k)) <= Len(buf)
  <2>1. CASE k >= 1
    BY <1>1, <2>1
  <2>2. CASE k < 1
    BY <1>1, <2>2
  <2> QED
    BY <2>1, <2>2
<1> QED
  BY <1>1, <1>2

\* A read brings at most the blocks that were asked for.
LEMMA TrimmedIsShort ==
    ASSUME PartedGets, NEW s, OutOK(s), Placed(s), s.blocks \in Int, s.blocks <= MaxBlocks
    PROVE  /\ Trimmed(s) \in Seq(Int) /\ Len(Trimmed(s)) \in Nat
           /\ Len(Trimmed(s)) <= MaxBlocks * Unit(s)
<1> DEFINE u == s.object.parts[s.frag].unit
           size == s.object.parts[s.frag].size
           n == s.blocks * u
           from == s.index - n
           start == PartStart(s.object, s.frag)
           f == [j \in 1 .. n |-> IF from + j - 1 < size THEN start + from + j - 1 ELSE Pad]
           read == BlocksRead(s)
           drop == IF s.sent = <<>> THEN s.first % u ELSE 0
           buf == Buffer(s)
           length == IF Len(s.sent) + Len(buf) >= Requested(s) \/ Len(buf) >= Requested(s)
                     THEN Requested(s) - Len(s.sent)
                     ELSE IF s.object.extended /\ s.sentObj + Len(buf) >= size
                     THEN size - s.sentObj ELSE Len(buf)
           k == Least(length, Len(buf))
<1>1. /\ PartedObject(s.object) /\ Unit(s) \in Nat \ {0} /\ MaxBlocks \in Nat \ {0}
  BY PartedFacts
<1>2. u \in Nat \ {0} /\ u <= Unit(s) /\ size \in Nat
  BY <1>1 DEF PartedObject, Placed, Unit
<1>3. start \in Nat
  BY <1>1, PartStarts DEF Placed
<1>4. n \in Int /\ from \in Int
  <2> HIDE DEF u
  <2>1. s.blocks * u \in Int
    BY <1>2
  <2> HIDE DEF n
  <2>2. n \in Int
    BY <2>1 DEF n
  <2>3. s.index \in Int
    BY DEF Placed
  <2> QED
    BY <2>2, <2>3
<1>5. /\ read = f /\ buf = SubSeq(read, drop + 1, Len(read))
      /\ Trimmed(s) = SubSeq(buf, 1, k)
  BY DEF BlocksRead, Buffer, Trimmed
<1>6. drop \in Nat
  <2>1. s.first \in Nat
    BY DEF Placed
  <2> HIDE DEF u
  <2>2. s.first % u \in Nat
    BY <1>2, <2>1
  <2> QED
    BY <2>2
<1> HIDE DEF from, start, size, read, drop, buf, n, u
<1>7. \A j \in 1 .. n : f[j] \in Int
  BY <1>2, <1>3, <1>4 DEF Pad
<1>8. read = [j \in 1 .. n |-> f[j]]
  BY <1>5
<1> HIDE DEF f
<1> DEFINE m == IF n > 0 THEN n ELSE 0
<1>9. read \in Seq(Int) /\ Len(read) = m /\ m \in Nat /\ Len(buf) \in Nat
  <2>1. m \in Nat /\ 1 .. n = 1 .. m
    BY <1>4
  <2>2. read = [j \in 1 .. m |-> f[j]] /\ \A j \in 1 .. m : f[j] \in Int
    BY <1>7, <1>8, <2>1
  <2> HIDE DEF m
  <2>3. read \in Seq(Int) /\ Len(read) = m
    BY <2>1, <2>2
  <2> QED
    BY <1>5, <1>6, <2>1, <2>3
<1>10. k \in Int /\ k <= Len(buf)
  <2>1. Requested(s) \in Int /\ Len(s.sent) \in Nat /\ s.sentObj \in Int
    BY DEF Requested, Placed
  <2>2. length \in {Requested(s) - Len(s.sent), size - s.sentObj, Len(buf)}
    OBVIOUS
  <2>3. length \in Int
    <3> HIDE DEF length
    <3> QED
      BY <1>2, <1>9, <2>1, <2>2
  <2> HIDE DEF length
  <2> QED
    BY <1>9, <2>3 DEF Least
<1> HIDE DEF k
<1> HIDE DEF m
<1>11. /\ SubSeq(buf, 1, k) \in Seq(Int) /\ Len(SubSeq(buf, 1, k)) \in Nat
       /\ Len(SubSeq(buf, 1, k)) <= m
  BY <1>5, <1>6, <1>9, <1>10, CutIs
<1>12. MaxBlocks * Unit(s) \in Nat /\ n <= MaxBlocks * Unit(s)
  <2> DEFINE v == Unit(s)
             b == s.blocks
  <2>1. v \in Nat \ {0} /\ b \in Int /\ b <= MaxBlocks /\ u <= v /\ n = b * u
    BY <1>1, <1>2 DEF n
  <2> HIDE DEF v, b
  <2>2. MaxBlocks * v \in Nat /\ b * u \in Int /\ MaxBlocks * u \in Int
    BY <1>1, <1>2, <2>1
  <2>3. b * u <= MaxBlocks * u
    BY <1>1, <1>2, <2>1
  <2>4. MaxBlocks * u <= MaxBlocks * v
    BY <1>1, <1>2, <2>1
  <2>5. b * u <= MaxBlocks * v
    BY <2>2, <2>3, <2>4
  <2> QED
    BY <2>1, <2>2, <2>5 DEF v
<1> DEFINE l == Len(SubSeq(buf, 1, k))
           x == MaxBlocks * Unit(s)
<1>13. l \in Nat /\ l <= m /\ x \in Nat /\ n <= x
  BY <1>11, <1>12
<1> HIDE DEF l, x
<1>14. l <= x
  BY <1>4, <1>13 DEF m
<1> QED
  BY <1>5, <1>11, <1>14 DEF l, x

\* send_data_to_client: what a read brought fits, since the read was started
\* below the limit.
LEMMA SendFlows ==
    ASSUME PartedGets, NEW s, NEW e \in Environments, Quiet(s), Placed(s), s.gone = FALSE,
           s.blocks \in Int, s.blocks <= MaxBlocks, s.out < OutLimit(s)
    PROVE  FlowOK(SendDataToClient(s, e))
<1> DEFINE data == Trimmed(s)
           a == s.sent \o data
           b == s.sentObj + Len(data)
           c == s.already + s.blocks
           d == s.out + (IF s.connected THEN Len(data) ELSE 0)
           f == s.status + (IF s.connected /\ ~s.started THEN 1 ELSE 0)
           t == [s EXCEPT !.sent = a, !.sentObj = b, !.already = c, !.started = TRUE, !.out = d,
                          !.status = f]
<1>1. SendDataToClient(s, e) =
        IF s.shutdown THEN GetRollback(s)
        ELSE IF ~t.connected THEN RespondError(t)
        ELSE IF Len(t.sent) = Requested(t) THEN Respond(t)
        ELSE IF ~t.object.extended \/ t.sentObj # RequestedObjectSize(t, t.frag)
        THEN ReadObjectData(t, e)
        ELSE NextObject(t, e)
  BY DEF SendDataToClient
<1>2. OutOK(s) /\ IsGet(s)
  BY DEF Quiet, OutOK
<1>3. data \in Seq(Int) /\ Len(data) \in Nat /\ Len(data) <= MaxBlocks * Unit(s)
  BY <1>2, TrimmedIsShort
<1>4. OutLimit(s) \in Nat /\ MaxBlocks * Unit(s) \in Nat /\ OutLimit(s) > 0
  BY <1>2, PartedFacts
<1> HIDE DEF data
<1>5. a \in Seq(Int)
  BY <1>3 DEF Placed
<1>6. b \in Int /\ c \in Int
  BY <1>3 DEF Placed
<1>7. /\ d \in Nat /\ d < OutLimit(s) + MaxBlocks * Unit(s) /\ (s.connected = FALSE => d = 0)
  <2> DEFINE l == Len(data)
             m == MaxBlocks * Unit(s)
             o == OutLimit(s)
  <2>1. /\ l \in Nat /\ m \in Nat /\ o \in Nat /\ l <= m /\ s.out \in Nat /\ s.out < o
        /\ s.connected \in BOOLEAN /\ (s.connected = FALSE => s.out = 0)
    BY <1>2, <1>3, <1>4 DEF OutOK
  <2>2. d = s.out + (IF s.connected THEN l ELSE 0)
    OBVIOUS
  <2> HIDE DEF l, m, o, d
  <2>3. d \in Nat /\ d < o + m /\ (s.connected = FALSE => d = 0)
    BY <2>1, <2>2
  <2> QED
    BY <2>3 DEF o, m
<1> HIDE DEF a, b, c, d, f
<1>8. /\ GetKept(s, t, {"sent", "sentObj", "already", "started", "out", "status"})
      /\ t.sent = a /\ t.sentObj = b /\ t.already = c /\ t.out = d
  BY <1>2 DEF GetKept, IsGet, GetFields
<1> HIDE DEF t
<1>9. /\ IsGet(t) /\ t.object = s.object /\ t.header = s.header /\ t.connected = s.connected
      /\ t.first = s.first /\ t.last = s.last /\ t.frag = s.frag /\ t.op = s.op
      /\ t.total = s.total /\ t.index = s.index /\ t.gone = s.gone /\ t.timer = s.timer
  BY <1>8 DEF GetKept, GetFields
<1>10. OutLimit(t) = OutLimit(s) /\ Unit(t) = Unit(s)
  BY <1>9 DEF OutLimit, Unit
<1>11. Quiet(t) /\ t.gone = FALSE
  BY <1>2, <1>7, <1>8, <1>9, <1>10 DEF Quiet, OutOK
<1>12. Placed(t)
  BY <1>5, <1>6, <1>8, <1>9 DEF Placed
<1>13. FlowOK(ReadObjectData(t, e)) /\ FlowOK(NextObject(t, e))
  BY <1>11, <1>12, NextObjectFlows
<1> QED
  BY <1>1, <1>11, <1>13, AnswersAreOK, QuietIsOK

\* fetch_object_info ends: the range is settled, and its first part is opened.
LEMMA FetchFlows ==
    ASSUME PartedGets, FlowIInv, FetchInfoEnds
    PROVE  FlowIInv'
<1> DEFINE s == [get EXCEPT !.op = "none"]
           z == s.status + 1
           y == [s EXCEPT !.status = z]
           x == [s EXCEPT !.gone = TRUE]
           length == ContentLength(s.object)
           range == ReadOptions(s.header, length)
           t == [s EXCEPT !.first = range.first, !.last = range.last]
           k == [s EXCEPT !.refused = TRUE]
<1>1. OutOK(get) /\ get.gone = FALSE /\ get.timer = FALSE /\ get.sent = <<>> /\ IsGet(get)
  BY DEF FlowIInv, FlowOK, FetchInfoEnds, OutOK
<1>2. \/ get' = RespondError(s)
      \/ \E e \in Environments :
           get' = IF s.shutdown THEN GetRollback(s)
                  ELSE IF ~s.connected THEN x
                  ELSE ValidateObjectInfo(s, e)
  BY DEF FetchInfoEnds
<1>3. ASSUME NEW e PROVE ValidateObjectInfo(s, e) =
        IF length = 0 THEN Respond(y)
        ELSE IF ~range.valid THEN RespondError(k)
        ELSE Proceed(StartObject(t, FirstPart(t)), e)
  BY DEF ValidateObjectInfo
<1>4. GetKept(get, s, {"op"}) /\ s.op = "none"
  BY <1>1 DEF GetKept, IsGet, GetFields
<1> HIDE DEF s, z
<1>5. /\ IsGet(s) /\ s.object = get.object /\ s.header = get.header /\ s.connected = get.connected
      /\ s.out = get.out /\ s.sent = get.sent /\ s.timer = get.timer /\ s.gone = get.gone
  BY <1>4 DEF GetKept, GetFields
<1>6. Quiet(s) /\ s.gone = FALSE /\ s.sent = <<>>
  BY <1>1, <1>4, <1>5 DEF Quiet, OutOK, OutLimit, Unit
<1>7. FlowOK(RespondError(s)) /\ FlowOK(GetRollback(s))
  BY <1>6, AnswersAreOK, QuietIsOK
<1>8. FlowOK(x) /\ FlowOK(Respond(y)) /\ FlowOK(RespondError(k))
  <2>1. GetKept(s, x, Replies) /\ GetKept(s, y, Replies) /\ GetKept(s, k, Replies)
    BY <1>5 DEF GetKept, IsGet, GetFields, Replies
  <2> HIDE DEF x, y, k
  <2>2. Quiet(x) /\ Quiet(y) /\ Quiet(k)
    BY <1>6, <2>1, RepliesAreQuiet
  <2> QED
    BY <2>2, AnswersAreOK, QuietIsOK
<1>9. ASSUME NEW e \in Environments, range.valid
      PROVE  FlowOK(Proceed(StartObject(t, FirstPart(t)), e))
  <2> DEFINE f == range.first
             l == range.last
  <2>1. /\ f \in Nat /\ l \in Nat /\ f <= l /\ l < length
    <3>1. /\ s.header.a \in Nat /\ s.header.b \in Nat /\ SizeT \in Nat \ {0} /\ length \in Nat
      BY <1>1, <1>5 DEF PartedGets, RangeFits, OutOK
    <3>2. (length - s.header.b) % SizeT \in Nat
      BY <3>1
    <3>3. FirstByte(s.header, length) \in Nat
      BY <3>1, <3>2 DEF FirstByte
    <3>4. f < length /\ f <= l /\ f \in Nat
      BY <1>9, <3>3 DEF ReadOptions
    <3>5. l \in {Least(s.header.b, length - 1), length - 1}
      BY DEF ReadOptions
    <3> HIDE DEF f, l, length
    <3> QED
      BY <3>1, <3>4, <3>5 DEF Least
  <2>2. t = [s EXCEPT !.first = f, !.last = l]
    OBVIOUS
  <2> HIDE DEF f, l
  <2>3. GetKept(s, t, {"first", "last"}) /\ t.first = f /\ t.last = l
    BY <1>5, <2>2 DEF GetKept, IsGet, GetFields
  <2> HIDE DEF t
  <2>4. /\ IsGet(t) /\ t.object = s.object /\ t.header = s.header /\ t.connected = s.connected
        /\ t.out = s.out /\ t.sent = s.sent /\ t.timer = s.timer /\ t.op = s.op
        /\ t.gone = s.gone
    BY <2>3 DEF GetKept, GetFields
  <2>5. Quiet(t) /\ t.gone = FALSE /\ t.sent \in Seq(Int)
    BY <1>6, <2>4 DEF Quiet, OutOK, OutLimit, Unit
  <2>6. t.first \in Nat /\ t.last \in Nat /\ t.first <= t.last /\ t.last < ContentLength(t.object)
    BY <2>1, <2>3, <2>4
  <2>7. FirstPart(t) \in 1 .. Len(t.object.parts)
    BY <2>5, <2>6, PartsOfRange DEF Quiet
  <2> DEFINE q == StartObject(t, FirstPart(t))
  <2>8. Quiet(q) /\ Placed(q) /\ q.gone = FALSE
    BY <2>5, <2>6, <2>7, StartIsPlaced
  <2> HIDE DEF q
  <2>9. FlowOK(Proceed(q, e))
    BY <2>8, ProceedFlows
  <2> QED
    BY <2>9 DEF q
<1> HIDE DEF k
<1>10. ASSUME NEW e \in Environments PROVE FlowOK(ValidateObjectInfo(s, e))
  BY <1>3, <1>8, <1>9
<1> HIDE DEF x
<1>11. FlowOK(get')
  BY <1>2, <1>7, <1>8, <1>10
<1> QED
  BY <1>11 DEF FlowIInv

\* Placed as before when an operation is over.
LEMMA OverIsQuiet ==
    ASSUME NEW s, OutOK(s), Placed(s), NEW t, GetKept(s, t, {"op", "timer", "opened", "reader"})
    PROVE  /\ OutOK(t) /\ Placed(t) /\ t.gone = s.gone /\ t.out = s.out /\ t.blocks = s.blocks
           /\ OutLimit(t) = OutLimit(s)
<1>1. /\ IsGet(t) /\ t.object = s.object /\ t.header = s.header /\ t.connected = s.connected
      /\ t.out = s.out /\ t.first = s.first /\ t.last = s.last /\ t.frag = s.frag
      /\ t.total = s.total /\ t.already = s.already /\ t.sentObj = s.sentObj
      /\ t.sent = s.sent /\ t.gone = s.gone /\ t.index = s.index /\ t.blocks = s.blocks
  BY DEF GetKept, GetFields
<1> QED
  BY <1>1 DEF OutOK, Placed, OutLimit, Unit

\* An open, a read or a delay ends.
LEMMA EventsFlow ==
    ASSUME PartedGets, FlowIInv, OpenEnds \/ ReadEnds \/ PostedFailure \/ ResumeActionStep
    PROVE  FlowIInv'
<1> DEFINE s == [get EXCEPT !.op = "none"]
           w == [get EXCEPT !.timer = FALSE]
           C == {"op", "timer", "opened", "reader"}
<1>1. OutOK(get) /\ Placed(get) /\ get.gone = FALSE /\ IsGet(get)
  BY DEF FlowIInv, FlowOK, OutOK, OpenEnds, ReadEnds, PostedFailure, ResumeActionStep
<1>2. /\ GetKept(get, s, {"op"}) /\ s.op = "none"
      /\ GetKept(get, w, {"timer"}) /\ w.timer = FALSE
  BY <1>1 DEF GetKept, IsGet, GetFields
<1>3. CASE OpenEnds
  <2> DEFINE t == [s EXCEPT !.opened = TRUE]
             a == [t EXCEPT !.reader = "ooo"]
             b == [t EXCEPT !.reader = "launch", !.op = "posted"]
             c == [s EXCEPT !.reader = "failed"]
             i == t.index + t.blocks * t.object.parts[t.frag].unit
             r == [t EXCEPT !.op = "read", !.reader = "reading", !.index = i]
  <2>1. get' \in {r, ReadObjectDataFailed(a), b, ReadObjectDataFailed(c)}
    BY <1>3 DEF OpenEnds, LaunchRead
  <2> HIDE DEF s
  <2>2. GetKept(s, t, {"opened"}) /\ GetKept(s, c, {"reader"})
    BY <1>2 DEF GetKept, IsGet, GetFields
  <2> HIDE DEF t
  <2>3. /\ GetKept(t, a, {"reader"}) /\ GetKept(t, b, {"reader", "op"}) /\ b.op = "posted"
    BY <2>2 DEF GetKept, IsGet, GetFields
  <2> HIDE DEF a, b, c
  <2>4. /\ GetKept(get, t, C) /\ GetKept(get, a, C) /\ GetKept(get, b, C) /\ GetKept(get, c, C)
        /\ t.timer = get.timer /\ a.timer = get.timer /\ b.timer = get.timer /\ c.timer = get.timer
        /\ t.op = "none" /\ a.op = "none" /\ c.op = "none"
    BY <1>2, <2>2, <2>3 DEF GetKept, GetFields
  <2>5. /\ get.timer = FALSE /\ get.blocks \in Int /\ get.blocks <= MaxBlocks
        /\ get.out < OutLimit(get)
    BY <1>3 DEF FlowIInv, FlowOK, OpenEnds
  <2>6. Quiet(a) /\ Quiet(c)
    BY <1>1, <2>4, <2>5, OverIsQuiet DEF Quiet
  <2>7. FlowOK(b)
    <3>1. OutOK(b) /\ Placed(b) /\ b.gone = FALSE
      BY <1>1, <2>4, OverIsQuiet
    <3> QED
      BY <2>3, <2>4, <2>5, <3>1 DEF FlowOK
  <2>8. /\ OutOK(t) /\ Placed(t) /\ t.gone = FALSE /\ t.blocks \in Int /\ t.blocks <= MaxBlocks
        /\ t.out < OutLimit(t) /\ t.timer = FALSE
    BY <1>1, <2>4, <2>5, OverIsQuiet
  <2>9. i \in Int
    <3> DEFINE u == t.object.parts[t.frag].unit
               n == t.blocks
    <3>1. u \in Nat /\ n \in Int /\ t.index \in Int
      BY <2>8, PartedFacts DEF PartedObject, Placed
    <3> HIDE DEF u, n
    <3>2. n * u \in Int
      BY <3>1
    <3> DEFINE m == n * u
    <3>3. i = t.index + m
      BY DEF u, n
    <3> HIDE DEF m, i
    <3> QED
      BY <3>1, <3>2, <3>3 DEF m
  <2> HIDE DEF i
  <2>10. GetKept(t, r, {"op", "reader", "index"}) /\ r.op = "read" /\ r.index = i
    BY <2>2 DEF GetKept, IsGet, GetFields
  <2> HIDE DEF r
  <2>11. /\ IsGet(r) /\ r.object = t.object /\ r.header = t.header /\ r.connected = t.connected
         /\ r.out = t.out /\ r.first = t.first /\ r.last = t.last /\ r.frag = t.frag
         /\ r.total = t.total /\ r.already = t.already /\ r.sentObj = t.sentObj
         /\ r.sent = t.sent /\ r.gone = t.gone /\ r.blocks = t.blocks /\ r.timer = t.timer
    BY <2>10 DEF GetKept, GetFields
  <2>12. OutOK(r) /\ Placed(r) /\ OutLimit(r) = OutLimit(t)
    BY <2>8, <2>9, <2>10, <2>11 DEF OutOK, Placed, OutLimit, Unit
  <2>13. FlowOK(r)
    BY <2>8, <2>10, <2>11, <2>12 DEF FlowOK
  <2>14. FlowOK(get')
    BY <2>1, <2>6, <2>7, <2>13, AnswersAreOK, QuietIsOK
  <2> QED
    BY <2>14 DEF FlowIInv
<1>4. CASE ReadEnds
  <2> DEFINE a == [s EXCEPT !.reader = "failed"]
             b == [s EXCEPT !.reader = "success"]
  <2>1. get' = ReadObjectDataFailed(a) \/ \E e \in Environments : get' = SendDataToClient(b, e)
    BY <1>4 DEF ReadEnds
  <2> HIDE DEF s
  <2>2. GetKept(s, a, {"reader"}) /\ GetKept(s, b, {"reader"})
    BY <1>2 DEF GetKept, IsGet, GetFields
  <2> HIDE DEF a, b
  <2>3. /\ GetKept(get, a, C) /\ GetKept(get, b, C) /\ a.op = "none" /\ b.op = "none"
        /\ a.timer = get.timer /\ b.timer = get.timer
    BY <1>2, <2>2 DEF GetKept, GetFields
  <2>4. /\ get.timer = FALSE /\ get.blocks \in Int /\ get.blocks <= MaxBlocks
        /\ get.out < OutLimit(get)
    BY <1>4 DEF FlowIInv, FlowOK, ReadEnds
  <2>5. Quiet(a)
    BY <1>1, <2>3, <2>4, OverIsQuiet DEF Quiet
  <2>6. /\ Quiet(b) /\ Placed(b) /\ b.gone = FALSE /\ b.blocks \in Int /\ b.blocks <= MaxBlocks
        /\ b.out < OutLimit(b)
    BY <1>1, <2>3, <2>4, OverIsQuiet DEF Quiet
  <2>7. FlowOK(get')
    BY <2>1, <2>5, <2>6, SendFlows, AnswersAreOK, QuietIsOK
  <2> QED
    BY <2>7 DEF FlowIInv
<1>5. CASE PostedFailure
  <2> DEFINE a == [get EXCEPT !.op = "none", !.reader = "failed"]
  <2>1. get' = ReadObjectDataFailed(a)
    BY <1>5 DEF PostedFailure
  <2>2. GetKept(get, a, {"op", "reader"}) /\ a.op = "none"
    BY <1>1 DEF GetKept, IsGet, GetFields
  <2> HIDE DEF a
  <2>3. GetKept(get, a, C) /\ a.timer = get.timer
    BY <2>2 DEF GetKept, GetFields
  <2>4. get.timer = FALSE
    BY <1>5 DEF FlowIInv, FlowOK, PostedFailure
  <2>5. Quiet(a)
    BY <1>1, <2>2, <2>3, <2>4, OverIsQuiet DEF Quiet
  <2> QED
    BY <2>1, <2>5, AnswersAreOK, QuietIsOK DEF FlowIInv
<1>6. CASE ResumeActionStep
  <2>1. \E e \in Environments : get' = ReadObjectData(w, e)
    BY <1>6 DEF ResumeActionStep
  <2>2. get.op = "none"
    BY <1>6 DEF FlowIInv, FlowOK, ResumeActionStep
  <2> HIDE DEF w
  <2>3. GetKept(get, w, C) /\ w.op = get.op
    BY <1>2 DEF GetKept, GetFields
  <2>4. Quiet(w) /\ Placed(w) /\ w.gone = FALSE
    BY <1>1, <1>2, <2>2, <2>3, OverIsQuiet DEF Quiet
  <2> QED
    BY <2>1, <2>4, NextObjectFlows DEF FlowIInv
<1> QED
  BY <1>3, <1>4, <1>5, <1>6

\* What the client and the server do meanwhile only makes room.
LEMMA AroundFlows ==
    ASSUME PartedGets, FlowIInv, ClientTakes \/ ReaderLeaves \/ GetShutdownBegins
    PROVE  FlowIInv'
<1>1. OutOK(get) /\ IsGet(get) /\ OutLimit(get) \in Nat /\ MaxBlocks * Unit(get) \in Nat
      /\ OutLimit(get) > 0
  <2>1. OutOK(get)
    BY DEF FlowIInv, FlowOK
  <2> QED
    BY <2>1, PartedFacts DEF OutOK
<1>2. ASSUME NEW t, GetKept(get, t, {"out", "connected", "shutdown"}), t.connected \in BOOLEAN,
             t.out \in Nat, t.out <= get.out, t.connected = FALSE => t.out = 0
      PROVE  FlowOK(t)
  <2>1. /\ IsGet(t) /\ t.object = get.object /\ t.header = get.header /\ t.first = get.first
        /\ t.last = get.last /\ t.frag = get.frag /\ t.total = get.total
        /\ t.already = get.already /\ t.sentObj = get.sentObj /\ t.sent = get.sent
        /\ t.gone = get.gone /\ t.index = get.index /\ t.blocks = get.blocks
        /\ t.op = get.op /\ t.timer = get.timer
    BY <1>2 DEF GetKept, GetFields
  <2>2. OutLimit(t) = OutLimit(get) /\ Unit(t) = Unit(get)
    BY <2>1 DEF OutLimit, Unit
  <2> DEFINE o == OutLimit(get)
             m == MaxBlocks * Unit(get)
  <2>3. o \in Nat /\ m \in Nat /\ get.out \in Nat /\ get.out < o + m
    BY <1>1 DEF OutOK
  <2> HIDE DEF o, m
  <2>4. t.out < o + m /\ (get.out < o => t.out < o)
    BY <1>2, <2>3
  <2>5. OutOK(t)
    BY <1>1, <1>2, <2>1, <2>2, <2>4 DEF OutOK, o, m
  <2>6. Placed(get) => Placed(t)
    BY <2>1 DEF Placed
  <2> QED
    BY <2>1, <2>2, <2>4, <2>5, <2>6 DEF FlowIInv, FlowOK, o
<1>3. CASE ClientTakes
  <2>1. PICK n \in 1 .. get.out : get' = [get EXCEPT !.out = get.out - n]
    BY <1>3 DEF ClientTakes
  <2> DEFINE m == get.out - n
  <2>2. get.out \in Nat /\ get.connected = TRUE
    BY <1>1, <1>3 DEF OutOK, ClientTakes
  <2>3. m \in Nat /\ m <= get.out
    BY <2>2
  <2> HIDE DEF m
  <2>4. get' = [get EXCEPT !.out = m]
    BY <2>1 DEF m
  <2>5. /\ GetKept(get, get', {"out", "connected", "shutdown"}) /\ get'.out = m
        /\ get'.connected = get.connected
    BY <1>1, <2>4 DEF GetKept, IsGet, GetFields
  <2> QED
    BY <1>2, <2>2, <2>3, <2>5 DEF FlowIInv
<1>4. CASE ReaderLeaves
  <2>1. get' = [get EXCEPT !.connected = FALSE, !.out = 0]
    BY <1>4 DEF ReaderLeaves
  <2>2. /\ GetKept(get, get', {"out", "connected", "shutdown"}) /\ get'.out = 0
        /\ get'.connected = FALSE
    BY <1>1, <2>1 DEF GetKept, IsGet, GetFields
  <2>3. PICK t : t = get'
    OBVIOUS
  <2>4. /\ GetKept(get, t, {"out", "connected", "shutdown"}) /\ t.out = 0 /\ t.connected = FALSE
    BY <2>2, <2>3
  <2>5. t.out \in Nat /\ t.out <= get.out
    BY <1>1, <2>4 DEF OutOK
  <2>6. t.connected \in BOOLEAN
    BY <2>4, Zenon
  <2>7. FlowOK(t)
    BY <1>2, <2>4, <2>5, <2>6, Zenon
  <2> QED
    BY <2>3, <2>7 DEF FlowIInv
<1>5. CASE GetShutdownBegins
  <2>1. get' = [get EXCEPT !.shutdown = TRUE]
    BY <1>5 DEF GetShutdownBegins
  <2>2. /\ GetKept(get, get', {"out", "connected", "shutdown"}) /\ get'.out = get.out
        /\ get'.connected = get.connected
    BY <1>1, <2>1 DEF GetKept, IsGet, GetFields
  <2>3. get.out <= get.out /\ get.out \in Nat
    BY <1>1 DEF OutOK
  <2> QED
    BY <1>1, <1>2, <2>2, <2>3 DEF FlowIInv, OutOK
<1> QED
  BY <1>3, <1>4, <1>5

\* A new GET, and one that is over before it begins.
LEMMA FlowBegins ==
    ASSUME PartedGets, NEW o \in Stored, NEW h \in Headers
    PROVE  /\ FlowOK(NewGet(o, h))
           /\ FlowOK([NewGet(o, h) EXCEPT !.gone = TRUE, !.op = "none"])
<1> DEFINE s == NewGet(o, h)
           t == [s EXCEPT !.gone = TRUE, !.op = "none"]
<1>1. /\ IsGet(s) /\ s.object = o /\ s.header = h /\ s.connected = TRUE /\ s.out = 0
      /\ s.gone = FALSE /\ s.timer = FALSE /\ s.op = "load" /\ s.sent = <<>>
  BY DEF NewGet, IsGet, GetFields
<1> HIDE DEF s
<1>2. GetKept(s, t, {"gone", "op"}) /\ t.gone = TRUE /\ t.op = "none"
  BY <1>1 DEF GetKept, IsGet, GetFields
<1> HIDE DEF t
<1>3. /\ IsGet(t) /\ t.object = o /\ t.header = h /\ t.connected = TRUE /\ t.out = 0
      /\ t.timer = FALSE
  BY <1>1, <1>2 DEF GetKept, GetFields
<1>4. ASSUME NEW q, IsGet(q), q.object = o, q.header = h, q.connected = TRUE, q.out = 0
      PROVE  OutOK(q)
  <2> DEFINE u == Unit(q)
  <2>1. /\ MaxBlocks \in Nat \ {0} /\ OutMultiple \in Nat \ {0}
    BY BlocksAssumption, OutMultipleAssumption
  <2>2. u \in Nat \ {0}
    BY <1>4 DEF PartedGets, PartedObject, Unit
  <2> HIDE DEF u
  <2>3. ASSUME NEW a \in Nat \ {0}, NEW b \in Nat \ {0} PROVE a * b \in Nat \ {0}
    BY <2>3
  <2>4. OutMultiple * MaxBlocks \in Nat \ {0} /\ MaxBlocks * u \in Nat \ {0}
    BY <2>1, <2>2, <2>3
  <2>5. OutMultiple * MaxBlocks * u \in Nat \ {0}
    BY <2>2, <2>3, <2>4
  <2> DEFINE x == OutMultiple * MaxBlocks * u
             y == MaxBlocks * u
  <2>6. x \in Nat \ {0} /\ y \in Nat \ {0}
    BY <2>4, <2>5
  <2> HIDE DEF x, y
  <2>7. 0 < x + y
    BY <2>6
  <2>8. OutLimit(q) + MaxBlocks * Unit(q) = x + y
    BY DEF OutLimit, x, y, u
  <2>9. q.out \in Nat /\ q.out < OutLimit(q) + MaxBlocks * Unit(q)
    <3> DEFINE z == OutLimit(q) + MaxBlocks * Unit(q)
    <3>1. 0 < z
      BY <2>7, <2>8
    <3> HIDE DEF z
    <3> QED
      BY <1>4, <3>1 DEF z
  <2> QED
    BY <1>4, <2>9, Zenon DEF OutOK
<1>5. OutOK(s) /\ OutOK(t)
  BY <1>1, <1>3, <1>4
<1>6. FlowOK(s) /\ FlowOK(t)
  BY <1>1, <1>2, <1>3, <1>5 DEF FlowOK
<1> QED
  BY <1>6 DEF s, t

\* Every step of a GET keeps it.
LEMMA FlowSteps ==
    ASSUME PartedGets, FlowIInv, [GetNext]_get
    PROVE  FlowIInv'
<1>1. CASE UNCHANGED get
  BY <1>1 DEF FlowIInv
<1> QED
  BY <1>1, FetchFlows, EventsFlow, AroundFlows DEF GetNext

\* What it says of the limit and of a GET that is gone.
LEMMA FlowImplies ==
    ASSUME PartedGets, FlowIInv
    PROVE  OutputIsBounded /\ GoneGetIsIdle
<1>1. OutOK(get)
  BY DEF FlowIInv, FlowOK
<1>2. OutputIsBounded
  <2> DEFINE u == Unit(get)
  <2>1. /\ u \in Nat \ {0} /\ MaxBlocks \in Nat \ {0} /\ OutMultiple \in Nat \ {0}
    BY <1>1, PartedFacts
  <2>2. get.out < (OutMultiple * MaxBlocks * u) + (MaxBlocks * u)
    BY <1>1 DEF OutOK, OutLimit
  <2> HIDE DEF u
  <2>3. (OutMultiple + 1) * MaxBlocks = (OutMultiple * MaxBlocks) + MaxBlocks
    BY <2>1, Distributes
  <2> DEFINE x == OutMultiple * MaxBlocks
  <2>4. x \in Int /\ (OutMultiple + 1) * MaxBlocks = x + MaxBlocks
    BY <2>1, <2>3
  <2> HIDE DEF x
  <2>5. (x + MaxBlocks) * u = (x * u) + (MaxBlocks * u)
    BY <2>1, <2>4, Distributes
  <2>6. get.out < ((OutMultiple + 1) * MaxBlocks) * u
    BY <2>2, <2>4, <2>5, Zenon DEF x
  <2> QED
    BY <2>6 DEF OutputIsBounded, u, Unit
<1>3. GoneGetIsIdle
  BY DEF FlowIInv, FlowOK, GoneGetIsIdle
<1> QED
  BY <1>2, <1>3

\* read_object_data's throttle and the end of the action: what waits for the
\* client is less than the write buffer and one read, and an action that is gone
\* has no operation under way that would call it back, for objects of any parts.
THEOREM GetsAreBoundedAndIdle ==
    PartedGets /\ GetSpec => [](OutputIsBounded /\ GoneGetIsIdle)
<1> SUFFICES ASSUME PartedGets PROVE GetSpec => [](OutputIsBounded /\ GoneGetIsIdle)
  OBVIOUS
<1>1. GetInit => FlowIInv
  BY FlowBegins DEF GetInit, FlowIInv
<1>2. FlowIInv /\ [GetNext]_get => FlowIInv'
  BY FlowSteps
<1>3. FlowIInv => OutputIsBounded /\ GoneGetIsIdle
  BY FlowImplies
<1> QED
  BY <1>1, <1>2, <1>3, PTL DEF GetSpec
=============================================================================
