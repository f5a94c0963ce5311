-------------------------- MODULE Requests_proofs ---------------------------
(***************************************************************************)
(* Proofs about the requests for metadata, for many objects and for        *)
(* listings, and about the services that requests share.                   *)
(*                                                                         *)
(* The requests that read and change metadata answer what they have done,  *)
(* for every set of requests, body and failure; a request that deletes     *)
(* many objects keeps the data of live ones, has dead data recorded until  *)
(* it is deleted, and reports what it did, for every request, bucket,      *)
(* batch size and failure.                                                 *)
(*                                                                         *)
(* A question to the authentication server, for every number of retries    *)
(* and combination of faults; the queue of audit log entries, for every    *)
(* number of entries, length and failure; the memory pools, for every set  *)
(* of unit sizes and every limit.                                          *)
(*                                                                         *)
(* A listing tells its client everything that stays, nothing twice and     *)
(* nothing that is not there, for every set of names, prefix, delimiter,   *)
(* page and read, and every change of the index meanwhile.                 *)
(***************************************************************************)
EXTENDS Listing, MetadataRequest, MultiDelete, AuthRequest, PostQueue, MemoryPool,
        SequenceTheorems, FiniteSetTheorems, WellFoundedInduction, TLAPS

-----------------------------------------------------------------------------
(* Requests for metadata.                                                  *)

MetaSpec == MetaInit /\ [][MetaNext]_mqVars

Fields == {"acl", "tags", "policy"}
Resources == {"object", "bucket"}
Steps ==
    {"bucket", "object", "authorize", "body", "tagBody", "validateAcl", "validateTags",
     "validatePolicy", "missing", "policy", "change", "save", "looping"}

\* The steps of a request that changes metadata end with the change and the
\* save of it, and there is no other of either.
Shaped(t) ==
    /\ Len(t) > 0 /\ t[Len(t)] = "save"
    /\ \A i \in 1 .. Len(t) : /\ t[i] = "save" => i = Len(t)
                              /\ t[i] = "change" <=> i + 1 = Len(t)
\* A request that reads has neither.
Harmless(t) == \A i \in 1 .. Len(t) : t[i] \notin {"change", "save"}
\* The metadata of an object is loaded for a request on an object only.
LoadsItsOwn(t, on) == on = "object" \/ \A i \in 1 .. Len(t) : t[i] # "object"
StepsOK(c, t) ==
    /\ IF c.field = "" THEN Harmless(t) ELSE Shaped(t)
    /\ LoadsItsOwn(t, c.on)
ClassOK(c) ==
    /\ c.on \in Resources /\ c.steps \in Seq(Steps) /\ c.checks \in BOOLEAN /\ c.sets \in BOOLEAN
    /\ c.field \in Fields \cup {""} /\ StepsOK(c, c.steps) /\ c.steps # <<>> /\ Head(c.steps) = "bucket"

LEMMA ConcatSteps ==
    ASSUME NEW p \in Seq(Steps), NEW s \in Seq(Steps), Harmless(p)
    PROVE  /\ p \o s \in Seq(Steps) /\ (p # <<>> => p \o s # <<>> /\ Head(p \o s) = Head(p))
           /\ Harmless(s) => Harmless(p \o s)
           /\ Shaped(s) /\ Len(s) > 1 => Shaped(p \o s)
           /\ \A on : LoadsItsOwn(p, on) /\ LoadsItsOwn(s, on) => LoadsItsOwn(p \o s, on)
<1> DEFINE t == p \o s
<1>1. /\ t \in Seq(Steps) /\ Len(t) = Len(p) + Len(s) /\ Len(p) \in Nat /\ Len(s) \in Nat
  OBVIOUS
<1>6. p # <<>> => t # <<>> /\ Head(t) = Head(p)
  OBVIOUS
<1>2. \A i \in 1 .. Len(t) : \/ i \in 1 .. Len(p) /\ t[i] = p[i]
                             \/ i - Len(p) \in 1 .. Len(s) /\ t[i] = s[i - Len(p)]
  OBVIOUS
<1>3. Harmless(s) => Harmless(t)
  BY <1>1, <1>2 DEF Harmless
<1>4. Shaped(s) /\ Len(s) > 1 => Shaped(t)
  <2> SUFFICES ASSUME Shaped(s), Len(s) > 1 PROVE Shaped(t)
    OBVIOUS
  <2>1. t[Len(t)] = s[Len(s)]
    OBVIOUS
  <2>2. ASSUME NEW i \in 1 .. Len(t)
        PROVE  (t[i] = "save" => i = Len(t)) /\ (t[i] = "change" <=> i + 1 = Len(t))
    <3>1. CASE i \in 1 .. Len(p) /\ t[i] = p[i]
      BY <3>1, <1>1 DEF Harmless
    <3>2. CASE i - Len(p) \in 1 .. Len(s) /\ t[i] = s[i - Len(p)]
      <4> DEFINE j == i - Len(p)
      <4>1. (s[j] = "save" => j = Len(s)) /\ (s[j] = "change" <=> j + 1 = Len(s))
        BY <3>2 DEF Shaped
      <4> QED
        BY <4>1, <3>2, <1>1
    <3> QED
      BY <3>1, <3>2, <1>2
  <2> QED
    BY <2>1, <2>2, <1>1 DEF Shaped
<1>5. ASSUME NEW on, LoadsItsOwn(p, on), LoadsItsOwn(s, on) PROVE LoadsItsOwn(t, on)
  BY <1>1, <1>2, <1>5 DEF LoadsItsOwn
<1> QED
  BY <1>1, <1>3, <1>4, <1>5, <1>6

LEMMA PrefixSteps ==
    /\ Harmless(<<"bucket", "authorize">>) /\ LoadsItsOwn(<<"bucket", "authorize">>, "bucket")
    /\ Harmless(<<"bucket", "object", "authorize">>)
    /\ <<"bucket", "authorize">> \in Seq(Steps) \ {<<>>}
    /\ <<"bucket", "object", "authorize">> \in Seq(Steps) \ {<<>>}
    /\ Head(<<"bucket", "authorize">>) = "bucket"
    /\ Head(<<"bucket", "object", "authorize">>) = "bucket"
<1> DEFINE b == <<"bucket", "authorize">>
           o == <<"bucket", "object", "authorize">>
<1>1. b \in Seq(Steps) \ {<<>>} /\ Len(b) = 2 /\ b[1] = "bucket" /\ b[2] = "authorize"
  BY DEF Steps
<1>2. /\ o \in Seq(Steps) \ {<<>>} /\ Len(o) = 3
      /\ o[1] = "bucket" /\ o[2] = "object" /\ o[3] = "authorize"
  BY DEF Steps
<1> HIDE DEF b, o
<1>3. Harmless(b) /\ LoadsItsOwn(b, "bucket") /\ Harmless(o)
  BY <1>1, <1>2 DEF Harmless, LoadsItsOwn
<1>4. Head(<<"bucket", "authorize">>) = "bucket" /\ Head(<<"bucket", "object", "authorize">>) = "bucket"
  OBVIOUS
<1> QED
  BY <1>1, <1>2, <1>3, <1>4 DEF b, o

\* A class that reads.
LEMMA ReadingClass ==
    ASSUME NEW s \in Seq(Steps), Harmless(s), LoadsItsOwn(s, "bucket")
    PROVE  ClassOK(OfBucket(s)) /\ ClassOK(OfObject(s)) /\ ClassOK(Unchecked(OfBucket(s)))
<1> DEFINE pb == <<"bucket", "authorize">>
           po == <<"bucket", "object", "authorize">>
           b == OfBucket(s)
           o == OfObject(s)
           u == Unchecked(b)
<1>1. /\ b.on = "bucket" /\ b.steps = pb \o s /\ b.field = "" /\ b.sets = FALSE /\ b.checks = TRUE
      /\ o.on = "object" /\ o.steps = po \o s /\ o.field = "" /\ o.sets = FALSE /\ o.checks = TRUE
      /\ u.on = "bucket" /\ u.steps = pb \o s /\ u.field = "" /\ u.sets = FALSE /\ u.checks = FALSE
  BY DEF OfBucket, OfObject, Unchecked
<1>2. /\ Harmless(pb \o s) /\ Harmless(po \o s) /\ LoadsItsOwn(pb \o s, "bucket")
      /\ LoadsItsOwn(po \o s, "object") /\ pb \o s \in Seq(Steps) /\ po \o s \in Seq(Steps)
      /\ pb \o s # <<>> /\ po \o s # <<>>
      /\ Head(pb \o s) = "bucket" /\ Head(po \o s) = "bucket"
  <2>1. LoadsItsOwn(po \o s, "object")
    BY DEF LoadsItsOwn
  <2> HIDE DEF pb, po
  <2> QED
    BY <2>1, ConcatSteps, PrefixSteps DEF pb, po
<1> HIDE DEF pb, po, b, o, u
<1>3. ClassOK(b) /\ ClassOK(u) /\ ClassOK(o)
  BY <1>1, <1>2 DEF ClassOK, StepsOK, Resources
<1> QED
  BY <1>3 DEF b, o, u

\* A class that changes metadata.
LEMMA WritingClass ==
    ASSUME NEW s \in Seq(Steps), Shaped(s), Len(s) > 1, LoadsItsOwn(s, "bucket"),
           NEW f \in Fields
    PROVE  /\ ClassOK(Sets(OfBucket(s), f)) /\ ClassOK(Sets(OfObject(s), f))
           /\ ClassOK(Deletes(OfBucket(s), f)) /\ ClassOK(Deletes(OfObject(s), f))
           /\ ClassOK(Unchecked(Deletes(OfBucket(s), f)))
<1> DEFINE pb == <<"bucket", "authorize">>
           po == <<"bucket", "object", "authorize">>
           b == Sets(OfBucket(s), f)
           o == Sets(OfObject(s), f)
           db == Deletes(OfBucket(s), f)
           do == Deletes(OfObject(s), f)
           u == Unchecked(db)
<1>1. /\ b.on = "bucket" /\ b.steps = pb \o s /\ b.field = f /\ b.sets = TRUE /\ b.checks = TRUE
      /\ o.on = "object" /\ o.steps = po \o s /\ o.field = f /\ o.sets = TRUE /\ o.checks = TRUE
      /\ db.on = "bucket" /\ db.steps = pb \o s /\ db.field = f /\ db.sets = FALSE /\ db.checks = TRUE
      /\ do.on = "object" /\ do.steps = po \o s /\ do.field = f /\ do.sets = FALSE /\ do.checks = TRUE
      /\ u.on = "bucket" /\ u.steps = pb \o s /\ u.field = f /\ u.sets = FALSE /\ u.checks = FALSE
  BY DEF OfBucket, OfObject, Unchecked, Sets, Deletes
<1>2. /\ Shaped(pb \o s) /\ Shaped(po \o s) /\ LoadsItsOwn(pb \o s, "bucket")
      /\ LoadsItsOwn(po \o s, "object") /\ pb \o s \in Seq(Steps) /\ po \o s \in Seq(Steps)
      /\ pb \o s # <<>> /\ po \o s # <<>>
      /\ Head(pb \o s) = "bucket" /\ Head(po \o s) = "bucket"
  <2>1. LoadsItsOwn(po \o s, "object")
    BY DEF LoadsItsOwn
  <2> HIDE DEF pb, po
  <2> QED
    BY <2>1, ConcatSteps, PrefixSteps DEF pb, po
<1> HIDE DEF pb, po, b, o, u, db, do
<1>3. f # ""
  BY DEF Fields
<1>4. ClassOK(b) /\ ClassOK(u) /\ ClassOK(o) /\ ClassOK(db) /\ ClassOK(do)
  BY <1>1, <1>2, <1>3 DEF ClassOK, StepsOK, Resources
<1> QED
  BY <1>4 DEF b, o, u, db, do

\* Every class is one of the two.
\* The steps that follow the authorization.
LEMMA ReadingSteps ==
    ASSUME NEW a \in Steps \ {"change", "save", "object"}
    PROVE  <<a>> \in Seq(Steps) /\ Harmless(<<a>>) /\ LoadsItsOwn(<<a>>, "bucket")
<1> DEFINE s == <<a>>
<1>1. s \in Seq(Steps) /\ Len(s) = 1 /\ s[1] = a
  OBVIOUS
<1> HIDE DEF s
<1>2. Harmless(s) /\ LoadsItsOwn(s, "bucket")
  BY <1>1 DEF Harmless, LoadsItsOwn
<1> QED
  BY <1>1, <1>2 DEF s

WritesLast(s) == s \in Seq(Steps) /\ Shaped(s) /\ Len(s) > 1 /\ LoadsItsOwn(s, "bucket")
LEMMA WritingSteps ==
    ASSUME NEW a \in Steps \ {"change", "save", "object"},
           NEW b \in Steps \ {"change", "save", "object"}
    PROVE  /\ WritesLast(<<"change", "save">>) /\ WritesLast(<<a, "change", "save">>)
           /\ WritesLast(<<a, b, "change", "save">>)
<1> DEFINE s == <<"change", "save">>
           t == <<a, "change", "save">>
           u == <<a, b, "change", "save">>
<1>1. s \in Seq(Steps) /\ Len(s) = 2 /\ s[1] = "change" /\ s[2] = "save"
  BY DEF Steps
<1>2. t \in Seq(Steps) /\ Len(t) = 3 /\ t[1] = a /\ t[2] = "change" /\ t[3] = "save"
  BY DEF Steps
<1>3. /\ u \in Seq(Steps) /\ Len(u) = 4
      /\ u[1] = a /\ u[2] = b /\ u[3] = "change" /\ u[4] = "save"
  BY DEF Steps
<1> HIDE DEF s, t, u
<1>4. Shaped(s) /\ LoadsItsOwn(s, "bucket")
  BY <1>1 DEF Shaped, LoadsItsOwn
<1>5. Shaped(t) /\ LoadsItsOwn(t, "bucket")
  BY <1>2 DEF Shaped, LoadsItsOwn
<1>6. Shaped(u) /\ LoadsItsOwn(u, "bucket")
  BY <1>3 DEF Shaped, LoadsItsOwn
<1> QED
  <2>1. WritesLast(s) /\ WritesLast(t) /\ WritesLast(u)
    BY <1>1, <1>2, <1>3, <1>4, <1>5, <1>6 DEF WritesLast
  <2> QED
    BY <2>1 DEF s, t, u

LEMMA Classes ==
    /\ \A k \in DOMAIN Class : ClassOK(Class[k])
    /\ "deleteBucketPolicy" \in DOMAIN Class /\ Class["deleteBucketPolicy"].field # ""
<1>1. /\ ClassOK(GetObjectTags) /\ ClassOK(GetObjectAcl) /\ ClassOK(GetBucketAcl)
      /\ ClassOK(HeadObject) /\ ClassOK(HeadBucket)
  <2>1. <<>> \in Seq(Steps) /\ Harmless(<<>>) /\ LoadsItsOwn(<<>>, "bucket")
    BY DEF Harmless, LoadsItsOwn
  <2> QED
    BY <2>1, ReadingClass DEF GetObjectTags, GetObjectAcl, GetBucketAcl, HeadObject, HeadBucket
<1>2. ClassOK(GetBucketPolicy) /\ ClassOK(GetBucketTags)
  <2>1. /\ <<"missing">> \in Seq(Steps) /\ Harmless(<<"missing">>)
        /\ LoadsItsOwn(<<"missing">>, "bucket")
    BY ReadingSteps DEF Steps
  <2> QED
    BY <2>1, ReadingClass DEF GetBucketPolicy, GetBucketTags
<1>3. ClassOK(GetBucketLocation)
  <2>1. /\ <<"bucket">> \in Seq(Steps) /\ Harmless(<<"bucket">>)
        /\ LoadsItsOwn(<<"bucket">>, "bucket")
    BY ReadingSteps DEF Steps
  <2> QED
    BY <2>1, ReadingClass DEF GetBucketLocation
<1>4. ClassOK(PutObjectAcl) /\ ClassOK(PutBucketAcl)
  <2> DEFINE s == <<"body", "validateAcl", "change", "save">>
  <2>1. WritesLast(s)
    <3>1. "body" \in Steps \ {"change", "save", "object"}
      BY DEF Steps
    <3> QED
      BY <3>1, WritingSteps DEF Steps
  <2> QED
    BY <2>1, WritingClass DEF WritesLast, PutObjectAcl, PutBucketAcl, Fields
<1>5. ClassOK(PutObjectTags) /\ ClassOK(PutBucketTags)
  <2> DEFINE s == <<"tagBody", "validateTags", "change", "save">>
  <2>1. WritesLast(s)
    <3>1. "body" \in Steps \ {"change", "save", "object"}
      BY DEF Steps
    <3> QED
      BY <3>1, WritingSteps DEF Steps
  <2> QED
    BY <2>1, WritingClass DEF WritesLast, PutObjectTags, PutBucketTags, Fields
<1>6. ClassOK(PutBucketPolicy)
  <2> DEFINE s == <<"body", "validatePolicy", "change", "save">>
  <2>1. WritesLast(s)
    <3>1. "body" \in Steps \ {"change", "save", "object"}
      BY DEF Steps
    <3> QED
      BY <3>1, WritingSteps DEF Steps
  <2> QED
    BY <2>1, WritingClass DEF WritesLast, PutBucketPolicy, Fields
<1>7. ClassOK(DeleteObjectTags) /\ ClassOK(DeleteBucketTags)
  <2> DEFINE s == <<"change", "save">>
  <2>1. WritesLast(s)
    <3>1. "body" \in Steps \ {"change", "save", "object"}
      BY DEF Steps
    <3> QED
      BY <3>1, WritingSteps DEF Steps
  <2> QED
    BY <2>1, WritingClass DEF WritesLast, DeleteObjectTags, DeleteBucketTags, Fields
<1>8. ClassOK(DeleteBucketPolicy)
  <2> DEFINE s == <<"policy", "change", "save">>
  <2>1. WritesLast(s)
    <3>1. "body" \in Steps \ {"change", "save", "object"}
      BY DEF Steps
    <3> QED
      BY <3>1, WritingSteps DEF Steps
  <2> QED
    BY <2>1, WritingClass DEF WritesLast, DeleteBucketPolicy, Fields
<1>9. DeleteBucketPolicy.field = "policy"
  BY DEF DeleteBucketPolicy, Unchecked, Deletes, OfBucket
<1>10. DOMAIN Class =
         {"putObjectAcl", "putBucketAcl", "putObjectTags", "putBucketTags", "putBucketPolicy",
          "deleteObjectTags", "deleteBucketTags", "deleteBucketPolicy", "getBucketPolicy",
          "getBucketTags", "getObjectTags", "getObjectAcl", "getBucketAcl", "headObject",
          "headBucket", "getBucketLocation"}
  BY DEF Class
<1>11. /\ Class["putObjectAcl"] = PutObjectAcl
       /\ Class["putBucketAcl"] = PutBucketAcl
       /\ Class["putObjectTags"] = PutObjectTags
       /\ Class["putBucketTags"] = PutBucketTags
       /\ Class["putBucketPolicy"] = PutBucketPolicy
       /\ Class["deleteObjectTags"] = DeleteObjectTags
       /\ Class["deleteBucketTags"] = DeleteBucketTags
       /\ Class["deleteBucketPolicy"] = DeleteBucketPolicy
       /\ Class["getBucketPolicy"] = GetBucketPolicy
       /\ Class["getBucketTags"] = GetBucketTags
       /\ Class["getObjectTags"] = GetObjectTags
       /\ Class["getObjectAcl"] = GetObjectAcl
       /\ Class["getBucketAcl"] = GetBucketAcl
       /\ Class["headObject"] = HeadObject
       /\ Class["headBucket"] = HeadBucket
       /\ Class["getBucketLocation"] = GetBucketLocation
  BY DEF Class
<1> QED
  BY <1>1, <1>2, <1>3, <1>4, <1>5, <1>6, <1>7, <1>8, <1>9, <1>10, <1>11

-----------------------------------------------------------------------------
(* The inductive invariant.                                                *)

Values == {"set", "none", "unread"} \cup DOMAIN mq
Answers == {"none", "ok", "error", "denied", "refused", "shuttingDown"}
MetaRecord ==
    [kind : DOMAIN Class, todo : Seq(Steps), error : {"ok", "error"}, copy : [Fields -> Values],
     body : Seq({"tag", "longTag", "badTag", "blank"}), checks : BOOLEAN,
     connected : BOOLEAN, reply : Answers, saved : BOOLEAN]
MetaTypeOK ==
    /\ mq = [r \in DOMAIN mq |-> mq[r]]
    /\ \A r \in DOMAIN mq : mq[r] \in MetaRecord
    /\ meta \in [Resources -> [Fields -> Values]]
    /\ mqShutdown \in BOOLEAN
    /\ DOMAIN mq \cap {"set", "none", "unread"} = {}

Writes(m) == Class[m.kind].field # ""
\* What a request has before it follows from where it is; one that is at its
\* save does not look at a shutdown, and has no answer.
Running(m) ==
    /\ m.reply = "none" /\ ~m.saved
    /\ \/ m.todo = <<"looping">>
       \/ /\ StepsOK(Class[m.kind], m.todo)
          /\ m.todo = <<"save">> => ~m.checks \/ m.kind = "deleteBucketTags"
Over(m) ==
    /\ Writes(m) /\ m.reply = "ok" => m.saved
    /\ m.reply = "shuttingDown" /\ m.kind # "deleteBucketTags" => ~m.saved
    /\ m.saved => m.reply \notin {"denied", "refused"}
RequestOK(m) == IF m.todo = <<>> THEN Over(m) ELSE Running(m)

\* The mark of a request is in the metadata or in a copy only after the request
\* was authorized and found valid.
Accepted(m) == m.todo = <<"save">> \/ (m.todo = <<>> /\ m.reply \notin {"denied", "refused"})
Marked(q) ==
    \/ \E res \in Resources, f \in Fields : meta[res][f] = q
    \/ \E r \in DOMAIN mq, f \in Fields : mq[r].copy[f] = q
MarksAreAccepted == \A q \in DOMAIN mq : Marked(q) => Accepted(mq[q])

MetaIInv ==
    /\ MetaTypeOK /\ \A r \in DOMAIN mq : RequestOK(mq[r])
    /\ MarksAreAccepted

-----------------------------------------------------------------------------
(* One step along the list of steps.                                       *)

\* What is left of the steps of a class is as the class is, and the save is the
\* last step, after the change.
LEMMA TailSteps ==
    ASSUME NEW c, NEW t \in Seq(Steps), t # <<>>, StepsOK(c, t)
    PROVE  /\ Tail(t) \in Seq(Steps) /\ Head(t) \in Steps
           /\ Tail(t) # <<>> => StepsOK(c, Tail(t))
           /\ Tail(t) = <<>> /\ c.field # "" => Head(t) = "save"
           /\ Head(t) = "save" => c.field # "" /\ Tail(t) = <<>>
           /\ Tail(t) = <<"save">> => Head(t) = "change"
           /\ Head(t) = "change" => c.field # "" /\ Tail(t) = <<"save">>
           /\ Head(t) = "object" => c.on = "object"
           /\ t = <<"save">> <=> Head(t) = "save"
           /\ t # <<"looping">> \/ c.field = ""
<1> DEFINE u == Tail(t)
           n == Len(t)
<1>1. /\ u \in Seq(Steps) /\ Head(t) = t[1] /\ t[1] \in Steps /\ n \in Nat /\ n > 0
      /\ Len(u) = n - 1
  OBVIOUS
<1>2. \A i \in 1 .. n - 1 : u[i] = t[i + 1]
  OBVIOUS
<1>a. \A s \in Seq(Steps) : s = <<>> <=> Len(s) = 0
  OBVIOUS
<1> HIDE DEF u, n
<1>b. u = <<>> <=> n = 1
  BY <1>a, <1>1
<1>c. c.on = "object" \/ \A i \in 1 .. n : t[i] # "object"
  BY DEF StepsOK, LoadsItsOwn, n
<1>3. Head(t) = "object" => c.on = "object"
  BY <1>c, <1>1
<1>4. LoadsItsOwn(u, c.on)
  <2>1. ASSUME NEW i \in 1 .. n - 1, c.on # "object" PROVE u[i] # "object"
    BY <2>1, <1>c, <1>1, <1>2
  <2> QED
    BY <2>1, <1>1 DEF LoadsItsOwn
<1>5. \A s \in Seq(Steps), a \in Steps : s = <<a>> <=> Len(s) = 1 /\ s[1] = a
  <2> TAKE s \in Seq(Steps), a \in Steps
  <2>1. Len(<<a>>) = 1 /\ <<a>>[1] = a /\ <<a>> \in Seq(Steps)
    OBVIOUS
  <2>2. ASSUME Len(s) = 1, s[1] = a PROVE s = <<a>>
    <3>1. s = [i \in 1 .. 1 |-> s[i]]
      BY <2>2
    <3>2. <<a>> = [i \in 1 .. 1 |-> a]
      OBVIOUS
    <3> QED
      BY <3>1, <3>2, <2>2
  <2> QED
    BY <2>1, <2>2
<1>6. \A s \in Seq(Steps) : /\ s = <<"save">> <=> Len(s) = 1 /\ s[1] = "save"
                            /\ s = <<"looping">> <=> Len(s) = 1 /\ s[1] = "looping"
  BY <1>5 DEF Steps
<1>7. CASE c.field = ""
  <2>1. \A i \in 1 .. n : t[i] \notin {"change", "save"}
    BY <1>7 DEF StepsOK, Harmless, n
  <2>2. \A i \in 1 .. n - 1 : u[i] \notin {"change", "save"}
    BY <2>1, <1>1, <1>2
  <2>3. Harmless(u) /\ t # <<"save">> /\ u # <<"save">>
    BY <2>1, <2>2, <1>1, <1>6 DEF Harmless, n
  <2> QED
    <3>1. StepsOK(c, u)
      BY <2>3, <1>7, <1>4 DEF StepsOK
    <3>2. t[1] \notin {"change", "save"}
      BY <2>1, <1>1
    <3> QED
      BY <3>1, <3>2, <2>3, <1>7, <1>1, <1>3 DEF u
<1>8. CASE c.field # ""
  <2>1. /\ t[n] = "save"
        /\ \A i \in 1 .. n : (t[i] = "save" => i = n) /\ (t[i] = "change" <=> i + 1 = n)
    BY <1>8 DEF StepsOK, Shaped, n
  <2>2. n > 1 => Shaped(u)
    <3> SUFFICES ASSUME n > 1 PROVE Shaped(u)
      OBVIOUS
    <3>1. u[Len(u)] = "save"
      BY <1>1, <1>2, <2>1
    <3>2. ASSUME NEW i \in 1 .. n - 1
          PROVE  (u[i] = "save" => i = n - 1) /\ (u[i] = "change" <=> i + 1 = n - 1)
      <4>1. i + 1 \in 1 .. n /\ i \in Nat
        BY <1>1
      <4>2. (t[i + 1] = "save" => i + 1 = n) /\ (t[i + 1] = "change" <=> i + 1 + 1 = n)
        BY <4>1, <2>1
      <4> QED
        BY <4>1, <4>2, <1>2, <1>1
    <3> QED
      BY <3>1, <3>2, <1>1 DEF Shaped
  <2>3. (n = 1 <=> t[1] = "save") /\ (n = 2 <=> t[1] = "change")
    BY <2>1, <1>1
  <2>4. u = <<"save">> <=> n = 2
    <3>1. u = <<"save">> <=> n - 1 = 1 /\ u[1] = "save"
      BY <1>1, <1>6
    <3>2. n = 2 => u[1] = t[1 + 1] /\ t[2] = "save"
      BY <1>2, <2>1
    <3> QED
      BY <3>1, <3>2, <1>1
  <2>5. (t = <<"save">> <=> t[1] = "save") /\ t # <<"looping">>
    BY <2>3, <1>1, <1>6 DEF n
  <2>6. n = 1 \/ n > 1
    BY <1>1
  <2>7. u # <<>> => StepsOK(c, u)
    BY <2>2, <2>6, <1>b, <1>8, <1>4 DEF StepsOK
  <2> QED
    BY <2>3, <2>4, <2>5, <2>7, <1>8, <1>1, <1>3, <1>b DEF u
<1> QED
  BY <1>7, <1>8

\* All but the steps, the answer and the field that is said to change.
SameFor(m, n) ==
    /\ n \in MetaRecord /\ n.kind = m.kind /\ n.saved = m.saved /\ n.checks = m.checks
    /\ n.copy = m.copy /\ n.connected = m.connected

\* send_response_to_s3_client.
LEMMA EndedIs ==
    ASSUME NEW m \in MetaRecord, NEW e \in Answers
    PROVE  /\ SameFor(m, Ended(m, e)) /\ Ended(m, e).todo = <<>>
           /\ Ended(m, e).reply = m.reply \/ Ended(m, e).reply = e
           /\ Ended(m, e).error = m.error
<1>1. PICK a \in Answers : a = IF m.connected /\ m.reply = "none" THEN e ELSE m.reply
  BY DEF MetaRecord
<1>2. Ended(m, e) = [m EXCEPT !.todo = <<>>, !.reply = a]
  BY <1>1 DEF Ended
<1>3. <<>> \in Seq(Steps)
  OBVIOUS
<1>4. [m EXCEPT !.todo = <<>>, !.reply = a] \in MetaRecord
  BY <1>3 DEF MetaRecord
<1> QED
  BY <1>1, <1>2, <1>4 DEF MetaRecord, SameFor

\* What a request that has no answer yet becomes.
Proceeds(m, n) ==
    /\ SameFor(m, n)
    /\ \/ n.todo = <<>> /\ n.reply \in {"none", "error", "denied", "refused"}
       \/ n.todo = <<>> /\ n.reply = "shuttingDown" /\ m.checks
       \/ n.todo = <<>> /\ n.reply = m.error /\ Tail(m.todo) = <<>>
       \/ n.todo = Tail(m.todo) /\ n.reply = "none"
       \/ n.todo = <<"looping">> /\ n.reply = "none"

\* Action::next.
LEMMA GoesOnIs ==
    ASSUME MetaTypeOK, NEW m \in MetaRecord, m.todo # <<>>, m.reply = "none"
    PROVE  /\ Proceeds(m, GoesOn(m))
           /\ GoesOn(m).todo = <<>> =>
                 \/ GoesOn(m).reply \in {"none", m.error}
                 \/ GoesOn(m).reply = "shuttingDown" /\ m.checks
<1>1. CASE mqShutdown /\ m.checks
  BY <1>1, EndedIs DEF GoesOn, Proceeds, Answers
<1>2. CASE ~(mqShutdown /\ m.checks) /\ ~m.connected
  BY <1>2, EndedIs DEF GoesOn, Proceeds, Answers
<1>3. CASE ~(mqShutdown /\ m.checks) /\ m.connected /\ Tail(m.todo) = <<>>
  <2>1. m.error \in Answers
    BY DEF MetaRecord, Answers
  <2>2. GoesOn(m) = Ended(m, m.error)
    BY <1>3 DEF GoesOn
  <2> QED
    BY <1>3, <2>1, <2>2, EndedIs DEF Proceeds
<1>4. CASE ~(mqShutdown /\ m.checks) /\ m.connected /\ Tail(m.todo) # <<>>
  <2>1. Tail(m.todo) \in Seq(Steps)
    BY DEF MetaRecord
  <2>2. GoesOn(m) = [m EXCEPT !.todo = Tail(m.todo)]
    BY <1>4 DEF GoesOn
  <2>3. [m EXCEPT !.todo = Tail(m.todo)] \in MetaRecord
    BY <2>1 DEF MetaRecord
  <2> QED
    BY <1>4, <2>2, <2>3 DEF Proceeds, SameFor, MetaRecord
<1> QED
  BY <1>1, <1>2, <1>3, <1>4

\* A step that is neither the change nor the save keeps a request in order.
LEMMA ProceedsOK ==
    ASSUME MetaTypeOK, NEW m \in MetaRecord, RequestOK(m), m.todo # <<>>,
           Head(m.todo) \notin {"change", "save", "looping"},
           NEW m2 \in MetaRecord, m2.kind = m.kind, m2.todo = m.todo, m2.saved = m.saved,
           NEW n, Proceeds(m2, n)
    PROVE  RequestOK(n) /\ ~Accepted(m)
<1> DEFINE t == m.todo
           c == Class[m.kind]
<1>1. /\ m.reply = "none" /\ ~m.saved /\ t \in Seq(Steps) /\ m.kind \in DOMAIN Class
      /\ n.kind = m.kind /\ n.saved = m.saved /\ n \in MetaRecord
  BY DEF RequestOK, Running, Proceeds, SameFor, MetaRecord
<1>2. t # <<"looping">>
  <2>1. Head(<<"looping">>) = "looping"
    OBVIOUS
  <2> QED
    BY <2>1
<1>3. StepsOK(c, t)
  BY <1>2 DEF RequestOK, Running
<1>4. /\ Tail(t) # <<>> => StepsOK(c, Tail(t))
      /\ Tail(t) = <<>> => c.field = ""
      /\ Tail(t) # <<"save">> /\ t # <<"save">>
  BY <1>3, <1>1, TailSteps
<1> HIDE DEF t
<1>5. ~Accepted(m)
  BY <1>4 DEF Accepted, t
<1>6. CASE n.todo = <<>>
  <2>1. n.reply = "ok" => ~Writes(n)
    <3>1. n.reply = "ok" => Tail(m2.todo) = <<>> \/ (n.todo = Tail(m2.todo) /\ n.reply = "none") \/ n.reply = "none"
      BY <1>6 DEF Proceeds
    <3> QED
      BY <3>1, <1>4, <1>1 DEF Writes, t
  <2> QED
    BY <2>1, <1>6, <1>1, <1>5 DEF RequestOK, Over
<1>7. CASE n.todo # <<>>
  <2>1. n.reply = "none" /\ ~n.saved
    BY <1>7, <1>1 DEF Proceeds
  <2>2. n.todo = <<"looping">> \/ (n.todo = Tail(t) /\ n.todo # <<>>)
    BY <1>7 DEF Proceeds, t
  <2> QED
    BY <2>1, <2>2, <1>7, <1>1, <1>4, <1>5 DEF RequestOK, Running
<1> QED
  BY <1>5, <1>6, <1>7

-----------------------------------------------------------------------------
(* One step of the system.                                                 *)

LEMMA MetaInitIInv == MetaInit => MetaIInv
<1> SUFFICES ASSUME MetaInit PROVE MetaIInv
  OBVIOUS
<1>1. PICK g \in MetaRequests : mq = [r \in DOMAIN g |-> NewMetaRequest(g[r])]
  BY DEF MetaInit
<1>2. PICK v \in {"set", "none"} :
         meta = [object |-> [acl |-> "set", tags |-> "set", policy |-> "none"],
                 bucket |-> [acl |-> "set", tags |-> "set", policy |-> v]]
  BY DEF MetaInit
<1>3. DOMAIN mq = DOMAIN g /\ DOMAIN mq \cap {"set", "none", "unread"} = {}
  BY <1>1, MetaAssumption
<1>4. ASSUME NEW r \in DOMAIN mq
      PROVE  /\ mq[r] \in MetaRecord /\ RequestOK(mq[r])
             /\ \A f \in Fields : mq[r].copy[f] = "unread"
  <2>1. g[r] \in DOMAIN Class /\ mq[r] = NewMetaRequest(g[r])
    BY <1>1, <1>3, MetaAssumption
  <2> DEFINE c == Class[g[r]]
             m == NewMetaRequest(g[r])
             k == [acl |-> "unread", tags |-> "unread", policy |-> "unread"]
  <2>2. ClassOK(c)
    BY <2>1, Classes
  <2>3. k \in [Fields -> Values] /\ \A f \in Fields : k[f] = "unread"
    BY DEF Fields, Values
  <2>4. /\ m.kind = g[r] /\ m.todo = c.steps /\ m.error = "ok" /\ m.copy = k /\ m.body = <<>>
        /\ m.checks = c.checks /\ m.reply = "none" /\ ~m.saved
    BY DEF NewMetaRequest
  <2>5. m \in MetaRecord
    <3> HIDE DEF k, c
    <3>1. <<>> \in Seq({"tag", "longTag", "badTag", "blank"})
      OBVIOUS
    <3> QED
      BY <2>1, <2>2, <2>3, <3>1 DEF NewMetaRequest, MetaRecord, Answers, ClassOK, c, k
  <2>6. StepsOK(c, c.steps) /\ c.steps # <<>> /\ c.steps # <<"save">>
    <3>1. c.steps # <<"save">>
      BY <2>2, TailSteps DEF ClassOK
    <3> QED
      BY <3>1, <2>2 DEF ClassOK
  <2>7. RequestOK(m)
    BY <2>4, <2>6 DEF RequestOK, Running
  <2> QED
    BY <2>1, <2>3, <2>4, <2>5, <2>7
<1>5. meta \in [Resources -> [Fields -> Values]] /\ \A q \in DOMAIN mq : ~Marked(q)
  <2>1. /\ DOMAIN meta = Resources
        /\ \A res \in Resources : /\ meta[res] \in [Fields -> Values]
                                  /\ \A f \in Fields : meta[res][f] \in {"set", "none"}
    BY <1>2 DEF Resources, Fields, Values
  <2>2. meta = [res \in Resources |-> meta[res]]
    BY <1>2 DEF Resources
  <2> QED
    BY <2>1, <2>2, <1>3, <1>4 DEF Marked
<1>6. MetaTypeOK
  BY <1>1, <1>3, <1>4, <1>5 DEF MetaTypeOK, MetaInit
<1> QED
  BY <1>4, <1>5, <1>6 DEF MetaIInv, MarksAreAccepted

\* A step that changes a request, and not the metadata.
LEMMA MetaFrame ==
    ASSUME MetaIInv, NEW r \in DOMAIN mq, NEW n \in MetaRecord, MetaBecomes(r, n),
           n.kind = mq[r].kind, n.saved = mq[r].saved, RequestOK(n),
           \A f \in Fields : \/ n.copy[f] = mq[r].copy[f] \/ n.copy[f] = "none"
                             \/ n.copy[f] = meta[On(r)][f]
                             \/ n.copy[f] = r /\ Accepted(n),
           Accepted(mq[r]) => Accepted(n)
    PROVE  MetaIInv'
<1>1. /\ mq' = [mq EXCEPT ![r] = n] /\ meta' = meta /\ mqShutdown' = mqShutdown
      /\ mq = [q \in DOMAIN mq |-> mq[q]] /\ \A q \in DOMAIN mq : mq[q] \in MetaRecord
      /\ meta \in [Resources -> [Fields -> Values]]
  BY DEF MetaBecomes, MetaIInv, MetaTypeOK
<1>2. /\ DOMAIN mq' = DOMAIN mq /\ mq' = [q \in DOMAIN mq' |-> mq'[q]]
      /\ mq'[r] = n /\ \A q \in DOMAIN mq : q # r => mq'[q] = mq[q]
  BY <1>1
<1>3. MetaRecord' = MetaRecord /\ Values' = Values
  BY <1>2 DEF MetaRecord, Values
<1>4. MetaTypeOK'
  BY <1>1, <1>2, <1>3 DEF MetaTypeOK, MetaIInv
<1>5. \A q \in DOMAIN mq' : RequestOK(mq'[q])
  BY <1>2 DEF MetaIInv
<1>6. \A q \in DOMAIN mq : On(q)' = On(q) /\ FieldOf(q)' = FieldOf(q)
  BY <1>2 DEF On, FieldOf
<1>7. On(r) \in Resources
  BY <1>1, Classes DEF On, MetaRecord, ClassOK
<1>8. MarksAreAccepted'
  <2> SUFFICES ASSUME NEW q \in DOMAIN mq, Marked(q)' PROVE Accepted(mq'[q])
    BY <1>2 DEF MarksAreAccepted, Accepted
  <2>1. Marked(q) \/ (q = r /\ Accepted(n))
    <3>1. CASE \E res \in Resources, f \in Fields : meta[res][f] = q
      BY <3>1 DEF Marked
    <3>2. ASSUME NEW p \in DOMAIN mq, NEW f \in Fields, mq'[p].copy[f] = q
          PROVE  Marked(q) \/ (q = r /\ Accepted(n))
      <4>1. q # "none"
        BY DEF MetaIInv, MetaTypeOK
      <4>2. CASE p # r
        BY <3>2, <4>2, <1>2 DEF Marked
      <4>3. CASE p = r
        BY <3>2, <4>1, <4>3, <1>2, <1>7 DEF Marked
      <4> QED
        BY <4>2, <4>3
    <3> QED
      BY <3>1, <3>2, <1>1, <1>2 DEF Marked
  <2> QED
    BY <2>1, <1>2 DEF MetaIInv, MarksAreAccepted
<1> QED
  BY <1>4, <1>5, <1>8 DEF MetaIInv

\* A step that is neither the change nor the save.
LEMMA MetaProceeds ==
    ASSUME MetaIInv, NEW r \in DOMAIN mq, mq[r].todo # <<>>,
           Head(mq[r].todo) \notin {"change", "save", "looping"},
           NEW m \in MetaRecord, m.kind = mq[r].kind, m.todo = mq[r].todo, m.saved = mq[r].saved,
           m.copy = mq[r].copy \/ m.copy = meta[On(r)],
           NEW n, Proceeds(m, n), MetaBecomes(r, n)
    PROVE  MetaIInv'
<1>1. RequestOK(n) /\ ~Accepted(mq[r])
  BY ProceedsOK DEF MetaIInv, MetaTypeOK
<1>2. n \in MetaRecord /\ n.kind = mq[r].kind /\ n.saved = mq[r].saved /\ n.copy = m.copy
  BY DEF Proceeds, SameFor
<1>3. \A f \in Fields : n.copy[f] = mq[r].copy[f] \/ n.copy[f] = meta[On(r)][f]
  BY <1>2
<1> QED
  BY <1>1, <1>2, <1>3, MetaFrame

\* What a request that waits for a step is.
LEMMA AtStep ==
    ASSUME MetaIInv, NEW r \in DOMAIN mq, NEW step, Step(r, step)
    PROVE  /\ mq[r] \in MetaRecord /\ mq[r].todo # <<>> /\ Head(mq[r].todo) = step
           /\ mq[r].reply = "none" /\ ~mq[r].saved /\ On(r) \in Resources
           /\ meta[On(r)] \in [Fields -> Values] /\ mq[r].kind \in DOMAIN Class
           /\ mq[r].todo # <<"looping">>
<1>1. /\ mq[r] \in MetaRecord /\ mq[r].todo # <<>> /\ Head(mq[r].todo) = step
      /\ mq[r].todo # <<"looping">> /\ mq[r].kind \in DOMAIN Class /\ RequestOK(mq[r])
  BY DEF MetaIInv, MetaTypeOK, Step, Idle, MetaRecord
<1>2. On(r) \in Resources
  BY <1>1, Classes DEF On, ClassOK
<1> QED
  BY <1>1, <1>2 DEF RequestOK, Running, MetaIInv, MetaTypeOK

\* A request that fails in a step before the change.
LEMMA MetaFailsKeeps ==
    ASSUME MetaIInv, NEW r \in DOMAIN mq, NEW step \in Steps \ {"change", "save", "looping"},
           Step(r, step), NEW m \in MetaRecord,
           m = mq[r], NEW e \in {"error", "denied", "refused"}, MetaBecomes(r, Ended(m, e))
    PROVE  MetaIInv'
<1>1. Proceeds(m, Ended(m, e))
  BY EndedIs, AtStep DEF Proceeds, Answers
<1> QED
  BY <1>1, MetaProceeds, AtStep

\* A request that goes on after a step before the change.
LEMMA MetaGoesOnKeeps ==
    ASSUME MetaIInv, NEW r \in DOMAIN mq, NEW step \in Steps \ {"change", "save", "looping"},
           Step(r, step),
           NEW m \in MetaRecord, m.kind = mq[r].kind, m.todo = mq[r].todo, m.saved = mq[r].saved,
           m.reply = mq[r].reply,
           m.copy = mq[r].copy \/ m.copy = meta[On(r)],
           MetaBecomes(r, GoesOn(m))
    PROVE  MetaIInv'
<1>1. Proceeds(m, GoesOn(m))
  BY GoesOnIs, AtStep DEF MetaIInv
<1> QED
  BY <1>1, MetaProceeds, AtStep

LEMMA FetchKeeps ==
    ASSUME MetaIInv, NEW r \in DOMAIN mq, FetchBucketInfo(r) \/ FetchObjectInfo(r)
    PROVE  MetaIInv'
<1> DEFINE m == mq[r]
<1>1. PICK step \in {"bucket", "object"} :
         /\ Step(r, step) /\ (step = "bucket" <=> FetchBucketInfo(r))
         /\ step \in Steps \ {"change", "save", "looping"}
  BY DEF FetchBucketInfo, FetchObjectInfo, Step, Steps
<1>2. m \in MetaRecord /\ meta[On(r)] \in [Fields -> Values] /\ m.kind \in DOMAIN Class
  BY <1>1, AtStep
<1>3. ASSUME MetaFails(r, "load", "error") PROVE MetaIInv'
  BY <1>1, <1>2, <1>3, MetaFailsKeeps DEF MetaFails
<1>4. ASSUME NEW res \in Resources, res = On(r), MetaBecomes(r, GoesOn(Loaded(r, res)))
      PROVE  MetaIInv'
  <2> DEFINE n == Loaded(r, res)
  <2>1. n = [m EXCEPT !.copy = meta[res]]
    BY DEF Loaded
  <2>2. /\ n \in MetaRecord /\ n.kind = m.kind /\ n.todo = m.todo /\ n.saved = m.saved
        /\ n.reply = m.reply /\ n.copy = meta[res]
    BY <2>1, <1>2, <1>4 DEF MetaRecord
  <2> QED
    BY <2>2, <1>4, <1>1, MetaGoesOnKeeps
<1>5. ASSUME MetaBecomes(r, GoesOn(m)) PROVE MetaIInv'
  BY <1>5, <1>1, <1>2, MetaGoesOnKeeps
<1>6. ASSUME MetaBecomes(r, GoesOn([m EXCEPT !.error = "error"])) PROVE MetaIInv'
  <2> DEFINE n == [m EXCEPT !.error = "error"]
  <2>1. /\ n \in MetaRecord /\ n.kind = m.kind /\ n.todo = m.todo /\ n.saved = m.saved
        /\ n.reply = m.reply /\ n.copy = m.copy
    BY <1>2 DEF MetaRecord
  <2> QED
    BY <2>1, <1>6, <1>1, MetaGoesOnKeeps
<1>7. CASE FetchBucketInfo(r)
  BY <1>7, <1>3, <1>4, <1>5, <1>6 DEF FetchBucketInfo, Resources
<1>8. CASE FetchObjectInfo(r)
  <2>1. "object" = On(r)
    <3>1. Step(r, "object")
      BY <1>8 DEF FetchObjectInfo
    <3>2. m.todo # <<>> /\ Head(m.todo) = "object" /\ m.todo \in Seq(Steps) /\ m.todo # <<"looping">>
      BY <3>1, AtStep DEF MetaRecord
    <3>3. StepsOK(Class[m.kind], m.todo)
      BY <3>2 DEF MetaIInv, RequestOK, Running
    <3> QED
      BY <3>2, <3>3, TailSteps DEF On
  <2> QED
    BY <2>1, <1>8, <1>3, <1>4 DEF FetchObjectInfo, Resources
<1> QED
  BY <1>7, <1>8

LEMMA ChecksKeep ==
    ASSUME MetaIInv, NEW r \in DOMAIN mq,
           \/ Authorize(r) \/ BodyTimeout(r) \/ BodyArrives(r)
           \/ ValidateAcl(r) \/ ValidatePolicy(r) \/ ValidateTags(r)
    PROVE  MetaIInv'
<1> DEFINE m == mq[r]
<1>1. PICK step \in Steps \ {"change", "save", "looping"} :
         /\ Step(r, step)
         /\ \/ MetaBecomes(r, GoesOn(m))
            \/ \E e \in {"error", "denied", "refused"} : MetaBecomes(r, Ended(m, e))
  <2>1. CASE Authorize(r)
    <3>1. Step(r, "authorize") /\ "authorize" \in Steps \ {"change", "save", "looping"}
      BY <2>1 DEF Authorize, Steps
    <3> QED
      BY <2>1, <3>1 DEF Authorize, MetaFails
  <2>2. CASE BodyTimeout(r)
    <3>1. PICK step \in {"body", "tagBody"} : Step(r, step)
      BY <2>2 DEF BodyTimeout
    <3>2. step \in Steps \ {"change", "save", "looping"}
      BY <3>1 DEF Steps
    <3> QED
      BY <2>2, <3>1, <3>2 DEF BodyTimeout, MetaFails
  <2>3. CASE BodyArrives(r)
    <3>1. Step(r, "body") /\ "body" \in Steps \ {"change", "save", "looping"}
      BY <2>3 DEF BodyArrives, Steps
    <3> QED
      BY <2>3, <3>1 DEF BodyArrives
  <2>4. CASE ValidateAcl(r)
    <3>1. Step(r, "validateAcl") /\ "validateAcl" \in Steps \ {"change", "save", "looping"}
      BY <2>4 DEF ValidateAcl, Steps
    <3> QED
      BY <2>4, <3>1 DEF ValidateAcl, MetaFails
  <2>5. CASE ValidatePolicy(r)
    <3>1. Step(r, "validatePolicy") /\ "validatePolicy" \in Steps \ {"change", "save", "looping"}
      BY <2>5 DEF ValidatePolicy, Steps
    <3> QED
      BY <2>5, <3>1 DEF ValidatePolicy, MetaFails
  <2>6. CASE ValidateTags(r)
    <3>1. Step(r, "validateTags") /\ "validateTags" \in Steps \ {"change", "save", "looping"}
      BY <2>6 DEF ValidateTags, Steps
    <3>2. MetaBecomes(r, GoesOn(m)) \/ MetaBecomes(r, Ended(m, "refused"))
      BY <2>6 DEF ValidateTags
    <3> QED
      BY <3>1, <3>2
  <2> QED
    BY <2>1, <2>2, <2>3, <2>4, <2>5, <2>6
<1>2. m \in MetaRecord
  BY <1>1, AtStep
<1>3. CASE MetaBecomes(r, GoesOn(m))
  BY <1>1, <1>2, <1>3, MetaGoesOnKeeps
<1>4. CASE \E e \in {"error", "denied", "refused"} : MetaBecomes(r, Ended(m, e))
  BY <1>1, <1>2, <1>4, MetaFailsKeeps
<1> QED
  BY <1>1, <1>3, <1>4

LEMMA TagBodyKeeps ==
    ASSUME MetaIInv, NEW r \in DOMAIN mq, TagBodyArrives(r)
    PROVE  MetaIInv'
<1> DEFINE m == mq[r]
<1>1. Step(r, "tagBody") /\ "tagBody" \in Steps \ {"change", "save", "looping"}
  BY DEF TagBodyArrives, Steps
<1>2. m \in MetaRecord /\ m.reply = "none" /\ m.todo # <<>> /\ Head(m.todo) = "tagBody"
  BY <1>1, AtStep
<1>3. PICK b \in TagBodies :
         MetaBecomes(r, CASE Parse(b) = "never" -> [m EXCEPT !.todo = <<"looping">>]
                          [] Parse(b) = "MalformedXML" -> Ended(m, "refused")
                          [] Parse(b) = "ok" -> GoesOn([m EXCEPT !.body = b.nodes]))
  BY DEF TagBodyArrives
<1>4. Parse(b) \in {"never", "MalformedXML", "ok"}
  BY DEF Parse
<1>5. CASE Parse(b) = "never"
  <2> DEFINE n == [m EXCEPT !.todo = <<"looping">>]
  <2>1. <<"looping">> \in Seq(Steps)
    BY DEF Steps
  <2>2. n \in MetaRecord
    BY <2>1, <1>2 DEF MetaRecord
  <2>3. Proceeds(m, n)
    BY <2>2, <1>2 DEF Proceeds, SameFor, MetaRecord
  <2>4. MetaBecomes(r, n)
    BY <1>3, <1>5
  <2> QED
    BY <2>3, <2>4, <1>2, MetaProceeds
<1>6. CASE Parse(b) = "MalformedXML"
  <2>1. MetaBecomes(r, Ended(m, "refused"))
    BY <1>3, <1>6
  <2> QED
    BY <2>1, <1>1, <1>2, MetaFailsKeeps
<1>7. CASE Parse(b) = "ok"
  <2> DEFINE n == [m EXCEPT !.body = b.nodes]
  <2>1. MetaBecomes(r, GoesOn(n))
    BY <1>3, <1>7
  <2>2. b.nodes \in Seq({"tag", "longTag", "badTag", "blank"})
    BY BodyAssumption
  <2>3. /\ n \in MetaRecord /\ n.kind = m.kind /\ n.todo = m.todo /\ n.saved = m.saved
        /\ n.reply = m.reply /\ n.copy = m.copy
    BY <2>2, <1>2 DEF MetaRecord
  <2> QED
    BY <2>1, <2>3, <1>1, MetaGoesOnKeeps
<1> QED
  BY <1>4, <1>5, <1>6, <1>7

LEMMA FindsKeep ==
    ASSUME MetaIInv, NEW r \in DOMAIN mq, CheckMissing(r) \/ CheckPolicy(r)
    PROVE  MetaIInv'
<1> DEFINE m == mq[r]
<1>1. CASE CheckMissing(r)
  <2>1. Step(r, "missing") /\ "missing" \in Steps \ {"change", "save", "looping"}
    BY <1>1 DEF CheckMissing, Steps
  <2>2. m \in MetaRecord
    BY <2>1, AtStep
  <2> DEFINE n == [m EXCEPT !.error = "error"]
  <2>3. /\ n \in MetaRecord /\ n.kind = m.kind /\ n.todo = m.todo /\ n.saved = m.saved
        /\ n.reply = m.reply /\ n.copy = m.copy
    BY <2>2 DEF MetaRecord
  <2>4. MetaBecomes(r, GoesOn(m)) \/ MetaBecomes(r, GoesOn(n))
    BY <1>1 DEF CheckMissing
  <2> QED
    BY <2>1, <2>2, <2>3, <2>4, MetaGoesOnKeeps
<1>2. CASE CheckPolicy(r)
  <2>1. Step(r, "policy") /\ "policy" \in Steps \ {"change", "save", "looping"}
    BY <1>2 DEF CheckPolicy, Steps
  <2>2. /\ m \in MetaRecord /\ m.todo # <<>> /\ Head(m.todo) = "policy" /\ m.reply = "none"
    BY <2>1, AtStep
  <2> DEFINE n == [m EXCEPT !.todo = Tail(m.todo)]
  <2>3. Tail(m.todo) \in Seq(Steps)
    BY <2>2 DEF MetaRecord
  <2>4. n \in MetaRecord
    BY <2>2, <2>3 DEF MetaRecord
  <2>5. Proceeds(m, n)
    BY <2>4, <2>2 DEF Proceeds, SameFor, MetaRecord
  <2>6. CASE MetaBecomes(r, n)
    BY <2>5, <2>6, <2>2, MetaProceeds
  <2>7. CASE MetaBecomes(r, Ended(m, "error"))
    BY <2>7, <2>1, <2>2, MetaFailsKeeps
  <2> QED
    BY <2>6, <2>7, <1>2 DEF CheckPolicy
<1> QED
  BY <1>1, <1>2

\* What makes a request be in order.
SameSteps(m, n) ==
    /\ n.kind = m.kind /\ n.todo = m.todo /\ n.saved = m.saved
    /\ n.reply = m.reply /\ n.checks = m.checks
LEMMA SameIsOK ==
    ASSUME NEW m, NEW n, SameSteps(m, n), RequestOK(m)
    PROVE  RequestOK(n)
<1>1. CASE m.todo = <<>>
  BY <1>1 DEF SameSteps, RequestOK, Over, Writes
<1>2. CASE m.todo # <<>>
  BY <1>2 DEF SameSteps, RequestOK, Running
<1> QED
  BY <1>1, <1>2

\* The change: from now on the mark of the request is in its copy.
LEMMA ChangeKeeps ==
    ASSUME MetaIInv, NEW r \in DOMAIN mq, Change(r)
    PROVE  MetaIInv'
<1> DEFINE m == mq[r]
           c == Class[m.kind]
           k == m.checks /\ m.kind = "deleteBucketTags"
           v == IF c.sets THEN r ELSE "none"
           n == [m EXCEPT !.todo = Tail(m.todo), !.checks = k, !.copy[FieldOf(r)] = v]
<1>1. Step(r, "change")
  BY DEF Change
<1>2. /\ m \in MetaRecord /\ m.todo # <<>> /\ Head(m.todo) = "change" /\ m.reply = "none"
      /\ ~m.saved /\ m.kind \in DOMAIN Class /\ m.todo # <<"looping">> /\ m.todo \in Seq(Steps)
  BY <1>1, AtStep DEF MetaRecord
<1>3. RequestOK(m) /\ StepsOK(c, m.todo)
  BY <1>2 DEF MetaIInv, RequestOK, Running
<1>4. c.field # "" /\ Tail(m.todo) = <<"save">> /\ m.todo # <<"save">>
  BY <1>2, <1>3, TailSteps
<1>5. StepsOK(c, <<"save">>) /\ <<"save">> # <<>>
  BY <1>2, <1>3, <1>4, TailSteps
<1>6. FieldOf(r) \in Fields
  BY <1>2, <1>4, Classes DEF FieldOf, ClassOK
<1>7. MetaBecomes(r, n)
  BY DEF Change
<1>8. v \in Values /\ k \in BOOLEAN
  BY DEF Values
<1>9. Tail(m.todo) \in Seq(Steps)
  BY <1>2
<1> HIDE DEF v, k
<1>10. /\ n \in MetaRecord /\ n.kind = m.kind /\ n.saved = m.saved /\ n.todo = Tail(m.todo)
       /\ n.reply = "none" /\ n.checks = k
       /\ n.copy = [m.copy EXCEPT ![FieldOf(r)] = v]
  BY <1>2, <1>6, <1>8, <1>9 DEF MetaRecord
<1> HIDE DEF n
<1>11. Accepted(n)
  BY <1>10, <1>4 DEF Accepted
<1>12. RequestOK(n)
  <2>1. ~n.checks \/ n.kind = "deleteBucketTags"
    BY <1>10 DEF k
  <2> QED
    BY <2>1, <1>10, <1>2, <1>4, <1>5 DEF RequestOK, Running
<1>13. \A f \in Fields : n.copy[f] = IF f = FieldOf(r) THEN v ELSE m.copy[f]
  BY <1>2, <1>10 DEF MetaRecord
<1>14. \A f \in Fields : \/ n.copy[f] = m.copy[f] \/ n.copy[f] = "none"
                         \/ n.copy[f] = meta[On(r)][f] \/ (n.copy[f] = r /\ Accepted(n))
  BY <1>11, <1>13 DEF v
<1> QED
  BY <1>7, <1>10, <1>11, <1>12, <1>14, MetaFrame

\* A save that fails: an accepted request is told of an error.
LEMMA SaveFailsKeeps ==
    ASSUME MetaIInv, NEW r \in DOMAIN mq, SaveFails(r)
    PROVE  MetaIInv'
<1> DEFINE m == mq[r]
           n == Ended(m, "error")
<1>1. Step(r, "save") /\ MetaBecomes(r, n)
  BY DEF SaveFails, MetaFails
<1>2. m \in MetaRecord /\ m.reply = "none" /\ ~m.saved
  BY <1>1, AtStep
<1>3. SameFor(m, n) /\ n.todo = <<>> /\ n.reply \in {"none", "error"}
  BY <1>2, EndedIs DEF Answers
<1> HIDE DEF n
<1>4. RequestOK(n) /\ Accepted(n)
  BY <1>2, <1>3 DEF RequestOK, Over, Accepted, SameFor
<1> QED
  BY <1>1, <1>3, <1>4, MetaFrame DEF SameFor

LEMMA LeavesKeeps ==
    ASSUME MetaIInv, NEW r \in DOMAIN mq, MetaClientLeaves(r)
    PROVE  MetaIInv'
<1> DEFINE m == mq[r]
           n == [m EXCEPT !.connected = FALSE]
<1>1. MetaBecomes(r, n) /\ m \in MetaRecord
  BY DEF MetaClientLeaves, MetaIInv, MetaTypeOK
<1>2. /\ n \in MetaRecord /\ n.kind = m.kind /\ n.saved = m.saved /\ n.todo = m.todo
      /\ n.reply = m.reply /\ n.checks = m.checks /\ n.copy = m.copy
  BY <1>1 DEF MetaRecord
<1> HIDE DEF n
<1>3. RequestOK(n) /\ (Accepted(m) => Accepted(n))
  BY <1>2, SameIsOK DEF MetaIInv, SameSteps, Accepted
<1> QED
  BY <1>1, <1>2, <1>3, MetaFrame

\* The save: the copy is the metadata from now on.
LEMMA SavesKeeps ==
    ASSUME MetaIInv, NEW r \in DOMAIN mq, Saves(r)
    PROVE  MetaIInv'
<1> DEFINE m == mq[r]
           c == Class[m.kind]
           s == [m EXCEPT !.saved = TRUE]
           n == IF s.kind = "deleteBucketPolicy" THEN Ended(s, "ok") ELSE GoesOn(s)
<1>1. Step(r, "save") /\ MetaTypeOK
  BY DEF Saves, MetaIInv
<1>2. /\ m \in MetaRecord /\ m.todo # <<>> /\ Head(m.todo) = "save" /\ m.reply = "none"
      /\ ~m.saved /\ m.kind \in DOMAIN Class /\ m.todo # <<"looping">> /\ m.todo \in Seq(Steps)
      /\ On(r) \in Resources /\ m.copy \in [Fields -> Values]
  BY <1>1, AtStep DEF MetaRecord
<1>3. StepsOK(c, m.todo) /\ (m.todo = <<"save">> => ~m.checks \/ m.kind = "deleteBucketTags")
  BY <1>2 DEF MetaIInv, RequestOK, Running
<1>4. m.todo = <<"save">> /\ Tail(m.todo) = <<>> /\ c.field # ""
  BY <1>2, <1>3, TailSteps
<1>5. /\ s \in MetaRecord /\ s.kind = m.kind /\ s.todo = m.todo /\ s.reply = "none" /\ s.saved
      /\ s.checks = m.checks /\ s.copy = m.copy /\ s.error = m.error
      /\ s.error \in {"ok", "error"}
  BY <1>2 DEF MetaRecord
<1>6. /\ SameFor(s, n) /\ n.todo = <<>>
      /\ n.reply \in {"none", "ok", "error", "shuttingDown"}
      /\ n.reply = "shuttingDown" => m.kind = "deleteBucketTags"
  <2> HIDE DEF s
  <2>1. CASE s.kind = "deleteBucketPolicy"
    BY <2>1, <1>5, EndedIs DEF Answers
  <2>2. CASE s.kind # "deleteBucketPolicy"
    <3>1. Proceeds(s, GoesOn(s)) /\ GoesOn(s) = n
      BY <2>2, <1>1, <1>2, <1>5, GoesOnIs
    <3>2. GoesOn(s).todo = <<>> =>
            GoesOn(s).reply \in {"none", s.error} \/ (GoesOn(s).reply = "shuttingDown" /\ s.checks)
      BY <1>1, <1>2, <1>5, GoesOnIs
    <3>3. GoesOn(s).todo = <<>>
      <4>1. Tail(s.todo) = <<>>
        BY <1>4, <1>5
      <4>2. PICK e \in Answers : GoesOn(s) = Ended(s, e)
        BY <4>1, <1>5 DEF GoesOn, Answers
      <4> QED
        BY <4>2, <1>5, EndedIs
    <3> QED
      BY <3>1, <3>2, <3>3, <1>3, <1>4, <1>5 DEF Proceeds
  <2> QED
    BY <2>1, <2>2
<1>7. mq' = [mq EXCEPT ![r] = n] /\ meta' = [meta EXCEPT ![On(r)] = m.copy]
      /\ mqShutdown' = mqShutdown
  BY DEF Saves
<1> HIDE DEF n, s
<1>8. /\ DOMAIN mq' = DOMAIN mq /\ mq' = [q \in DOMAIN mq' |-> mq'[q]] /\ mq'[r] = n
      /\ \A q \in DOMAIN mq : q # r => mq'[q] = mq[q]
  BY <1>7
<1>9. ASSUME NEW q \in DOMAIN mq, q # r
      PROVE  /\ mq'[q] \in MetaRecord /\ mq'[q].kind = mq[q].kind /\ mq'[q].todo = mq[q].todo
             /\ mq'[q].copy = mq[q].copy /\ mq'[q].saved = mq[q].saved
             /\ mq'[q].reply = mq[q].reply /\ mq'[q].checks = mq[q].checks
  BY <1>8, <1>9 DEF MetaIInv, MetaTypeOK
<1>10. /\ n \in MetaRecord /\ n.kind = m.kind /\ n.saved /\ n.copy = m.copy
  BY <1>5, <1>6 DEF SameFor
<1>11. MetaRecord' = MetaRecord /\ Values' = Values
  BY <1>8 DEF MetaRecord, Values
<1>12. MetaTypeOK'
  <2>1. meta' \in [Resources -> [Fields -> Values]]
    BY <1>1, <1>2, <1>7 DEF MetaTypeOK
  <2> QED
    BY <2>1, <1>1, <1>7, <1>8, <1>9, <1>10, <1>11 DEF MetaTypeOK
<1>13. \A q \in DOMAIN mq' : RequestOK(mq'[q])
  <2>1. RequestOK(n)
    BY <1>6, <1>10 DEF RequestOK, Over
  <2>2. ASSUME NEW q \in DOMAIN mq, q # r PROVE RequestOK(mq'[q])
    <3>1. RequestOK(mq[q])
      BY DEF MetaIInv
    <3>2. SameSteps(mq[q], mq'[q])
      BY <2>2, <1>9 DEF SameSteps
    <3> QED
      BY <3>1, <3>2, SameIsOK
  <2> QED
    BY <2>1, <2>2, <1>8
<1>14. \A q \in DOMAIN mq : On(q)' = On(q) /\ FieldOf(q)' = FieldOf(q)
  BY <1>8, <1>9, <1>10 DEF On, FieldOf
<1>15. MarksAreAccepted'
  <2> SUFFICES ASSUME NEW q \in DOMAIN mq, Marked(q)' PROVE Accepted(mq'[q])
    BY <1>8 DEF MarksAreAccepted, Accepted
  <2>1. \A p \in DOMAIN mq : mq'[p].copy = mq[p].copy
    BY <1>8, <1>9, <1>10
  <2>2. \A res \in Resources : meta'[res] = meta[res] \/ meta'[res] = m.copy
    BY <1>1, <1>7 DEF MetaTypeOK
  <2>3. Marked(q)
    BY <2>1, <2>2, <1>8 DEF Marked
  <2>4. Accepted(mq[q])
    BY <2>3 DEF MetaIInv, MarksAreAccepted
  <2>5. CASE q = r
    BY <2>5, <1>6, <1>8 DEF Accepted
  <2>6. CASE q # r
    BY <2>4, <2>6, <1>9 DEF Accepted
  <2> QED
    BY <2>5, <2>6
<1> QED
  BY <1>12, <1>13, <1>15 DEF MetaIInv

LEMMA MetaStepIInv == MetaIInv /\ [MetaNext]_mqVars => MetaIInv'
<1> SUFFICES ASSUME MetaIInv, [MetaNext]_mqVars PROVE MetaIInv'
  OBVIOUS
<1>1. ASSUME NEW r \in DOMAIN mq, MetaStep(r) PROVE MetaIInv'
  BY <1>1, FetchKeeps, ChecksKeep, FindsKeep, ChangeKeeps, SavesKeeps, SaveFailsKeeps DEF MetaStep
<1>2. ASSUME NEW r \in DOMAIN mq, BodyArrives(r) PROVE MetaIInv'
  BY <1>2, ChecksKeep
<1>3. ASSUME NEW r \in DOMAIN mq, TagBodyArrives(r) PROVE MetaIInv'
  BY <1>3, TagBodyKeeps
<1>4. ASSUME NEW r \in DOMAIN mq, MetaClientLeaves(r) PROVE MetaIInv'
  BY <1>4, LeavesKeeps
<1>5. ASSUME mq' = mq, meta' = meta, mqShutdown' \in BOOLEAN PROVE MetaIInv'
  <2>1. MetaRecord' = MetaRecord /\ Values' = Values
    BY <1>5 DEF MetaRecord, Values
  <2>2. MetaTypeOK'
    BY <1>5, <2>1 DEF MetaIInv, MetaTypeOK
  <2>3. \A q \in DOMAIN mq' : RequestOK(mq'[q])
    BY <1>5 DEF MetaIInv
  <2>4. MarksAreAccepted'
    BY <1>5 DEF MetaIInv, MarksAreAccepted, Marked
  <2> QED
    BY <2>2, <2>3, <2>4 DEF MetaIInv
<1>6. CASE MetaShutdown
  BY <1>5, <1>6 DEF MetaShutdown
<1>7. CASE UNCHANGED mqVars
  BY <1>5, <1>7 DEF mqVars, MetaIInv, MetaTypeOK
<1> QED
  BY <1>1, <1>2, <1>3, <1>4, <1>6, <1>7 DEF MetaNext

LEMMA MetaInvariant == MetaSpec => []MetaIInv
  BY MetaInitIInv, MetaStepIInv, PTL DEF MetaSpec

\* S3PutObjectACLAction and the others: whatever requests change the metadata of
\* an object or a bucket together, whatever fails and whoever leaves, a request
\* that is told of success has saved its change, one that a shutdown turns away
\* has not, and what was denied or refused is in no metadata.
THEOREM MetaAnswerIsAlwaysTrue == MetaSpec => []MetaAnswerIsTrue
<1>1. MetaIInv => MetaAnswerIsTrue
  <2> SUFFICES ASSUME MetaIInv, NEW r \in DOMAIN mq
               PROVE  /\ mq[r].reply = "ok" /\ mq[r].kind \notin Reading => mq[r].saved
                      /\ mq[r].reply = "shuttingDown" /\ mq[r].kind # "deleteBucketTags" =>
                            ~mq[r].saved
                      /\ mq[r].reply \in {"denied", "refused"} =>
                            \A res \in DOMAIN meta : \A f \in {"acl", "tags", "policy"} :
                               meta[res][f] # r
    BY DEF MetaAnswerIsTrue
  <2>1. mq[r] \in MetaRecord /\ RequestOK(mq[r]) /\ DOMAIN meta = Resources
    BY DEF MetaIInv, MetaTypeOK
  <2>2. mq[r].kind \notin Reading => Writes(mq[r])
    BY <2>1 DEF Reading, Writes, MetaRecord
  <2>3. mq[r].reply # "none" => mq[r].todo = <<>> /\ Over(mq[r])
    BY <2>1 DEF RequestOK, Running
  <2>4. mq[r].reply \in {"denied", "refused"} => ~Accepted(mq[r]) \/ mq[r].todo = <<"save">>
    BY DEF Accepted
  <2>5. <<"save">> # <<>>
    OBVIOUS
  <2>6. mq[r].reply \in {"denied", "refused"} => ~Marked(r)
    BY <2>3, <2>4, <2>5 DEF MetaIInv, MarksAreAccepted
  <2> QED
    BY <2>1, <2>2, <2>3, <2>6 DEF Over, Marked, Fields
<1> QED
  BY <1>1, MetaInvariant, PTL

-----------------------------------------------------------------------------
(* Multi-object DELETE.                                                    *)

MdSpec == MdInit /\ [][MdNext]_mdVars

MdFields ==
    {"pc", "keys", "at", "batch", "objs", "unread", "snapshot", "ok", "failed", "any",
     "toDelete", "listed", "reply", "raced", "index"}
IsMd(d) == d = [f \in MdFields |-> d[f]]
IsSlips(s) == s = [stayed |-> s.stayed, forgot |-> s.forgot]
MdPcs ==
    {"validate", "fetch", "load", "record", "remove", "extended", "data", "unrecord", "done"}

\* The request holds objects whose metadata is still listed, or has just been
\* removed.
HoldsObjects(d) == d.pc \in {"load", "record", "remove"}
HoldsData(d) == HoldsObjects(d) \/ d.pc = "extended"

-----------------------------------------------------------------------------
(* The inductive invariants.                                               *)

MdTypeOK ==
    /\ IsMd(md) /\ md.pc \in MdPcs
    /\ contents \in [DOMAIN contents -> MdObjects]
    /\ md.keys \in MdRequests /\ Range(md.keys) \subseteq DOMAIN contents
    /\ md.batch \subseteq Range(md.keys) /\ md.at \in 0 .. Len(md.keys)
    /\ HoldsData(md) => /\ md.objs \subseteq DOMAIN contents
                        /\ \A k \in md.objs : md.snapshot[k] \in MdObjects
                        /\ md.unread \subseteq Multiparts(md)
    /\ IsSlips(mdSlips)

\* No two objects share data.
DataIsOwn ==
    \A j, k \in DOMAIN contents : j # k => Data(contents[j]) \cap Data(contents[k]) = {}

\* The data of the objects whose metadata no removal has passed over.
Sure == DataOf(DOMAIN contents \ mdSlips.stayed)

\* What is to be deleted is of no such object, and an oid that it has in common
\* with the object another request stores is in use, so that it is not stored.
\* Nothing has been deleted yet.
ToDeleteIsDead ==
    md.pc \notin {"unrecord", "done"} =>
        /\ md.toDelete \cap Sure = {}
        /\ md.toDelete \cap Data(MdNew) \subseteq stored
        /\ LiveOids \subseteq stored

\* The objects that the request has read are in Motr; one of them is still
\* listed, or another request has taken its place.
HeldIsKnown ==
    /\ HoldsData(md) => \A k \in md.objs : Data(md.snapshot[k]) \subseteq stored
    /\ HoldsObjects(md) => \A k \in md.objs :
          \/ contents[k] = md.snapshot[k]
          \/ /\ Data(md.snapshot[k]) \cap LiveOids = {}
             /\ Data(contents[k]) \subseteq md.raced
    /\ md.pc = "extended" => \A k \in md.objs : Data(md.snapshot[k]) \cap Sure = {}

MdIInv == MdTypeOK /\ DataIsOwn /\ ToDeleteIsDead /\ HeldIsKnown /\ MdLiveIsKept

\* Nothing that is not live is without an owner, and what the request would
\* delete has a record until it is deleted, unless a failure made it forgotten.
InFlightData(d) == IF d.pc = "extended" THEN Recorded(d) ELSE {}
Excused == md.raced \cup mdSlips.forgot
DeadIsOwned ==
    /\ md.pc \notin {"unrecord", "done"} =>
          stored \subseteq LiveOids \cup Excused \cup md.toDelete \cup InFlightData(md)
    /\ md.pc = "unrecord" => stored \subseteq LiveOids \cup Excused \cup (mdRecs \ md.listed)
    /\ md.pc = "done" => stored \subseteq LiveOids \cup Excused \cup mdRecs
OwnedIsRecorded ==
    /\ md.pc \in {"remove", "extended"} => Recorded(md) \subseteq mdRecs \cup mdSlips.forgot
    /\ md.pc \notin {"unrecord", "done"} => md.toDelete \cap stored \subseteq mdRecs \cup Excused

MdGarbageIInv == MdIInv /\ DeadIsOwned /\ OwnedIsRecorded

\* Every key read so far is reported or held, and none twice.
Reported == {md.keys[i] : i \in 1 .. md.at}
Pending == IF md.pc = "fetch" THEN md.batch ELSE IF HoldsData(md) THEN md.objs ELSE {}
Settled(k) == contents[k] \in {None, MdNew} \/ k \in mdSlips.stayed
ReportIInv ==
    /\ md.pc \notin {"data", "unrecord", "done"} => md.reply = "none"
    /\ md.ok \cap md.failed = {}
    /\ md.reply = "none" => /\ Pending \cap (md.ok \cup md.failed) = {}
                            /\ Reported = Pending \cup md.ok \cup md.failed
    /\ \A k \in md.ok : k \in Range(md.keys) /\ Settled(k)
    /\ md.pc = "extended" => \A k \in md.objs : Settled(k)
    /\ md.reply = "result" /\ md.index => md.ok \cup md.failed = Range(md.keys)
    /\ ~md.index => /\ md.ok \cup md.failed = {}
                    /\ md.pc \in {"validate", "data", "unrecord", "done"}
-----------------------------------------------------------------------------
(* What the helpers of the request do.                                     *)

Kept(d, e) ==
    /\ e.keys = d.keys /\ e.objs = d.objs /\ e.unread = d.unread /\ e.snapshot = d.snapshot
    /\ e.ok = d.ok /\ e.failed = d.failed /\ e.any = d.any
    /\ e.toDelete = d.toDelete /\ e.listed = d.listed /\ e.raced = d.raced
    /\ e.index = d.index

\* The request has been answered and cleans up.
IsEnded(d, e) ==
    /\ IsMd(e) /\ Kept(d, e) /\ e.at = d.at /\ e.batch = d.batch
    /\ e.pc = IF d.toDelete = {} THEN "unrecord" ELSE "data"

\* It reads the next batch.
IsFetching(d, e) ==
    /\ IsMd(e) /\ Kept(d, e) /\ e.pc = "fetch" /\ e.reply = d.reply
    /\ e.at \in Nat /\ d.at <= e.at /\ e.at <= Len(d.keys)
    /\ e.batch = {d.keys[i] : i \in d.at + 1 .. e.at}

LEMMA MdEnded ==
    ASSUME NEW d, IsMd(d)
    PROVE  /\ IsEnded(d, Respond(d)) /\ Respond(d).reply = (IF d.reply = "none" THEN "result" ELSE d.reply)
           /\ IsEnded(d, Error(d)) /\ Error(d).reply = "error"
           /\ RespondAny(d) \in {Respond(d), Error(d)}
BY DEF IsEnded, Kept, Respond, Error, RespondAny, Cleanup, IsMd, MdFields

\* S3DeleteMultipleObjectsAction::fetch_objects_info takes the next keys of the
\* request, in their order.
LEMMA MdFetching ==
    ASSUME NEW d, IsMd(d), d.keys \in MdRequests, d.at \in Nat, d.at <= Len(d.keys)
    PROVE  IsFetching(d, FetchObjectsInfo(d))
<1>1. d.keys \in Seq(Range(d.keys)) /\ MdBatch \in Nat \ {0}
  BY MdAssumption
<1>2. PICK keys \in Seq(Range(d.keys)) : keys = d.keys
  BY <1>1
<1>3. PICK at \in Nat : at = d.at
  OBVIOUS
<1>4. PICK upto \in Nat : /\ upto = IF at + MdBatch < Len(keys) THEN at + MdBatch ELSE Len(keys)
                          /\ at <= upto /\ upto <= Len(keys)
  BY <1>1, <1>2, <1>3
<1>5. Range(SubSeq(keys, at + 1, upto)) = {keys[i] : i \in at + 1 .. upto}
  <2> DEFINE part == SubSeq(keys, at + 1, upto)
  <2>1. part \in Seq(Range(d.keys)) /\ Len(part) = upto - at
        /\ \A i \in 1 .. upto - at : part[i] = keys[at + i]
    BY <1>3, <1>4
  <2>2. DOMAIN part = 1 .. upto - at
    BY <2>1
  <2>3. Range(part) = {part[i] : i \in 1 .. upto - at}
    BY <2>2 DEF Range
  <2>4. \A i \in at + 1 .. upto : i - at \in 1 .. upto - at /\ keys[i] = part[i - at]
    <3> SUFFICES ASSUME NEW i \in at + 1 .. upto
                 PROVE  i - at \in 1 .. upto - at /\ keys[i] = part[i - at]
      OBVIOUS
    <3>1. i - at \in 1 .. upto - at /\ at + (i - at) = i
      BY <1>3, <1>4
    <3> HIDE DEF part
    <3> QED
      BY <3>1, <2>1
  <2>5. \A i \in 1 .. upto - at : at + i \in at + 1 .. upto
    BY <1>3, <1>4
  <2>6. Range(part) = {keys[i] : i \in at + 1 .. upto}
    <3> HIDE DEF part
    <3>1. ASSUME NEW x \in Range(part) PROVE x \in {keys[i] : i \in at + 1 .. upto}
      <4>1. PICK i \in 1 .. upto - at : x = part[i]
        BY <2>3, Zenon
      <4>2. x = keys[at + i] /\ at + i \in at + 1 .. upto
        BY <4>1, <2>1, <2>5
      <4> QED
        BY <4>2
    <3>2. ASSUME NEW i \in at + 1 .. upto PROVE keys[i] \in Range(part)
      BY <2>3, <2>4, Zenon
    <3> QED
      BY <3>1, <3>2
  <2> QED
    BY ONLY <2>6, Zenon
<1>6. CASE MoreKeys(d)
  <2>0. PICK batch : batch = {keys[i] : i \in at + 1 .. upto}
    OBVIOUS
  <2>1. FetchObjectsInfo(d) = [d EXCEPT !.pc = "fetch", !.at = upto, !.batch = batch]
    <3>1. FetchObjectsInfo(d) = NextBatch(d)
      BY <1>6 DEF FetchObjectsInfo
    <3>2. NextBatch(d) = [d EXCEPT !.pc = "fetch", !.at = upto,
                                   !.batch = Range(SubSeq(keys, at + 1, upto))]
      BY ONLY <1>2, <1>3, <1>4, Zenon DEF NextBatch
    <3> QED
      BY ONLY <3>1, <3>2, <2>0, <1>5, Zenon
  <2>2. PICK e : e = FetchObjectsInfo(d)
    OBVIOUS
  <2>3. IsMd(e) /\ Kept(d, e) /\ e.pc = "fetch" /\ e.reply = d.reply /\ e.at = upto /\ e.batch = batch
    BY <2>1, <2>2 DEF Kept, IsMd, MdFields
  <2>4. e.at \in Nat /\ d.at <= e.at /\ e.at <= Len(d.keys)
    BY <1>2, <1>3, <1>4, <2>3
  <2>5. e.batch = {d.keys[i] : i \in d.at + 1 .. e.at}
    BY <1>2, <1>3, <2>0, <2>3, Zenon
  <2> QED
    BY <2>2, <2>3, <2>4, <2>5, Zenon DEF IsFetching
<1>7. CASE ~MoreKeys(d)
  <2>1. FetchObjectsInfo(d) = [d EXCEPT !.pc = "fetch", !.batch = {}]
    BY <1>7 DEF FetchObjectsInfo
  <2>2. PICK e : e = FetchObjectsInfo(d)
    OBVIOUS
  <2>3. /\ IsMd(e) /\ Kept(d, e) /\ e.pc = "fetch" /\ e.reply = d.reply
        /\ e.at = d.at /\ e.batch = {}
    BY <2>1, <2>2 DEF Kept, IsMd, MdFields
  <2>4. {d.keys[i] : i \in d.at + 1 .. d.at} = {}
    OBVIOUS
  <2> QED
    BY <2>2, <2>3, <2>4 DEF IsFetching
<1> QED
  BY <1>6, <1>7

-----------------------------------------------------------------------------
(* The steps, by what they do to the objects that the request holds.       *)

\* The request reads another batch or ends, with del to delete and lis among
\* the records it may remove.
Advances(del, lis) ==
    /\ IsMd(md') /\ md'.keys = md.keys /\ md'.at \in 0 .. Len(md.keys)
    /\ md'.batch \subseteq Range(md.keys)
    /\ md'.pc = "fetch" \/ md'.pc = IF del = {} THEN "unrecord" ELSE "data"
    /\ md'.toDelete = del /\ md'.listed = lis /\ md'.raced = md.raced /\ md'.index = md.index

\* It holds the objects of a batch that it has found.
TakesHold ==
    /\ md.pc = "fetch" /\ md'.pc = "load" /\ md'.objs \subseteq md.batch
    /\ \A k \in md'.objs : md'.snapshot[k] = contents[k]
    /\ md'.unread = {} /\ IsMd(md') /\ md'.keys = md.keys /\ md'.at = md.at /\ md'.batch = md.batch
    /\ md'.toDelete = md.toDelete /\ md'.listed = md.listed /\ md'.raced = md.raced
    /\ md'.index = md.index
    /\ contents' = contents /\ stored' = stored /\ mdRecs' = mdRecs /\ mdSlips' = mdSlips

\* It goes on with what it holds: pc and rest are the only fields to change.
GoesOnWith(pc, unread, listed, raced) ==
    /\ IsMd(md') /\ md'.pc = pc /\ md'.unread = unread /\ md'.listed = listed
    /\ md'.raced = raced
    /\ md'.keys = md.keys /\ md'.at = md.at /\ md'.batch = md.batch /\ md'.objs = md.objs
    /\ md'.snapshot = md.snapshot /\ md'.ok = md.ok /\ md'.failed = md.failed
    /\ md'.any = md.any /\ md'.toDelete = md.toDelete /\ md'.reply = md.reply
    /\ md'.index = md.index

LEMMA MdGoesOn ==
    ASSUME MdTypeOK, NEW q, IsMd(q), q.keys = md.keys, q.at = md.at, q.batch = md.batch,
           q.raced = md.raced, q.index = md.index,
           md' \in {FetchObjectsInfo(q), Respond(q), Error(q), RespondAny(q)}
    PROVE  Advances(q.toDelete, q.listed)
<1>1. /\ md.keys \in MdRequests /\ md.at \in 0 .. Len(md.keys) /\ md.batch \subseteq Range(md.keys)
      /\ md.keys \in Seq(Range(md.keys))
  BY MdAssumption DEF MdTypeOK
<1>2. md.at \in Nat /\ Len(md.keys) \in Nat /\ md.at <= Len(md.keys)
  BY <1>1
<1>3. CASE IsFetching(q, md')
  <2>1. md'.at \in Nat /\ md'.at <= Len(md.keys) /\ md'.batch = {md.keys[i] : i \in md.at + 1 .. md'.at}
    BY <1>3 DEF IsFetching
  <2>2. md'.at \in 0 .. Len(md.keys)
    BY <1>2, <2>1
  <2>3. ASSUME NEW i \in md.at + 1 .. md'.at PROVE md.keys[i] \in Range(md.keys)
    <3>1. i \in 1 .. Len(md.keys)
      BY <1>2, <2>1
    <3> QED
      BY <1>1, <3>1
  <2>4. md'.batch \subseteq Range(md.keys)
    BY <2>1, <2>3
  <2> QED
    BY <1>3, <2>2, <2>4 DEF IsFetching, Kept, Advances
<1>4. CASE IsEnded(q, md')
  BY <1>1, <1>4 DEF IsEnded, Kept, Advances
<1>5. IsFetching(q, FetchObjectsInfo(q))
  BY <1>1, <1>2, MdFetching
<1>6. md' = FetchObjectsInfo(q) \/ IsEnded(q, md')
  BY MdEnded
<1> QED
  BY <1>3, <1>4, <1>5, <1>6

LEMMA ValidateStep ==
    ASSUME MdTypeOK, ValidateRequest
    PROVE  Advances(md.toDelete, md.listed)
<1>1. md' \in {FetchObjectsInfo(md), Respond(md), Error(md)}
  BY DEF ValidateRequest
<1> QED
  BY <1>1, MdGoesOn DEF MdTypeOK

LEMMA FetchStep ==
    ASSUME MdTypeOK, FetchEnds
    PROVE  Advances(md.toDelete, md.listed) \/ TakesHold
<1> DEFINE found == {k \in md.batch : contents[k] # None}
<1>1. /\ md.pc = "fetch" /\ UNCHANGED <<contents, stored, mdRecs, mdSlips>>
      /\ md' \in {BatchMissing(md), Error(md)} \/ md' = BatchFound(md, found)
  BY DEF FetchEnds
<1>2. IsMd(md)
  BY DEF MdTypeOK
<1>3. CASE md' = Error(md)
  BY <1>1, <1>2, <1>3, MdGoesOn
<1>4. CASE md' = BatchMissing(md)
  <2>1. PICK ok : ok = md.ok \cup md.batch
    OBVIOUS
  <2>2. PICK q : q = [md EXCEPT !.ok = ok]
    OBVIOUS
  <2>3. /\ IsMd(q) /\ q.keys = md.keys /\ q.at = md.at /\ q.batch = md.batch /\ q.raced = md.raced
        /\ q.index = md.index
        /\ q.toDelete = md.toDelete /\ q.listed = md.listed
    BY <1>2, <2>2 DEF IsMd, MdFields
  <2>4. md' \in {FetchObjectsInfo(q), Respond(q)}
    BY <1>4, <2>1, <2>2 DEF BatchMissing
  <2> QED
    BY <1>1, <2>3, <2>4, MdGoesOn
<1>5. CASE md' = BatchFound(md, found)
  <2>1. PICK good : good = found \ MdCorrupt
    OBVIOUS
  <2>2. PICK ok, failed, snapshot :
            /\ ok = md.ok \cup (md.batch \ found) /\ failed = md.failed \cup (found \cap MdCorrupt)
            /\ snapshot = [k \in good |-> contents[k]]
    OBVIOUS
  <2>3. PICK q : q = [md EXCEPT !.ok = ok, !.failed = failed, !.objs = good, !.unread = {},
                                !.snapshot = snapshot]
    OBVIOUS
  <2>4. md' = CASE good # {} -> [q EXCEPT !.pc = "load"]
                [] good = {} /\ MoreKeys(md) -> FetchObjectsInfo(q)
                [] good = {} /\ ~MoreKeys(md) -> RespondAny(q)
    BY <1>5, <2>1, <2>2, <2>3 DEF BatchFound
  <2>5. PICK none : none = {}
    OBVIOUS
  <2>6. q = [md EXCEPT !.ok = ok, !.failed = failed, !.objs = good, !.unread = none,
                       !.snapshot = snapshot]
    BY <2>3, <2>5
  <2> HIDE DEF found
  <2>7. /\ IsMd(q) /\ q.keys = md.keys /\ q.at = md.at /\ q.batch = md.batch /\ q.raced = md.raced
        /\ q.index = md.index
        /\ q.toDelete = md.toDelete /\ q.listed = md.listed
        /\ q.unread = none /\ q.snapshot = snapshot /\ q.objs = good
    BY ONLY <1>2, <2>6 DEF IsMd, MdFields
  <2>8. CASE md' \in {FetchObjectsInfo(q), RespondAny(q)}
    BY <1>1, <2>7, <2>8, MdGoesOn
  <2>9. CASE md' = [q EXCEPT !.pc = "load"]
    <3>1. /\ IsMd(md') /\ md'.pc = "load" /\ md'.keys = q.keys /\ md'.at = q.at
          /\ md'.batch = q.batch /\ md'.raced = q.raced /\ md'.toDelete = q.toDelete
          /\ md'.listed = q.listed /\ md'.unread = q.unread /\ md'.snapshot = q.snapshot
          /\ md'.objs = q.objs /\ md'.index = q.index
      BY ONLY <2>7, <2>9 DEF IsMd, MdFields
    <3>2. good \subseteq md.batch
      BY <2>1 DEF found
    <3>3. \A k \in good : snapshot[k] = contents[k]
      BY <2>2
    <3> QED
      BY <1>1, <2>5, <2>7, <3>1, <3>2, <3>3 DEF TakesHold
  <2> QED
    BY <2>4, <2>8, <2>9
<1> QED
  BY <1>1, <1>3, <1>4, <1>5

Owns(d) == {d.snapshot[k].own : k \in d.objs}

LEMMA LoadStep ==
    ASSUME MdTypeOK, LoadExtended
    PROVE  \E bad \in SUBSET Multiparts(md) :
              GoesOnWith("record", bad, md.listed, md.raced)
<1>1. PICK bad \in SUBSET Multiparts(md) : md' = [md EXCEPT !.pc = "record", !.unread = bad]
  BY DEF LoadExtended
<1>2. GoesOnWith("record", bad, md.listed, md.raced)
  BY <1>1 DEF GoesOnWith, MdTypeOK, IsMd, MdFields
<1> QED
  BY <1>1, <1>2

LEMMA RecordStep ==
    ASSUME MdTypeOK, AddRecords
    PROVE  /\ contents' = contents /\ stored' = stored /\ IsSlips(mdSlips')
           /\ mdRecs \subseteq mdRecs' /\ mdSlips'.stayed = mdSlips.stayed
           /\ mdSlips.forgot \subseteq mdSlips'.forgot
           /\ \/ /\ GoesOnWith("remove", md.unread, md.listed \cup Recorded(md), md.raced)
                 /\ Recorded(md) \subseteq mdRecs' \cup mdSlips'.forgot
              \/ Advances(md.toDelete, md.listed \cup Recorded(md))
<1>0. PICK missed \in SUBSET Recorded(md) :
        /\ mdRecs' = mdRecs \cup (Recorded(md) \ missed)
        /\ \/ /\ md' = [md EXCEPT !.pc = "remove", !.listed = @ \cup Recorded(md)]
              /\ mdSlips' = [mdSlips EXCEPT !.forgot = @ \cup missed]
           \/ md' = Error([md EXCEPT !.listed = @ \cup Recorded(md)]) /\ UNCHANGED mdSlips
  BY DEF AddRecords, Passed
<1>1. PICK lis : lis = md.listed \cup Recorded(md)
  OBVIOUS
<1>2. PICK q : q = [md EXCEPT !.listed = lis]
  OBVIOUS
<1>3. /\ IsMd(q) /\ q.keys = md.keys /\ q.at = md.at /\ q.batch = md.batch /\ q.raced = md.raced
      /\ q.toDelete = md.toDelete /\ q.listed = lis /\ q.index = md.index
  BY <1>2 DEF MdTypeOK, IsMd, MdFields
<1>4. contents' = contents /\ stored' = stored /\ IsSlips(mdSlips) /\ mdRecs \subseteq mdRecs'
  BY <1>0 DEF AddRecords, MdTypeOK
<1>5. CASE md' = Error(q) /\ UNCHANGED mdSlips
  BY <1>1, <1>3, <1>4, <1>5, MdGoesOn
<1>6. CASE /\ md' = [md EXCEPT !.pc = "remove", !.listed = lis]
           /\ mdSlips' = [mdSlips EXCEPT !.forgot = @ \cup missed]
  <2>1. GoesOnWith("remove", md.unread, lis, md.raced)
    BY <1>6 DEF GoesOnWith, MdTypeOK, IsMd, MdFields
  <2>2. PICK forgot : forgot = mdSlips.forgot \cup missed
    OBVIOUS
  <2>3. mdSlips' = [mdSlips EXCEPT !.forgot = forgot]
    BY <1>6, <2>2
  <2>4. IsSlips(mdSlips') /\ mdSlips'.stayed = mdSlips.stayed /\ mdSlips'.forgot = forgot
    BY <1>4, <2>3 DEF IsSlips
  <2>5. Recorded(md) \subseteq mdRecs' \cup mdSlips'.forgot /\ mdSlips.forgot \subseteq mdSlips'.forgot
    BY <1>0, <2>2, <2>4
  <2> QED
    BY <1>1, <1>4, <2>1, <2>4, <2>5
<1> QED
  BY <1>0, <1>1, <1>2, <1>5, <1>6

LEMMA RemoveStep ==
    ASSUME MdTypeOK, RemoveMetadata \/ RemovalRefused
    PROVE  /\ stored' = stored /\ mdRecs' = mdRecs /\ md.pc = "remove"
           /\ \/ /\ Advances(md.toDelete, md.listed) /\ UNCHANGED <<contents, mdSlips>>
              \/ \E stay \in SUBSET md.objs :
                    /\ contents' = Removed(md.objs \ stay)
                    /\ \/ /\ GoesOnWith("extended", md.unread, md.listed, md.raced)
                          /\ mdSlips' = Slip(md.objs \ stay, stay, DataOf((md.objs \ stay) \cap md.unread))
                       \/ /\ Advances(md.toDelete, md.listed)
                          /\ mdSlips' = Slip(md.objs \ stay, {}, DataOf(md.objs \ stay))
<1>0. md.pc = "remove" /\ stored' = stored /\ mdRecs' = mdRecs
  BY DEF RemoveMetadata, RemovalRefused
<1>1. ASSUME md' = [md EXCEPT !.pc = "extended"]
      PROVE  GoesOnWith("extended", md.unread, md.listed, md.raced)
  BY <1>1 DEF GoesOnWith, MdTypeOK, IsMd, MdFields
<1>2. CASE RemovalRefused
  <2>1. Advances(md.toDelete, md.listed)
    BY <1>2, MdGoesOn DEF MdTypeOK, RemovalRefused
  <2> QED
    BY <1>0, <1>2, <2>1 DEF RemovalRefused
<1>3. ASSUME md' = RemovalFails(md)
      PROVE  Advances(md.toDelete, md.listed)
  <2>1. PICK gone : gone = {k \in md.objs : contents[k] = None}
    OBVIOUS
  <2>2. PICK any, ok, failed : /\ any = (md.any \/ gone # {}) /\ ok = md.ok \cup gone
                               /\ failed = md.failed \cup (md.objs \ gone)
    OBVIOUS
  <2>3. PICK q : q = [md EXCEPT !.any = any, !.ok = ok, !.failed = failed]
    OBVIOUS
  <2>4. /\ IsMd(q) /\ q.keys = md.keys /\ q.at = md.at /\ q.batch = md.batch /\ q.raced = md.raced
        /\ q.toDelete = md.toDelete /\ q.listed = md.listed /\ q.index = md.index
    BY <2>3 DEF MdTypeOK, IsMd, MdFields
  <2>5. md' \in {FetchObjectsInfo(q), RespondAny(q)}
    BY <1>3, <2>1, <2>2, <2>3 DEF RemovalFails
  <2> QED
    BY <2>4, <2>5, MdGoesOn
<1>4. CASE RemoveMetadata
  <2>1. PICK stay \in Passed({k \in md.objs : contents[k] # None}) :
        \/ /\ contents' = Removed(md.objs \ stay) /\ md' = [md EXCEPT !.pc = "extended"]
           /\ mdSlips' = Slip(md.objs \ stay, stay, DataOf((md.objs \ stay) \cap md.unread))
        \/ /\ contents' = Removed(md.objs \ stay) /\ md' = RemovalFails(md)
           /\ mdSlips' = Slip(md.objs \ stay, {}, DataOf(md.objs \ stay))
    BY <1>4 DEF RemoveMetadata
  <2>2. stay \in SUBSET md.objs
    BY DEF Passed
  <2> QED
    BY <1>0, <1>1, <1>3, <2>1, <2>2
<1> QED
  BY <1>2, <1>4

LEMMA ExtendedStep ==
    ASSUME MdTypeOK, DeleteExtended
    PROVE  Advances(md.toDelete \cup Owns(md) \cup Recorded(md), md.listed)
<1>1. PICK del, ok : /\ del = md.toDelete \cup {md.snapshot[k].own : k \in md.objs} \cup Recorded(md)
                     /\ ok = md.ok \cup md.objs
  OBVIOUS
<1>2. PICK q : q = [md EXCEPT !.any = TRUE, !.ok = ok, !.toDelete = del]
  OBVIOUS
<1>3. /\ IsMd(q) /\ q.keys = md.keys /\ q.at = md.at /\ q.batch = md.batch /\ q.raced = md.raced
        /\ q.index = md.index
      /\ q.toDelete = del /\ q.listed = md.listed
  BY <1>2 DEF MdTypeOK, IsMd, MdFields
<1>4. md' \in {FetchObjectsInfo(q), Respond(q)}
  BY <1>1, <1>2 DEF DeleteExtended
<1> QED
  BY <1>1, <1>3, <1>4, MdGoesOn DEF Owns

LEMMA CleanupSteps ==
    ASSUME MdTypeOK
    PROVE  /\ DeleteData =>
                 /\ IsSlips(mdSlips') /\ mdSlips'.stayed = mdSlips.stayed
                 /\ \/ /\ GoesOnWith("unrecord", md.unread, md.listed, md.raced)
                       /\ stored' \subseteq (stored \ md.toDelete) \cup mdSlips'.forgot
                       /\ mdSlips.forgot \subseteq mdSlips'.forgot
                    \/ /\ GoesOnWith("unrecord", md.unread, {}, md.raced) /\ stored' = stored
                       /\ mdSlips' = mdSlips
                 /\ stored' \subseteq stored /\ stored \ md.toDelete \subseteq stored'
           /\ Unrecord => GoesOnWith("done", md.unread, md.listed, md.raced) /\ mdSlips' = mdSlips
           /\ DelayDelete => GoesOnWith("done", md.unread, {}, md.raced) /\ mdSlips' = mdSlips
<1>1. PICK none : none = {}
  OBVIOUS
<1>2. IsMd(md) /\ IsSlips(mdSlips)
  BY DEF MdTypeOK
<1>3. md' = [md EXCEPT !.pc = "unrecord"] => GoesOnWith("unrecord", md.unread, md.listed, md.raced)
  BY <1>2 DEF GoesOnWith, IsMd, MdFields
<1>4. md' = [md EXCEPT !.pc = "unrecord", !.listed = none] =>
         GoesOnWith("unrecord", md.unread, none, md.raced)
  BY <1>2 DEF GoesOnWith, IsMd, MdFields
<1>5. md' = [md EXCEPT !.pc = "done"] => GoesOnWith("done", md.unread, md.listed, md.raced)
  BY <1>2 DEF GoesOnWith, IsMd, MdFields
<1>6. md' = [md EXCEPT !.pc = "done", !.listed = none] => GoesOnWith("done", md.unread, none, md.raced)
  BY <1>2 DEF GoesOnWith, IsMd, MdFields
<1>7. ASSUME DeleteData
      PROVE  /\ IsSlips(mdSlips') /\ mdSlips'.stayed = mdSlips.stayed
             /\ \/ /\ GoesOnWith("unrecord", md.unread, md.listed, md.raced)
                   /\ stored' \subseteq (stored \ md.toDelete) \cup mdSlips'.forgot
                   /\ mdSlips.forgot \subseteq mdSlips'.forgot
                \/ /\ GoesOnWith("unrecord", md.unread, {}, md.raced) /\ stored' = stored
                   /\ mdSlips' = mdSlips
             /\ stored' \subseteq stored /\ stored \ md.toDelete \subseteq stored'
  <2>1. ASSUME NEW failed, stored' = stored \ (md.toDelete \ failed),
               mdSlips' = [mdSlips EXCEPT !.forgot = @ \cup failed],
               md' = [md EXCEPT !.pc = "unrecord"]
        PROVE  /\ IsSlips(mdSlips') /\ mdSlips'.stayed = mdSlips.stayed
               /\ GoesOnWith("unrecord", md.unread, md.listed, md.raced)
               /\ stored' \subseteq (stored \ md.toDelete) \cup mdSlips'.forgot
               /\ mdSlips.forgot \subseteq mdSlips'.forgot
               /\ stored' \subseteq stored /\ stored \ md.toDelete \subseteq stored'
    <3>1. PICK forgot : forgot = mdSlips.forgot \cup failed
      OBVIOUS
    <3>2. IsSlips(mdSlips') /\ mdSlips'.stayed = mdSlips.stayed /\ mdSlips'.forgot = forgot
      BY <1>2, <2>1, <3>1 DEF IsSlips
    <3> QED
      BY <1>3, <2>1, <3>1, <3>2
  <2>2. CASE stored' = stored /\ md' = [md EXCEPT !.pc = "unrecord", !.listed = {}] /\ mdSlips' = mdSlips
    BY <1>1, <1>2, <1>4, <2>2
  <2> QED
    BY <1>7, <2>1, <2>2 DEF DeleteData
<1> QED
  BY <1>1, <1>5, <1>6, <1>7 DEF Unrecord, DelayDelete

LEMMA ReplaceStep ==
    ASSUME MdTypeOK, Replace
    PROVE  \E k \in DOMAIN contents :
              /\ contents' = [contents EXCEPT ![k] = MdNew]
              /\ GoesOnWith(md.pc, md.unread, md.listed, md.raced \cup Data(contents[k]) \cup Data(MdNew))
              /\ mdSlips' = [stayed |-> mdSlips.stayed \ {k}, forgot |-> mdSlips.forgot]
<1>1. PICK k \in DOMAIN contents :
          /\ contents' = [contents EXCEPT ![k] = MdNew]
          /\ md' = [md EXCEPT !.raced = @ \cup Data(contents[k]) \cup Data(MdNew)]
          /\ mdSlips' = [mdSlips EXCEPT !.stayed = @ \ {k}]
  BY DEF Replace
<1>2. PICK raced : raced = md.raced \cup Data(contents[k]) \cup Data(MdNew)
  OBVIOUS
<1>3. md' = [md EXCEPT !.raced = raced]
  BY <1>1, <1>2
<1>4. GoesOnWith(md.pc, md.unread, md.listed, raced)
  BY ONLY MdTypeOK, <1>3 DEF GoesOnWith, MdTypeOK, IsMd, MdFields
<1>5. mdSlips' = [stayed |-> mdSlips.stayed \ {k}, forgot |-> mdSlips.forgot]
  BY <1>1 DEF MdTypeOK, IsSlips
<1> QED
  BY <1>1, <1>2, <1>4, <1>5

-----------------------------------------------------------------------------
(* No data of an object that is listed is ever deleted.                    *)

LEMMA SureIsLive ==
    /\ \A x : x \in LiveOids <=> \E k \in DOMAIN contents : x \in Data(contents[k])
    /\ \A x : x \in Sure <=> \E k \in DOMAIN contents : k \notin mdSlips.stayed /\ x \in Data(contents[k])
    /\ Sure \subseteq LiveOids
BY DEF Sure, LiveOids, DataOf

LEMMA MdInitIInv == MdInit => MdIInv
<1> SUFFICES ASSUME MdInit PROVE MdIInv
  OBVIOUS
<1>1. PICK keys \in MdRequests, has \in BOOLEAN : md = NewMultiDelete(keys, has)
  BY DEF MdInit
<1>2. /\ IsMd(md) /\ md.pc = "validate" /\ md.keys = keys /\ md.at = 0 /\ md.batch = {}
      /\ md.toDelete = {}
  BY <1>1 DEF NewMultiDelete, IsMd, MdFields
<1>3. contents \in MdContents /\ stored = LiveOids /\ IsSlips(mdSlips)
  BY DEF MdInit, IsSlips
<1>4. keys \in Seq(Range(keys)) /\ Range(keys) \subseteq DOMAIN contents
  BY <1>3, MdAssumption
<1>5. MdTypeOK
  <2>1. contents \in [DOMAIN contents -> MdObjects]
    BY <1>3, MdAssumption
  <2>2. md.at \in 0 .. Len(md.keys)
    BY <1>2, <1>4
  <2> QED
    BY <1>2, <1>3, <1>4, <2>1, <2>2 DEF MdTypeOK, MdPcs, HoldsData, HoldsObjects
<1>6. DataIsOwn
  BY <1>3, MdAssumption DEF DataIsOwn
<1>7. MdLiveIsKept
  BY <1>3, SureIsLive DEF MdLiveIsKept, Sure
<1> QED
  BY <1>2, <1>3, <1>5, <1>6, <1>7
     DEF MdIInv, ToDeleteIsDead, HeldIsKnown, HoldsData, HoldsObjects

\* The object list has lost entries, or none.
Shrinks ==
    /\ DOMAIN contents' = DOMAIN contents /\ contents' \in [DOMAIN contents' -> MdObjects]
    /\ DataIsOwn' /\ IsSlips(mdSlips') /\ LiveOids' \subseteq LiveOids /\ Sure' \subseteq Sure

LEMMA MdAdvances ==
    ASSUME MdIInv, NEW del, NEW lis, Advances(del, lis), Shrinks, stored' = stored,
           md.pc \notin {"unrecord", "done"},
           del \cap Sure = {}, del \cap Data(MdNew) \subseteq stored
    PROVE  MdIInv'
<1>1. md'.pc \in {"fetch", "unrecord", "data"} /\ md'.toDelete = del
  BY DEF Advances
<1>2. MdTypeOK'
  BY <1>1 DEF Shrinks, Advances, MdIInv, MdTypeOK, MdPcs, HoldsData, HoldsObjects
<1>3. LiveOids \subseteq stored
  BY DEF MdIInv, ToDeleteIsDead
<1>4. MdLiveIsKept'
  BY <1>3, SureIsLive DEF Shrinks, MdLiveIsKept, Sure
<1>5. ToDeleteIsDead'
  BY <1>1, <1>3 DEF Shrinks, ToDeleteIsDead
<1>6. HeldIsKnown'
  BY <1>1 DEF HeldIsKnown, HoldsData, HoldsObjects
<1> QED
  BY <1>2, <1>4, <1>5, <1>6 DEF MdIInv, Shrinks

LEMMA MdSame ==
    ASSUME MdIInv, contents' = contents, mdSlips'.stayed = mdSlips.stayed, IsSlips(mdSlips')
    PROVE  Shrinks /\ LiveOids' = LiveOids /\ Sure' = Sure
<1>1. LiveOids' = LiveOids /\ Sure' = Sure
  BY DEF LiveOids, Sure, DataOf
<1> QED
  BY <1>1 DEF Shrinks, MdIInv, MdTypeOK, DataIsOwn

LEMMA MdTakesHold ==
    ASSUME MdIInv, TakesHold
    PROVE  MdIInv'
<1>1. contents' = contents /\ stored' = stored /\ LiveOids' = LiveOids /\ Sure' = Sure /\ mdSlips' = mdSlips
  BY DEF TakesHold, LiveOids, Sure, DataOf
<1>2. md'.objs \subseteq DOMAIN contents
  BY DEF TakesHold, MdIInv, MdTypeOK
<1>3. \A k \in md'.objs : /\ md'.snapshot[k] = contents[k] /\ contents[k] \in MdObjects
                          /\ Data(contents[k]) \subseteq stored
  <2>1. \A k \in DOMAIN contents : Data(contents[k]) \subseteq stored
    BY SureIsLive DEF TakesHold, MdIInv, ToDeleteIsDead
  <2>2. \A k \in DOMAIN contents : contents[k] \in MdObjects
    BY DEF MdIInv, MdTypeOK
  <2> QED
    BY <1>2, <2>1, <2>2 DEF TakesHold
<1>4. MdTypeOK'
  BY <1>1, <1>2, <1>3 DEF TakesHold, MdIInv, MdTypeOK, MdPcs
<1>5. DataIsOwn' /\ MdLiveIsKept'
  BY <1>1 DEF MdIInv, DataIsOwn, MdLiveIsKept, Sure
<1>6. ToDeleteIsDead' /\ HeldIsKnown'
  BY <1>1, <1>3 DEF TakesHold, MdIInv, ToDeleteIsDead, HeldIsKnown, HoldsData, HoldsObjects
<1> QED
  BY <1>4, <1>5, <1>6 DEF MdIInv

\* The request loads parts or writes records.
LEMMA MdProceeds ==
    ASSUME MdIInv, HoldsObjects(md), NEW unread, NEW lis,
           NEW pc \in {"record", "remove"}, GoesOnWith(pc, unread, lis, md.raced),
           unread \subseteq Multiparts(md),
           contents' = contents, stored' = stored, mdSlips'.stayed = mdSlips.stayed, IsSlips(mdSlips')
    PROVE  MdIInv'
<1>1. LiveOids' = LiveOids /\ Sure' = Sure /\ Shrinks
  BY MdSame
<1>2. MdTypeOK'
  <2>1. Multiparts(md)' = Multiparts(md)
    BY DEF GoesOnWith, Multiparts
  <2> QED
    BY <2>1 DEF GoesOnWith, MdIInv, MdTypeOK, MdPcs, HoldsData, HoldsObjects
<1>3. DataIsOwn' /\ MdLiveIsKept'
  BY <1>1 DEF MdIInv, DataIsOwn, MdLiveIsKept, Sure
<1>4. ToDeleteIsDead' /\ HeldIsKnown'
  BY <1>1 DEF GoesOnWith, MdIInv, ToDeleteIsDead, HeldIsKnown, HoldsData, HoldsObjects
<1> QED
  BY <1>2, <1>3, <1>4 DEF MdIInv

\* Some of the batch leave the object list.
LEMMA MdGone ==
    ASSUME MdIInv, md.pc = "remove", NEW stay \in SUBSET md.objs,
           contents' = Removed(md.objs \ stay)
    PROVE  \A x \in LiveOids : x \notin LiveOids' => \E k \in md.objs \ stay : x \in Data(contents[k])
<1>1. PICK D, gone : D = DOMAIN contents /\ gone = md.objs \ stay
  OBVIOUS
<1>2. /\ DOMAIN contents' = D
      /\ \A k \in D : contents'[k] = IF k \in gone THEN None ELSE contents[k]
  BY <1>1 DEF Removed
<1>3. \A x : x \in LiveOids <=> \E k \in D : x \in Data(contents[k])
  BY <1>1, SureIsLive
<1>4. \A x : x \in LiveOids' <=> \E k \in D : x \in Data(contents'[k])
  BY <1>2 DEF LiveOids, DataOf
<1> QED
  BY <1>1, <1>2, <1>3, <1>4

LEMMA MdShrinks ==
    ASSUME MdIInv, md.pc = "remove", NEW stay \in SUBSET md.objs, NEW stayed, NEW forgot,
           contents' = Removed(md.objs \ stay), stayed \subseteq stay,
           mdSlips' = Slip(md.objs \ stay, stayed, forgot)
    PROVE  /\ Shrinks
           /\ stayed = stay => \A k \in md.objs : Data(md.snapshot[k]) \cap Sure' = {}
           /\ mdSlips'.stayed = (mdSlips.stayed \ (md.objs \ stay)) \cup stayed
           /\ mdSlips'.forgot = mdSlips.forgot \cup forgot
<1>1. PICK D : D = DOMAIN contents
  OBVIOUS
<1>2. PICK gone : gone = md.objs \ stay
  OBVIOUS
<1>3. /\ md.objs \subseteq D /\ contents \in [D -> MdObjects]
      /\ \A k \in md.objs : Data(md.snapshot[k]) \subseteq stored
  BY <1>1 DEF MdIInv, MdTypeOK, HeldIsKnown, HoldsData, HoldsObjects
<1>4. /\ DOMAIN contents' = D
      /\ \A k \in D : contents'[k] = IF k \in gone THEN None ELSE contents[k]
  BY <1>1, <1>2 DEF Removed
<1>5. Data(None) = {} /\ None \in MdObjects
  BY DEF Data, None, MdObjects
<1>6. PICK st : st = (mdSlips.stayed \ gone) \cup stayed
  OBVIOUS
<1>7. mdSlips' = [stayed |-> st, forgot |-> mdSlips.forgot \cup forgot]
  BY <1>2, <1>6 DEF Slip
<1>8. mdSlips'.stayed = st /\ mdSlips'.forgot = mdSlips.forgot \cup forgot /\ IsSlips(mdSlips')
  BY <1>7 DEF IsSlips
<1>9. \A x : x \in LiveOids <=> \E k \in D : x \in Data(contents[k])
  BY <1>1, SureIsLive
<1>10. \A x : x \in Sure <=> \E k \in D : k \notin mdSlips.stayed /\ x \in Data(contents[k])
  BY <1>1, SureIsLive
<1>11. \A x : x \in LiveOids' <=> \E k \in D \ gone : x \in Data(contents[k])
  <2>1. \A x : x \in LiveOids' <=> \E k \in D : x \in Data(contents'[k])
    BY <1>4 DEF LiveOids, DataOf
  <2> QED
    BY <1>4, <1>5, <2>1
<1>12. \A x : x \in Sure' <=> \E k \in D \ gone : k \notin st /\ x \in Data(contents[k])
  <2>1. \A x : x \in Sure' <=> \E k \in D \ st : x \in Data(contents'[k])
    BY <1>4, <1>8 DEF Sure, DataOf
  <2> QED
    BY <1>4, <1>5, <2>1
<1>13. contents' \in [DOMAIN contents' -> MdObjects]
  <2>1. contents' = [k \in D |-> IF k \in gone THEN None ELSE contents[k]]
    BY <1>1, <1>2 DEF Removed
  <2> QED
    BY <1>3, <1>5, <2>1
<1>14. DataIsOwn'
  BY <1>1, <1>4, <1>5 DEF MdIInv, DataIsOwn
<1>15. LiveOids' \subseteq LiveOids /\ Sure' \subseteq Sure
  <2>1. \A k \in D \ gone : k \notin st => k \notin mdSlips.stayed
    BY <1>6
  <2> QED
    BY <1>9, <1>10, <1>11, <1>12, <2>1
<1>16. ASSUME stayed = stay, NEW k \in md.objs PROVE Data(md.snapshot[k]) \cap Sure' = {}
  <2>0. \A x \in Sure' : \E j \in D \ md.objs : x \in Data(contents[j])
    BY <1>2, <1>6, <1>12, <1>16
  <2>1. CASE Data(md.snapshot[k]) \cap LiveOids = {}
    BY <1>9, <2>0, <2>1
  <2>2. CASE contents[k] = md.snapshot[k]
    <3>1. \A j \in D \ md.objs : Data(contents[j]) \cap Data(contents[k]) = {}
      BY <1>1, <1>3 DEF MdIInv, DataIsOwn
    <3> QED
      BY <2>0, <2>2, <3>1
  <2> QED
    BY <2>1, <2>2 DEF MdIInv, HeldIsKnown, HoldsObjects
<1> QED
  BY <1>1, <1>2, <1>4, <1>6, <1>8, <1>13, <1>14, <1>15, <1>16 DEF Shrinks

\* The request goes on to delete the data of all of the batch.
LEMMA MdRemoves ==
    ASSUME MdIInv, md.pc = "remove", GoesOnWith("extended", md.unread, md.listed, md.raced),
           Shrinks, stored' = stored, \A k \in md.objs : Data(md.snapshot[k]) \cap Sure' = {}
    PROVE  MdIInv'
<1>1. MdTypeOK'
  <2>1. Multiparts(md)' = Multiparts(md)
    BY DEF GoesOnWith, Multiparts
  <2> QED
    BY <2>1 DEF GoesOnWith, Shrinks, MdIInv, MdTypeOK, MdPcs, HoldsData, HoldsObjects
<1>2. LiveOids \subseteq stored
  BY DEF MdIInv, ToDeleteIsDead
<1>3. MdLiveIsKept'
  BY <1>2, SureIsLive DEF Shrinks, MdLiveIsKept, Sure
<1>4. ToDeleteIsDead'
  BY <1>2 DEF Shrinks, GoesOnWith, MdIInv, ToDeleteIsDead
<1>5. HeldIsKnown'
  BY DEF GoesOnWith, MdIInv, HeldIsKnown, HoldsData, HoldsObjects
<1> QED
  BY <1>1, <1>3, <1>4, <1>5 DEF MdIInv, Shrinks

\* The oid that an object has by itself is of data only if it has no parts.
LEMMA OwnIsData ==
    ASSUME MdIInv, HoldsData(md), NEW k \in md.objs, NEW o \in MdObjects, md.snapshot[k].own \in Data(o)
    PROVE  /\ md.snapshot[k].own \in Data(md.snapshot[k])
           /\ md.snapshot[k].own \in Recorded(md)
<1>1. md.snapshot[k] \in MdObjects /\ md.unread \subseteq Multiparts(md)
  BY DEF MdIInv, MdTypeOK
<1>2. \A p \in MdObjects : 0 \notin Data(p)
  BY MdAssumption DEF Data
<1>3. md.snapshot[k].parts = {}
  BY <1>1, MdAssumption
<1>4. md.snapshot[k].own # 0
  BY <1>2
<1>5. md.snapshot[k].own \in Data(md.snapshot[k])
  BY <1>3, <1>4 DEF Data
<1>6. k \notin md.unread
  BY <1>1, <1>3 DEF Multiparts
<1> QED
  BY <1>5, <1>6 DEF Recorded

\* What has left the object list may be deleted.
LEMMA MdExtended ==
    ASSUME MdIInv, md.pc = "extended"
    PROVE  /\ (md.toDelete \cup Owns(md) \cup Recorded(md)) \cap Sure = {}
           /\ (md.toDelete \cup Owns(md) \cup Recorded(md)) \cap Data(MdNew) \subseteq stored
<1>1. /\ md.objs \subseteq DOMAIN contents /\ contents \in [DOMAIN contents -> MdObjects]
      /\ HoldsData(md)
      /\ \A k \in md.objs : /\ Data(md.snapshot[k]) \subseteq stored
                            /\ Data(md.snapshot[k]) \cap Sure = {}
  BY DEF MdIInv, MdTypeOK, HeldIsKnown, HoldsData
<1>2. md.toDelete \cap Sure = {} /\ md.toDelete \cap Data(MdNew) \subseteq stored
  BY DEF MdIInv, ToDeleteIsDead
<1>3. Recorded(md) \cap Sure = {} /\ Recorded(md) \subseteq stored
  BY <1>1 DEF Recorded
<1>5. MdNew \in MdObjects
  BY DEF MdObjects
<1>7. Owns(md) \cap Sure = {}
  <2> SUFFICES ASSUME NEW k \in md.objs, md.snapshot[k].own \in Sure PROVE FALSE
    BY DEF Owns
  <2>1. PICK j \in DOMAIN contents : md.snapshot[k].own \in Data(contents[j])
    BY SureIsLive
  <2> QED
    BY <1>1, <2>1, OwnIsData
<1>8. Owns(md) \cap Data(MdNew) \subseteq stored
  BY <1>1, <1>5, OwnIsData DEF Owns
<1> QED
  BY <1>2, <1>3, <1>7, <1>8

LEMMA MdCleansUp ==
    ASSUME MdIInv, DeleteData \/ Unrecord \/ DelayDelete
    PROVE  MdIInv'
<1>1. /\ md.pc \in {"data", "unrecord"} /\ contents' = contents
      /\ stored' \subseteq stored /\ stored \ md.toDelete \subseteq stored'
      /\ md.pc # "data" => stored' = stored
      /\ IsSlips(mdSlips') /\ mdSlips'.stayed = mdSlips.stayed
  BY CleanupSteps DEF MdIInv, MdTypeOK, DeleteData, Unrecord, DelayDelete
<1>2. \E pc \in {"unrecord", "done"}, lis \in {{}, md.listed} : GoesOnWith(pc, md.unread, lis, md.raced)
  BY CleanupSteps DEF MdIInv
<1>3. PICK pc \in {"unrecord", "done"}, lis \in {{}, md.listed} :
         GoesOnWith(pc, md.unread, lis, md.raced)
  BY <1>2
<1>4. MdTypeOK'
  BY <1>1, <1>3 DEF GoesOnWith, MdIInv, MdTypeOK, MdPcs, HoldsData, HoldsObjects
<1>5. DataIsOwn' /\ ToDeleteIsDead' /\ HeldIsKnown'
  BY <1>1, <1>3 DEF GoesOnWith, MdIInv, DataIsOwn, ToDeleteIsDead, HeldIsKnown, HoldsData, HoldsObjects
<1>6. Sure' = Sure
  BY <1>1, MdSame
<1>7. MdLiveIsKept'
  BY <1>1, <1>6 DEF MdIInv, MdLiveIsKept, ToDeleteIsDead, Sure
<1> QED
  BY <1>4, <1>5, <1>7 DEF MdIInv

LEMMA MdReplaces ==
    ASSUME MdIInv, Replace
    PROVE  /\ MdIInv'
           /\ LiveOids \ LiveOids' \subseteq md'.raced /\ Data(MdNew) \subseteq LiveOids'
<1>1. PICK k \in DOMAIN contents :
          /\ contents' = [contents EXCEPT ![k] = MdNew]
          /\ GoesOnWith(md.pc, md.unread, md.listed, md.raced \cup Data(contents[k]) \cup Data(MdNew))
          /\ mdSlips' = [stayed |-> mdSlips.stayed \ {k}, forgot |-> mdSlips.forgot]
  BY ReplaceStep DEF MdIInv
<1>2. /\ md.pc # "done" /\ Data(MdNew) \cap stored = {} /\ Data(MdNew) \cap LiveOids = {}
      /\ stored' = stored \cup Data(MdNew)
  BY DEF Replace
<1>3. PICK D : D = DOMAIN contents
  OBVIOUS
<1>4. MdNew \in MdObjects
  BY DEF MdObjects
<1>5. DOMAIN contents' = D /\ contents'[k] = MdNew /\ \A j \in D : j # k => contents'[j] = contents[j]
  BY <1>1, <1>3 DEF MdIInv, MdTypeOK
<1>6. \A x : x \in LiveOids <=> \E j \in D : x \in Data(contents[j])
  BY <1>3, SureIsLive
<1>7. \A x : x \in LiveOids' <=> \E j \in D : x \in Data(contents'[j])
  BY <1>5 DEF LiveOids, DataOf
<1>8. \A x \in LiveOids' : x \in Data(MdNew) \/ \E j \in D : j # k /\ x \in Data(contents[j])
  BY <1>5, <1>7
<1>9. LiveOids' \subseteq LiveOids \cup Data(MdNew)
  BY <1>6, <1>8
<1>91. mdSlips'.stayed = mdSlips.stayed \ {k} /\ IsSlips(mdSlips')
  BY <1>1 DEF IsSlips
<1>92. Sure' \subseteq Sure \cup Data(MdNew)
  <2>1. \A x : x \in Sure' <=> \E j \in D : j \notin mdSlips'.stayed /\ x \in Data(contents'[j])
    BY <1>5 DEF Sure, DataOf
  <2>2. \A x : x \in Sure <=> \E j \in D : j \notin mdSlips.stayed /\ x \in Data(contents[j])
    BY <1>3, SureIsLive
  <2> QED
    BY <1>5, <1>91, <2>1, <2>2
<1>10. MdTypeOK'
  <2>1. contents' \in [DOMAIN contents' -> MdObjects]
    BY <1>1, <1>4 DEF MdIInv, MdTypeOK
  <2>2. Multiparts(md)' = Multiparts(md) /\ HoldsData(md)' = HoldsData(md)
    BY <1>1 DEF GoesOnWith, Multiparts, HoldsData, HoldsObjects
  <2>3. HoldsData(md) => md'.objs \subseteq D /\ md'.unread \subseteq Multiparts(md)
                         /\ \A j \in md'.objs : md'.snapshot[j] \in MdObjects
    BY <1>1, <1>3 DEF GoesOnWith, MdIInv, MdTypeOK
  <2> QED
    BY <1>1, <1>3, <1>5, <1>91, <2>1, <2>2, <2>3 DEF GoesOnWith, MdIInv, MdTypeOK
<1>11. \A j \in D : Data(contents[j]) \cap Data(MdNew) = {}
  BY <1>2, <1>6
<1>12. DataIsOwn'
  <2> SUFFICES ASSUME NEW i \in D, NEW j \in D, i # j
               PROVE  Data(contents'[i]) \cap Data(contents'[j]) = {}
    BY <1>5 DEF DataIsOwn
  <2>1. Data(contents[i]) \cap Data(contents[j]) = {}
    BY <1>3 DEF MdIInv, DataIsOwn
  <2> QED
    BY <1>5, <1>11, <2>1
<1>13. MdLiveIsKept'
  BY <1>2, <1>92 DEF MdIInv, MdLiveIsKept, Sure
<1>14. ToDeleteIsDead'
  <2> SUFFICES ASSUME md'.pc \notin {"unrecord", "done"}
               PROVE  /\ md'.toDelete \cap Sure' = {} /\ md'.toDelete \cap Data(MdNew) \subseteq stored'
                      /\ LiveOids' \subseteq stored'
    BY DEF ToDeleteIsDead
  <2>1. md.pc \notin {"unrecord", "done"} /\ md'.toDelete = md.toDelete
    BY <1>1 DEF GoesOnWith
  <2>2. md.toDelete \cap Sure = {} /\ md.toDelete \cap Data(MdNew) \subseteq stored /\ LiveOids \subseteq stored
    BY <2>1 DEF MdIInv, ToDeleteIsDead
  <2> QED
    BY <1>2, <1>9, <1>92, <2>1, <2>2
<1>15. HoldsData(md) => \A j \in md.objs : /\ j \in D /\ Data(md.snapshot[j]) \subseteq stored
                                           /\ Data(md.snapshot[j]) \cap Data(MdNew) = {}
  BY <1>2, <1>3 DEF MdIInv, HeldIsKnown, MdTypeOK
<1>16. ASSUME HoldsObjects(md), NEW j \in md.objs
       PROVE  \/ contents'[j] = md.snapshot[j]
              \/ /\ Data(md.snapshot[j]) \cap LiveOids' = {}
                 /\ Data(contents'[j]) \subseteq md'.raced
  <2>1. md'.raced = md.raced \cup Data(contents[k]) \cup Data(MdNew)
    BY <1>1 DEF GoesOnWith
  <2>2. j \in D /\ Data(md.snapshot[j]) \cap Data(MdNew) = {}
    BY <1>15, <1>16 DEF HoldsData
  <2>3. CASE Data(md.snapshot[j]) \cap LiveOids = {} /\ Data(contents[j]) \subseteq md.raced
    BY <1>5, <1>9, <2>1, <2>2, <2>3
  <2>4. CASE contents[j] = md.snapshot[j] /\ j # k
    BY <1>5, <2>2, <2>4
  <2>5. CASE contents[j] = md.snapshot[j] /\ j = k
    <3>1. \A i \in D : i # k => Data(contents[i]) \cap Data(contents[k]) = {}
      BY <1>3 DEF MdIInv, DataIsOwn
    <3> QED
      BY <1>5, <1>8, <2>1, <2>2, <2>5, <3>1
  <2> QED
    BY <1>16, <2>3, <2>4, <2>5 DEF MdIInv, HeldIsKnown
<1>17. HeldIsKnown'
  <2>1. /\ md'.pc = md.pc /\ md'.objs = md.objs /\ md'.snapshot = md.snapshot
        /\ HoldsData(md)' = HoldsData(md) /\ HoldsObjects(md)' = HoldsObjects(md)
    BY <1>1 DEF GoesOnWith, HoldsData, HoldsObjects
  <2>2. HoldsData(md)' => \A j \in md'.objs : Data(md'.snapshot[j]) \subseteq stored'
    BY <1>2, <1>15, <2>1
  <2>3. md'.pc = "extended" => \A j \in md'.objs : Data(md'.snapshot[j]) \cap Sure' = {}
    BY <1>92, <1>15, <2>1 DEF HoldsData, MdIInv, HeldIsKnown
  <2> QED
    BY <1>16, <2>1, <2>2, <2>3 DEF HeldIsKnown
<1>18. LiveOids \ LiveOids' \subseteq md'.raced
  <2>1. md'.raced = md.raced \cup Data(contents[k]) \cup Data(MdNew)
    BY <1>1 DEF GoesOnWith
  <2> QED
    BY <1>5, <1>6, <1>7, <2>1
<1>19. Data(MdNew) \subseteq LiveOids'
  BY <1>3, <1>5, <1>7
<1> QED
  BY <1>10, <1>12, <1>13, <1>14, <1>17, <1>18, <1>19 DEF MdIInv

LEMMA MdStepIInv == MdIInv /\ [MdNext]_mdVars => MdIInv'
<1> SUFFICES ASSUME MdIInv, [MdNext]_mdVars PROVE MdIInv'
  OBVIOUS
<1>1. MdTypeOK /\ IsSlips(mdSlips)
  BY DEF MdIInv, MdTypeOK
<1>2. ASSUME md.pc \notin {"unrecord", "done"}
      PROVE  md.toDelete \cap Sure = {} /\ md.toDelete \cap Data(MdNew) \subseteq stored
  BY <1>2 DEF MdIInv, ToDeleteIsDead
<1>21. ASSUME UNCHANGED <<contents, mdSlips>>
       PROVE  Shrinks
  BY <1>1, <1>21, MdSame
<1>3. CASE ValidateRequest
  BY <1>1, <1>2, <1>21, <1>3, ValidateStep, MdAdvances DEF ValidateRequest
<1>4. CASE FetchEnds
  BY <1>1, <1>2, <1>21, <1>4, FetchStep, MdAdvances, MdTakesHold DEF FetchEnds
<1>5. CASE LoadExtended
  <2>1. PICK bad \in SUBSET Multiparts(md) : GoesOnWith("record", bad, md.listed, md.raced)
    BY <1>1, <1>5, LoadStep
  <2> QED
    BY <1>1, <1>5, <2>1, MdProceeds DEF LoadExtended, HoldsObjects
<1>6. CASE AddRecords
  <2>1. /\ md.pc = "record" /\ HoldsObjects(md) /\ md.unread \subseteq Multiparts(md)
        /\ contents' = contents /\ stored' = stored
        /\ IsSlips(mdSlips') /\ mdSlips'.stayed = mdSlips.stayed
    BY <1>1, <1>6, RecordStep DEF AddRecords, HoldsObjects, HoldsData, MdTypeOK
  <2>2. Shrinks
    BY <2>1, MdSame
  <2> QED
    BY <1>1, <1>2, <1>6, <2>1, <2>2, RecordStep, MdAdvances, MdProceeds
<1>7. CASE RemoveMetadata \/ RemovalRefused
  <2>1. md.pc = "remove" /\ stored' = stored
    BY <1>1, <1>7, RemoveStep
  <2>2. CASE Advances(md.toDelete, md.listed) /\ UNCHANGED <<contents, mdSlips>>
    BY <1>2, <1>21, <2>1, <2>2, MdAdvances
  <2>3. ASSUME NEW stay \in SUBSET md.objs, contents' = Removed(md.objs \ stay),
               GoesOnWith("extended", md.unread, md.listed, md.raced),
               mdSlips' = Slip(md.objs \ stay, stay, DataOf((md.objs \ stay) \cap md.unread))
        PROVE  MdIInv'
    BY <2>1, <2>3, MdShrinks, MdRemoves
  <2>4. ASSUME NEW stay \in SUBSET md.objs, contents' = Removed(md.objs \ stay),
               Advances(md.toDelete, md.listed),
               mdSlips' = Slip(md.objs \ stay, {}, DataOf(md.objs \ stay))
        PROVE  MdIInv'
    <3>1. Shrinks
      BY <2>1, <2>4, MdShrinks
    <3> QED
      BY <1>2, <2>1, <2>4, <3>1, MdAdvances
  <2> QED
    BY <1>1, <1>7, <2>2, <2>3, <2>4, RemoveStep
<1>8. CASE DeleteExtended
  BY <1>1, <1>21, <1>8, ExtendedStep, MdExtended, MdAdvances DEF DeleteExtended
<1>9. CASE DeleteData \/ Unrecord \/ DelayDelete
  BY <1>9, MdCleansUp
<1>10. CASE Replace
  BY <1>10, MdReplaces
<1>11. CASE UNCHANGED mdVars
  <2>1. UNCHANGED <<md, contents, stored, mdRecs, mdSlips>> /\ LiveOids' = LiveOids /\ Sure' = Sure
    BY <1>11 DEF mdVars, LiveOids, Sure, DataOf
  <2> QED
    BY <2>1 DEF MdIInv, MdTypeOK, DataIsOwn, ToDeleteIsDead, HeldIsKnown, HoldsData, HoldsObjects,
                MdLiveIsKept, Sure, Multiparts
<1> QED
  BY <1>3, <1>4, <1>5, <1>6, <1>7, <1>8, <1>9, <1>10, <1>11 DEF MdNext, MdStep

\* A request that deletes many objects never takes the data of an object that
\* is listed, whatever fails, whatever the batches, and whoever stores an
\* object under one of its keys between its read of the list, the removal of
\* the metadata and the deletion (S3DeleteMultipleObjectsAction takes no lock),
\* except of an object whose metadata its batch's removal failed to remove while
\* it counted as successful (S3MotrKVSWriter::delete_keyval_successful).
THEOREM LiveDataIsAlwaysKept == MdSpec => []MdLiveIsKept
<1>1. MdIInv => MdLiveIsKept
  BY DEF MdIInv
<1> QED
  BY <1>1, MdInitIInv, MdStepIInv, PTL DEF MdSpec

-----------------------------------------------------------------------------
(* No dead data is forgotten but by the failures that mdSlips names.       *)

LEMMA MdInitGarbage == MdInit => MdGarbageIInv
<1> SUFFICES ASSUME MdInit PROVE MdGarbageIInv
  OBVIOUS
<1>1. PICK keys \in MdRequests, has \in BOOLEAN : md = NewMultiDelete(keys, has)
  BY DEF MdInit
<1>2. md.pc = "validate" /\ md.toDelete = {} /\ stored = LiveOids
  BY <1>1 DEF NewMultiDelete, MdInit
<1> QED
  BY <1>2, MdInitIInv DEF MdGarbageIInv, DeadIsOwned, OwnedIsRecorded

\* The request goes on to another batch or to its end with all that is dead in
\* its hands and on record.
LEMMA MdAdvancesGarbage ==
    ASSUME NEW del, NEW lis, Advances(del, lis), stored' = stored, mdRecs \subseteq mdRecs',
           mdSlips.forgot \subseteq mdSlips'.forgot,
           stored \subseteq LiveOids' \cup md.raced \cup mdSlips'.forgot \cup del,
           del \cap stored \subseteq mdRecs \cup Excused
    PROVE  DeadIsOwned' /\ OwnedIsRecorded'
<1>1. /\ md'.raced = md.raced /\ md'.toDelete = del
      /\ md'.pc = "fetch" \/ (md'.pc = "unrecord" /\ del = {}) \/ md'.pc = "data"
  BY DEF Advances
<1>2. InFlightData(md') = {} /\ Excused' = md.raced \cup mdSlips'.forgot
  BY <1>1 DEF InFlightData, Excused
<1>3. stored' \subseteq LiveOids' \cup Excused' \cup md'.toDelete
  BY <1>1, <1>2
<1>4. md'.toDelete \cap stored' \subseteq mdRecs' \cup Excused'
  BY <1>1, <1>2 DEF Excused
<1>5. DeadIsOwned'
  BY <1>1, <1>2, <1>3 DEF DeadIsOwned
<1> QED
  BY <1>1, <1>4, <1>5 DEF OwnedIsRecorded

LEMMA MdStepGarbage == MdGarbageIInv /\ [MdNext]_mdVars => MdGarbageIInv'
<1> SUFFICES ASSUME MdGarbageIInv, [MdNext]_mdVars PROVE DeadIsOwned' /\ OwnedIsRecorded'
  BY MdStepIInv DEF MdGarbageIInv
<1>1. MdTypeOK /\ MdIInv
  BY DEF MdGarbageIInv, MdIInv
<1>2. ASSUME md.pc \notin {"unrecord", "done", "extended"}
      PROVE  /\ stored \subseteq LiveOids \cup Excused \cup md.toDelete
             /\ md.toDelete \cap stored \subseteq mdRecs \cup Excused
  BY <1>2 DEF MdGarbageIInv, DeadIsOwned, OwnedIsRecorded, InFlightData
<1>21. contents' = contents => LiveOids' = LiveOids
  BY DEF LiveOids, DataOf
<1>3. CASE ValidateRequest
  <2>1. /\ UNCHANGED <<contents, stored, mdRecs, mdSlips>> /\ md.pc = "validate"
    BY <1>3 DEF ValidateRequest
  <2> QED
    BY <1>1, <1>2, <1>21, <1>3, <2>1, ValidateStep, MdAdvancesGarbage DEF Excused
<1>4. CASE FetchEnds
  <2>0. /\ UNCHANGED <<contents, stored, mdRecs, mdSlips>> /\ md.pc = "fetch"
    BY <1>4 DEF FetchEnds
  <2>1. CASE Advances(md.toDelete, md.listed)
    BY <1>2, <1>21, <2>0, <2>1, MdAdvancesGarbage DEF Excused
  <2>2. CASE TakesHold
    <3>1. /\ md'.pc = "load" /\ md'.toDelete = md.toDelete /\ md'.raced = md.raced
      BY <2>2 DEF TakesHold
    <3>2. Excused' = Excused
      BY <2>0, <3>1 DEF Excused
    <3> QED
      BY <1>2, <1>21, <2>0, <3>1, <3>2 DEF DeadIsOwned, OwnedIsRecorded, InFlightData
  <2> QED
    BY <1>1, <1>4, <2>1, <2>2, FetchStep
<1>5. CASE LoadExtended
  <2>1. /\ md.pc = "load" /\ UNCHANGED <<contents, stored, mdRecs, mdSlips>>
        /\ \E bad : GoesOnWith("record", bad, md.listed, md.raced)
    BY <1>1, <1>5, LoadStep DEF LoadExtended
  <2>2. md'.pc = "record" /\ md'.toDelete = md.toDelete /\ md'.raced = md.raced
    BY <2>1 DEF GoesOnWith
  <2>3. Excused' = Excused
    BY <2>1, <2>2 DEF Excused
  <2> QED
    BY <1>2, <1>21, <2>1, <2>2, <2>3 DEF DeadIsOwned, OwnedIsRecorded, InFlightData
<1>6. CASE AddRecords
  <2>1. /\ md.pc = "record" /\ contents' = contents /\ stored' = stored
        /\ mdRecs \subseteq mdRecs' /\ mdSlips.forgot \subseteq mdSlips'.forgot
    BY <1>1, <1>6, RecordStep DEF AddRecords
  <2>2. CASE Advances(md.toDelete, md.listed \cup Recorded(md))
    BY <1>2, <1>21, <2>1, <2>2, MdAdvancesGarbage DEF Excused
  <2>3. CASE /\ GoesOnWith("remove", md.unread, md.listed \cup Recorded(md), md.raced)
             /\ Recorded(md) \subseteq mdRecs' \cup mdSlips'.forgot
    <3>1. /\ md'.pc = "remove" /\ md'.toDelete = md.toDelete
          /\ md'.raced = md.raced /\ Recorded(md)' = Recorded(md)
      BY <2>3 DEF GoesOnWith, Recorded
    <3>2. Excused \subseteq Excused'
      BY <2>1, <3>1 DEF Excused
    <3> QED
      BY <1>2, <1>21, <2>1, <2>3, <3>1, <3>2 DEF DeadIsOwned, OwnedIsRecorded, InFlightData
  <2> QED
    BY <1>1, <1>6, <2>2, <2>3, RecordStep
<1>7. CASE RemoveMetadata \/ RemovalRefused
  <2>1. md.pc = "remove" /\ stored' = stored /\ mdRecs' = mdRecs
    BY <1>1, <1>7, RemoveStep
  <2>2. CASE Advances(md.toDelete, md.listed) /\ UNCHANGED <<contents, mdSlips>>
    BY <1>2, <1>21, <2>1, <2>2, MdAdvancesGarbage DEF Excused
  <2>3. ASSUME NEW stay \in SUBSET md.objs, contents' = Removed(md.objs \ stay),
               GoesOnWith("extended", md.unread, md.listed, md.raced),
               mdSlips' = Slip(md.objs \ stay, stay, DataOf((md.objs \ stay) \cap md.unread))
        PROVE  DeadIsOwned' /\ OwnedIsRecorded'
    <3>1. /\ md'.pc = "extended" /\ md'.toDelete = md.toDelete
          /\ md'.raced = md.raced /\ Recorded(md)' = Recorded(md)
      BY <2>3 DEF GoesOnWith, Recorded
    <3>2. PICK forgot : forgot = DataOf((md.objs \ stay) \cap md.unread)
      OBVIOUS
    <3>3. mdSlips'.forgot = mdSlips.forgot \cup forgot
          /\ \A x \in LiveOids : x \notin LiveOids' => \E k \in md.objs \ stay : x \in Data(contents[k])
      <4>1. mdSlips' = Slip(md.objs \ stay, stay, forgot)
        BY <2>3, <3>2
      <4>2. \A x \in LiveOids : x \notin LiveOids' => \E k \in md.objs \ stay : x \in Data(contents[k])
        BY <1>1, <2>1, <2>3, MdGone
      <4> QED
        BY <4>1, <4>2 DEF Slip
    <3>4. Recorded(md) \subseteq mdRecs \cup mdSlips.forgot
      BY <2>1 DEF MdGarbageIInv, OwnedIsRecorded
    <3>5. ASSUME NEW k \in md.objs \ stay
          PROVE  Data(contents[k]) \subseteq Recorded(md) \cup md.raced \cup forgot
      <4>1. CASE k \in md.unread
        BY <3>2, <4>1 DEF DataOf
      <4>2. CASE k \notin md.unread /\ contents[k] = md.snapshot[k]
        BY <4>2 DEF Recorded
      <4> QED
        BY <1>1, <2>1, <4>1, <4>2 DEF MdIInv, HeldIsKnown, HoldsObjects
    <3>6. \A x \in LiveOids : x \notin LiveOids' => x \in Recorded(md) \cup md.raced \cup forgot
      BY <3>3, <3>5
    <3>7. InFlightData(md)' = Recorded(md) /\ Excused' = md.raced \cup mdSlips.forgot \cup forgot
      BY <3>1, <3>3 DEF InFlightData, Excused
    <3>8. stored \subseteq LiveOids \cup md.raced \cup mdSlips.forgot \cup md.toDelete
          /\ md.toDelete \cap stored \subseteq mdRecs \cup md.raced \cup mdSlips.forgot
      BY <1>2, <2>1 DEF Excused
    <3>9. DeadIsOwned'
      <4>1. stored' \subseteq LiveOids' \cup Excused' \cup md'.toDelete \cup InFlightData(md)'
        BY <2>1, <3>1, <3>6, <3>7, <3>8
      <4> QED
        BY <3>1, <4>1 DEF DeadIsOwned
    <3>10. OwnedIsRecorded'
      <4>1. md'.toDelete \cap stored' \subseteq mdRecs' \cup Excused'
        BY <2>1, <3>1, <3>7, <3>8
      <4>2. Recorded(md)' \subseteq mdRecs' \cup mdSlips'.forgot
        BY <2>1, <3>1, <3>3, <3>4
      <4> QED
        BY <3>1, <4>1, <4>2 DEF OwnedIsRecorded
    <3> QED
      BY <3>9, <3>10
  <2>4. ASSUME NEW stay \in SUBSET md.objs, contents' = Removed(md.objs \ stay),
               Advances(md.toDelete, md.listed),
               mdSlips' = Slip(md.objs \ stay, {}, DataOf(md.objs \ stay))
        PROVE  DeadIsOwned' /\ OwnedIsRecorded'
    <3>1. /\ mdSlips'.forgot = mdSlips.forgot \cup DataOf(md.objs \ stay)
          /\ \A x \in LiveOids : x \notin LiveOids' => \E k \in md.objs \ stay : x \in Data(contents[k])
      <4>1. contents' = Removed(md.objs \ stay)
        BY <2>4
      <4>2. \A x \in LiveOids : x \notin LiveOids' => \E k \in md.objs \ stay : x \in Data(contents[k])
        BY <1>1, <2>1, <4>1, MdGone
      <4> QED
        BY <2>4, <4>2 DEF Slip
    <3>2. \A x \in LiveOids : x \notin LiveOids' => x \in mdSlips'.forgot
      BY <3>1 DEF DataOf
    <3>3. mdSlips.forgot \subseteq mdSlips'.forgot
      BY <3>1
    <3>4. stored \subseteq LiveOids' \cup md.raced \cup mdSlips'.forgot \cup md.toDelete
      BY <1>2, <2>1, <3>2, <3>3 DEF Excused
    <3> QED
      BY <1>2, <2>1, <2>4, <3>3, <3>4, MdAdvancesGarbage
  <2> QED
    BY <1>1, <1>7, <2>2, <2>3, <2>4, RemoveStep
<1>8. CASE DeleteExtended
  <2>1. md.pc = "extended" /\ UNCHANGED <<contents, stored, mdRecs, mdSlips>>
    BY <1>8 DEF DeleteExtended
  <2>2. PICK del : del = md.toDelete \cup Owns(md) \cup Recorded(md)
    OBVIOUS
  <2>3. Advances(del, md.listed)
    BY <1>1, <1>8, <2>2, ExtendedStep
  <2>4. stored \subseteq LiveOids \cup Excused \cup md.toDelete \cup Recorded(md)
    BY <2>1 DEF MdGarbageIInv, DeadIsOwned, InFlightData
  <2>5. /\ Recorded(md) \subseteq mdRecs \cup Excused
        /\ md.toDelete \cap stored \subseteq mdRecs \cup Excused
    BY <2>1 DEF MdGarbageIInv, OwnedIsRecorded, Excused
  <2>6. Owns(md) \cap LiveOids \subseteq Recorded(md)
    <3> SUFFICES ASSUME NEW k \in md.objs, md.snapshot[k].own \in LiveOids
                 PROVE  md.snapshot[k].own \in Recorded(md)
      BY DEF Owns
    <3>1. PICK j \in DOMAIN contents : md.snapshot[k].own \in Data(contents[j])
      BY SureIsLive
    <3>2. contents[j] \in MdObjects /\ HoldsData(md)
      BY <1>1, <2>1 DEF MdTypeOK, HoldsData
    <3> QED
      BY <1>1, <3>1, <3>2, OwnIsData
  <2>7. del \cap stored \subseteq mdRecs \cup Excused
    BY <2>2, <2>4, <2>5, <2>6
  <2>8. stored \subseteq LiveOids' \cup md.raced \cup mdSlips'.forgot \cup del
    BY <1>21, <2>1, <2>2, <2>4 DEF Excused
  <2> QED
    BY <2>1, <2>3, <2>7, <2>8, MdAdvancesGarbage
<1>9. CASE DeleteData
  <2>1. md.pc = "data" /\ mdRecs' = mdRecs /\ contents' = contents
    BY <1>9 DEF DeleteData
  <2>2. CASE /\ GoesOnWith("unrecord", md.unread, md.listed, md.raced)
             /\ stored' \subseteq (stored \ md.toDelete) \cup mdSlips'.forgot
             /\ mdSlips.forgot \subseteq mdSlips'.forgot
    <3>1. md'.pc = "unrecord" /\ md'.raced = md.raced
      BY <2>2 DEF GoesOnWith
    <3> QED
      BY <1>2, <1>21, <2>1, <2>2, <3>1 DEF DeadIsOwned, OwnedIsRecorded, Excused
  <2>3. CASE GoesOnWith("unrecord", md.unread, {}, md.raced) /\ stored' = stored /\ mdSlips' = mdSlips
    <3>1. md'.pc = "unrecord" /\ md'.raced = md.raced /\ md'.listed = {}
      BY <2>3 DEF GoesOnWith
    <3> QED
      BY <1>2, <1>21, <2>1, <2>3, <3>1 DEF DeadIsOwned, OwnedIsRecorded, Excused
  <2> QED
    BY <1>1, <1>9, <2>2, <2>3, CleanupSteps
<1>10. CASE Unrecord
  <2>1. /\ md.pc = "unrecord" /\ mdRecs \ md.listed \subseteq mdRecs' /\ stored' = stored
        /\ contents' = contents /\ mdSlips' = mdSlips
    BY <1>10 DEF Unrecord
  <2>2. md'.pc = "done" /\ md'.raced = md.raced
    BY <1>1, <1>10, CleanupSteps DEF GoesOnWith
  <2> QED
    BY <1>21, <2>1, <2>2 DEF MdGarbageIInv, DeadIsOwned, OwnedIsRecorded, Excused
<1>11. CASE DelayDelete
  <2>1. md.pc = "data" /\ UNCHANGED <<contents, stored, mdRecs, mdSlips>>
    BY <1>11 DEF DelayDelete
  <2>2. md'.pc = "done" /\ md'.raced = md.raced
    BY <1>1, <1>11, CleanupSteps DEF GoesOnWith
  <2> QED
    BY <1>2, <1>21, <2>1, <2>2 DEF DeadIsOwned, OwnedIsRecorded, Excused
<1>12. CASE Replace
  <2>0. PICK k \in DOMAIN contents :
           /\ GoesOnWith(md.pc, md.unread, md.listed, md.raced \cup Data(contents[k]) \cup Data(MdNew))
           /\ mdSlips' = [stayed |-> mdSlips.stayed \ {k}, forgot |-> mdSlips.forgot]
    BY <1>1, <1>12, ReplaceStep
  <2>1. PICK raced : /\ raced = md.raced \cup Data(contents[k]) \cup Data(MdNew)
                     /\ GoesOnWith(md.pc, md.unread, md.listed, raced)
    BY <2>0
  <2>2. /\ stored' = stored \cup Data(MdNew) /\ mdRecs' = mdRecs /\ md.pc # "done"
        /\ mdSlips'.forgot = mdSlips.forgot
    BY <1>12, <2>0 DEF Replace
  <2>3. LiveOids \ LiveOids' \subseteq raced /\ Data(MdNew) \subseteq LiveOids'
    BY <1>1, <1>12, <2>1, MdReplaces DEF GoesOnWith
  <2>4. /\ md'.pc = md.pc /\ md'.listed = md.listed /\ md'.raced = raced
        /\ md'.toDelete = md.toDelete /\ Recorded(md)' = Recorded(md)
    BY <2>1 DEF GoesOnWith, Recorded
  <2>5. InFlightData(md)' = InFlightData(md) /\ Excused \subseteq Excused' /\ raced \subseteq Excused'
    BY <2>1, <2>2, <2>4 DEF InFlightData, Excused
  <2>6. DeadIsOwned'
    <3>1. LiveOids \cup Data(MdNew) \subseteq LiveOids' \cup Excused'
      BY <2>3, <2>5
    <3> QED
      BY <2>2, <2>4, <2>5, <3>1 DEF MdGarbageIInv, DeadIsOwned
  <2>7. OwnedIsRecorded'
    <3>1. ASSUME md.pc \notin {"unrecord", "done"}
          PROVE  md.toDelete \cap stored' \subseteq mdRecs' \cup Excused'
      <4>1. Data(MdNew) \subseteq raced
        BY <2>1
      <4> QED
        BY <2>2, <2>5, <3>1, <4>1 DEF MdGarbageIInv, OwnedIsRecorded
    <3> QED
      BY <2>2, <2>4, <3>1 DEF MdGarbageIInv, OwnedIsRecorded
  <2> QED
    BY <2>6, <2>7
<1>13. CASE UNCHANGED mdVars
  <2>1. UNCHANGED <<md, contents, stored, mdRecs, mdSlips>>
    BY <1>13 DEF mdVars
  <2> QED
    BY <1>21, <2>1 DEF MdGarbageIInv, DeadIsOwned, OwnedIsRecorded, InFlightData, Recorded, Excused
<1> QED
  BY <1>3, <1>4, <1>5, <1>6, <1>7, <1>8, <1>9, <1>10, <1>11, <1>12, <1>13 DEF MdNext, MdStep

\* Nor does it forget any: data that no object refers to has a probable delete
\* record or is about to be deleted, in every state, except what the failures
\* that mdSlips.forgot collects leave behind: parts that could not be loaded,
\* records that were not written, metadata that a failed operation removed, and
\* data that Motr failed to delete (S3DeleteMultipleObjectsAction::cleanup_failed).
THEOREM DeadDataIsNeverForgotten == MdSpec => []MdStoreIsSafe
<1>1. MdGarbageIInv => MdStoreIsSafe
  <2> SUFFICES ASSUME MdGarbageIInv PROVE MdGarbageIsRecorded
    BY DEF MdGarbageIInv, MdIInv, MdStoreIsSafe
  <2>1. CASE md.pc \in {"unrecord", "done"}
    BY <2>1 DEF MdGarbageIInv, DeadIsOwned, MdGarbageIsRecorded, Excused
  <2>2. CASE md.pc \notin {"unrecord", "done"}
    BY <2>2 DEF MdGarbageIInv, DeadIsOwned, OwnedIsRecorded, InFlightData, MdGarbageIsRecorded, Excused
  <2> QED
    BY <2>1, <2>2
<1> QED
  BY <1>1, MdInitGarbage, MdStepGarbage, PTL DEF MdSpec

-----------------------------------------------------------------------------
(* The answer reports what was done, if the request names no key twice.    *)

MdDistinct == \A keys \in MdRequests : \A i, j \in 1 .. Len(keys) : keys[i] = keys[j] => i = j

\* The request ends with an error, or goes on with ok and failed as its report
\* so far.
ReportsError(ok, failed) ==
    /\ md'.ok = ok /\ md'.failed = failed /\ md'.keys = md.keys /\ md'.index = md.index
    /\ md'.pc \in {"data", "unrecord"} /\ md'.reply = "error"
ReportsBatch(ok, failed) ==
    /\ md'.ok = ok /\ md'.failed = failed /\ md'.keys = md.keys /\ md'.index = md.index
    /\ md'.pc = "fetch" /\ md'.reply = md.reply
    /\ md'.at \in Nat /\ md.at <= md'.at /\ md'.at <= Len(md.keys)
    /\ md'.batch = {md.keys[i] : i \in md.at + 1 .. md'.at}
ReportsAll(ok, failed) ==
    /\ md'.ok = ok /\ md'.failed = failed /\ md'.keys = md.keys /\ md'.index = md.index
    /\ md'.pc \in {"data", "unrecord"} /\ md'.reply = "result" /\ ~MoreKeys(md)
Reports(ok, failed) ==
    ReportsError(ok, failed) \/ ReportsBatch(ok, failed) \/ ReportsAll(ok, failed)

LEMMA MdReports ==
    ASSUME MdTypeOK, md.reply = "none", NEW q, IsMd(q),
           q.keys = md.keys, q.at = md.at, q.reply = md.reply, q.index = md.index
    PROVE  /\ md' = Error(q) => ReportsError(q.ok, q.failed)
           /\ md' = FetchObjectsInfo(q) => ReportsBatch(q.ok, q.failed)
           /\ md' \in {Respond(q), RespondAny(q)} /\ ~MoreKeys(md) => Reports(q.ok, q.failed)
<1>1. md.keys \in MdRequests /\ md.at \in Nat /\ md.at <= Len(md.keys)
  <2>1. md.keys \in MdRequests /\ md.at \in 0 .. Len(md.keys) /\ md.keys \in Seq(Range(md.keys))
    BY MdAssumption DEF MdTypeOK
  <2> QED
    BY <2>1
<1>2. md' = Error(q) => ReportsError(q.ok, q.failed)
  BY MdEnded DEF IsEnded, Kept, ReportsError
<1>3. md' = FetchObjectsInfo(q) => ReportsBatch(q.ok, q.failed)
  <2> SUFFICES ASSUME md' = FetchObjectsInfo(q) PROVE ReportsBatch(q.ok, q.failed)
    OBVIOUS
  <2>1. IsFetching(q, md')
    BY <1>1, MdFetching
  <2> QED
    BY <2>1 DEF IsFetching, Kept, ReportsBatch
<1>4. md' = Respond(q) /\ ~MoreKeys(md) => ReportsAll(q.ok, q.failed)
  BY MdEnded DEF IsEnded, Kept, ReportsAll
<1>5. RespondAny(q) \in {Respond(q), Error(q)}
  BY MdEnded
<1> QED
  BY <1>2, <1>3, <1>4, <1>5 DEF Reports

LEMMA ReportedKeys ==
    ASSUME MdTypeOK
    PROVE  /\ md.keys \in MdRequests /\ md.keys \in Seq(Range(md.keys)) /\ Len(md.keys) \in Nat
           /\ md.at \in 0 .. Len(md.keys) /\ Range(md.keys) = {md.keys[i] : i \in 1 .. Len(md.keys)}
           /\ Reported \subseteq Range(md.keys)
           /\ ~MoreKeys(md) => Reported = Range(md.keys)
<1>1. md.keys \in MdRequests /\ md.at \in 0 .. Len(md.keys) /\ md.keys \in Seq(Range(md.keys))
  BY MdAssumption DEF MdTypeOK
<1>2. Len(md.keys) \in Nat /\ DOMAIN md.keys = 1 .. Len(md.keys)
  BY <1>1
<1>3. Range(md.keys) = {md.keys[i] : i \in 1 .. Len(md.keys)}
  BY <1>2 DEF Range
<1>4. \A i \in 1 .. md.at : i \in 1 .. Len(md.keys)
  BY <1>1, <1>2
<1>5. ~MoreKeys(md) => md.at = Len(md.keys)
  BY <1>1, <1>2 DEF MoreKeys
<1> QED
  BY <1>1, <1>2, <1>3, <1>4, <1>5 DEF Reported

\* Every key has its place: the next batch names none that was reported.
LEMMA MdReportGoesOn ==
    ASSUME MdDistinct, MdTypeOK, NEW ok, NEW failed, Reports(ok, failed),
           ok \cap failed = {}, md.reply = "none",
           \A k \in ok : k \in Range(md.keys) /\ Settled(k)',
           ~ReportsError(ok, failed) => Reported = ok \cup failed,
           ~md.index => ok \cup failed = {} /\ ~ReportsBatch(ok, failed)
    PROVE  ReportIInv'
<1>1. CASE ReportsError(ok, failed)
  BY <1>1 DEF ReportsError, ReportIInv
<1>2. CASE ReportsAll(ok, failed) /\ ~ReportsError(ok, failed)
  BY <1>2, ReportedKeys DEF ReportsAll, ReportIInv
<1>3. CASE ReportsBatch(ok, failed) /\ ~ReportsError(ok, failed)
  <2>1. /\ md'.ok = ok /\ md'.failed = failed /\ md'.keys = md.keys /\ md'.pc = "fetch"
        /\ md'.reply = "none" /\ md'.index = md.index /\ md.index
    BY <1>3 DEF ReportsBatch
  <2>2. PICK at \in Nat : at = md.at /\ at <= Len(md.keys)
    BY ReportedKeys
  <2>3. PICK upto \in Nat : /\ upto = md'.at /\ at <= upto /\ upto <= Len(md.keys)
                            /\ md'.batch = {md.keys[i] : i \in at + 1 .. upto}
    BY <1>3, <2>2 DEF ReportsBatch
  <2>4. Reported' = {md.keys[i] : i \in 1 .. upto} /\ Reported = {md.keys[i] : i \in 1 .. at}
    BY <2>1, <2>2, <2>3 DEF Reported
  <2>5. Reported' = md'.batch \cup Reported
    <3>1. \A i \in 1 .. upto : i \in 1 .. at \/ i \in at + 1 .. upto
      BY <2>2, <2>3
    <3>2. \A i \in (1 .. at) \cup (at + 1 .. upto) : i \in 1 .. upto
      BY <2>2, <2>3
    <3> QED
      BY <2>3, <2>4, <3>1, <3>2
  <2>6. md'.batch \cap Reported = {}
    <3> SUFFICES ASSUME NEW i \in at + 1 .. upto, NEW j \in 1 .. at, md.keys[i] = md.keys[j]
                 PROVE  FALSE
      BY <2>3, <2>4
    <3>0. PICK len \in Nat : len = Len(md.keys) /\ at <= upto /\ upto <= len
      BY <2>3, ReportedKeys
    <3>1. i \in 1 .. len /\ j \in 1 .. len
      BY <3>0
    <3>2. i = j
      BY <3>0, <3>1, ReportedKeys DEF MdDistinct
    <3> QED
      BY <2>2, <3>2
  <2>7. Pending' = md'.batch
    BY <2>1 DEF Pending
  <2> QED
    BY <1>3, <2>1, <2>5, <2>6, <2>7 DEF ReportIInv
<1> QED
  BY <1>1, <1>2, <1>3 DEF Reports

\* It holds on to some of a batch and has reported the rest.
LEMMA FetchReport ==
    ASSUME MdDistinct, MdTypeOK, ReportIInv, FetchEnds
    PROVE  ReportIInv'
<1> DEFINE found == {k \in md.batch : contents[k] # None}
<1>1. /\ md.pc = "fetch" /\ contents' = contents /\ mdSlips' = mdSlips
      /\ \/ md' = Error(md)
         \/ md' = BatchMissing(md) /\ found = {}
         \/ md' = BatchFound(md, found)
  BY DEF FetchEnds
<1>2. /\ IsMd(md) /\ md.reply = "none" /\ md.ok \cap md.failed = {}
      /\ md.batch \cap (md.ok \cup md.failed) = {}
      /\ Reported = md.batch \cup md.ok \cup md.failed
      /\ md.batch \subseteq Range(md.keys) /\ md.index
      /\ \A k \in md.ok : k \in Range(md.keys) /\ Settled(k)
      /\ \A k : Settled(k)' <=> Settled(k)
  BY <1>1 DEF MdTypeOK, ReportIInv, Pending, Settled
<1>3. CASE md' = Error(md)
  <2>1. ReportsError(md.ok, md.failed)
    BY <1>1, <1>2, <1>3, MdReports
  <2> QED
    BY <1>2, <2>1, MdReportGoesOn DEF Reports
<1>4. CASE md' = BatchMissing(md) /\ found = {}
  <2>1. PICK ok : ok = md.ok \cup md.batch
    OBVIOUS
  <2>2. PICK q : q = [md EXCEPT !.ok = ok]
    OBVIOUS
  <2>3. /\ IsMd(q) /\ q.keys = md.keys /\ q.at = md.at /\ q.reply = md.reply
        /\ q.index = md.index
        /\ q.ok = ok /\ q.failed = md.failed
    BY <1>2, <2>2 DEF IsMd, MdFields
  <2>4. md' = FetchObjectsInfo(q) \/ (md' = Respond(q) /\ ~MoreKeys(md))
    BY <1>4, <2>1, <2>2 DEF BatchMissing
  <2>5. Reports(ok, md.failed)
    BY <1>1, <1>2, <2>3, <2>4, MdReports DEF Reports
  <2>6. \A k \in md.batch : contents[k] = None
    BY <1>4
  <2>7. \A k \in ok : k \in Range(md.keys) /\ Settled(k)
    BY <1>2, <2>1, <2>6 DEF Settled
  <2>8. ok \cap md.failed = {} /\ Reported = ok \cup md.failed
    BY <1>2, <2>1
  <2> QED
    BY <1>2, <2>5, <2>7, <2>8, MdReportGoesOn
<1>5. CASE md' = BatchFound(md, found)
  <2>1. PICK good : good = found \ MdCorrupt
    OBVIOUS
  <2>2. PICK ok, failed, snapshot :
            /\ ok = md.ok \cup (md.batch \ found) /\ failed = md.failed \cup (found \cap MdCorrupt)
            /\ snapshot = [k \in good |-> contents[k]]
    OBVIOUS
  <2>3. PICK none : none = {}
    OBVIOUS
  <2>4. PICK q : q = [md EXCEPT !.ok = ok, !.failed = failed, !.objs = good, !.unread = none,
                                !.snapshot = snapshot]
    OBVIOUS
  <2>5. md' = CASE good # {} -> [q EXCEPT !.pc = "load"]
                [] good = {} /\ MoreKeys(md) -> FetchObjectsInfo(q)
                [] good = {} /\ ~MoreKeys(md) -> RespondAny(q)
    BY <1>5, <2>1, <2>2, <2>3, <2>4 DEF BatchFound
  <2>6. found \subseteq md.batch /\ \A k \in md.batch \ found : contents[k] = None
    OBVIOUS
  <2> HIDE DEF found
  <2>7. /\ IsMd(q) /\ q.keys = md.keys /\ q.at = md.at /\ q.reply = md.reply
        /\ q.index = md.index
        /\ q.ok = ok /\ q.failed = failed /\ q.objs = good
    BY ONLY <1>2, <2>4 DEF IsMd, MdFields
  <2>8. /\ \A k \in ok : k \in Range(md.keys) /\ Settled(k)
        /\ ok \cap failed = {} /\ good \cap (ok \cup failed) = {}
        /\ Reported = good \cup ok \cup failed
    BY <1>2, <2>1, <2>2, <2>6 DEF Settled
  <2>9. CASE good # {}
    <3>1. md' = [q EXCEPT !.pc = "load"]
      BY <2>5, <2>9
    <3>2. /\ md'.pc = "load" /\ md'.keys = md.keys /\ md'.at = md.at /\ md'.reply = "none"
          /\ md'.objs = good /\ md'.ok = ok /\ md'.failed = failed /\ md'.index = md.index
      BY ONLY <1>2, <2>7, <3>1 DEF IsMd, MdFields
    <3>3. Pending' = good /\ Reported' = Reported
      BY <3>2 DEF Pending, Reported, HoldsData, HoldsObjects
    <3> QED
      BY <1>1, <1>2, <2>8, <3>2, <3>3 DEF ReportIInv
  <2>10. CASE good = {}
    <3>1. md' = FetchObjectsInfo(q) \/ (md' = RespondAny(q) /\ ~MoreKeys(md))
      BY <2>5, <2>10
    <3>2. Reports(ok, failed)
      BY <1>1, <1>2, <2>7, <3>1, MdReports DEF Reports
    <3> QED
      BY <1>2, <2>8, <2>10, <3>2, MdReportGoesOn
  <2> QED
    BY <2>9, <2>10
<1> QED
  BY <1>1, <1>3, <1>4, <1>5

LEMMA RemoveReport ==
    ASSUME MdDistinct, MdTypeOK, ReportIInv, RemoveMetadata \/ RemovalRefused
    PROVE  ReportIInv'
<1>1. /\ md.pc = "remove" /\ IsMd(md) /\ md.reply = "none" /\ md.ok \cap md.failed = {}
      /\ md.objs \cap (md.ok \cup md.failed) = {}
      /\ Reported = md.objs \cup md.ok \cup md.failed
      /\ \A k \in md.ok : k \in Range(md.keys) /\ Settled(k)
      /\ Range(md.keys) \subseteq DOMAIN contents /\ md.index /\ IsSlips(mdSlips)
  BY DEF RemoveMetadata, RemovalRefused, MdTypeOK, ReportIInv, Pending, HoldsData, HoldsObjects
<1>2. md.objs \subseteq Range(md.keys)
  BY <1>1, ReportedKeys
<1>3. CASE RemovalRefused
  <2>1. ReportsError(md.ok, md.failed)
    BY <1>1, <1>3, MdReports DEF RemovalRefused
  <2>2. \A k : Settled(k)' <=> Settled(k)
    BY <1>3 DEF Settled, RemovalRefused
  <2> QED
    BY <1>1, <2>1, <2>2, MdReportGoesOn DEF Reports
<1>4. ASSUME RemoveMetadata PROVE ReportIInv'
  <2>0. PICK stay \in Passed({k \in md.objs : contents[k] # None}) :
          /\ contents' = Removed(md.objs \ stay)
          /\ \/ /\ md' = [md EXCEPT !.pc = "extended"]
                /\ mdSlips' = Slip(md.objs \ stay, stay, DataOf((md.objs \ stay) \cap md.unread))
             \/ /\ md' = RemovalFails(md)
                /\ mdSlips' = Slip(md.objs \ stay, {}, DataOf(md.objs \ stay))
    BY <1>4 DEF RemoveMetadata
  <2>1. PICK away : away = md.objs \ stay
    OBVIOUS
  <2>2. \A k \in DOMAIN contents : contents'[k] = IF k \in away THEN None ELSE contents[k]
    BY <2>0, <2>1 DEF Removed
  <2>3. mdSlips.stayed \ away \subseteq mdSlips'.stayed
    BY <2>0, <2>1 DEF Slip
  <2>4. \A k \in DOMAIN contents : Settled(k) => Settled(k)'
    BY <2>2, <2>3 DEF Settled
  <2>5. CASE md' = RemovalFails(md)
    <3>1. PICK gone : gone = {k \in md.objs : contents[k] = None}
      OBVIOUS
    <3>2. PICK any, ok, failed : /\ any = (md.any \/ gone # {}) /\ ok = md.ok \cup gone
                                 /\ failed = md.failed \cup (md.objs \ gone)
      OBVIOUS
    <3>3. PICK q : q = [md EXCEPT !.any = any, !.ok = ok, !.failed = failed]
      OBVIOUS
    <3>4. /\ IsMd(q) /\ q.keys = md.keys /\ q.at = md.at /\ q.reply = md.reply
          /\ q.ok = ok /\ q.failed = failed /\ q.index = md.index
      BY <1>1, <3>3 DEF IsMd, MdFields
    <3>5. md' = FetchObjectsInfo(q) \/ (md' = RespondAny(q) /\ ~MoreKeys(md))
      BY <2>5, <3>1, <3>2, <3>3 DEF RemovalFails
    <3>6. Reports(ok, failed)
      BY <1>1, <3>4, <3>5, MdReports DEF Reports
    <3>7. \A k \in ok : k \in Range(md.keys) /\ Settled(k)
      BY <1>1, <1>2, <3>1, <3>2 DEF Settled
    <3>8. \A k \in ok : k \in Range(md.keys) /\ Settled(k)'
      BY <1>1, <2>4, <3>7
    <3>9. ok \cap failed = {} /\ Reported = ok \cup failed
      BY <1>1, <1>2, <3>1, <3>2
    <3> QED
      BY <1>1, <3>6, <3>8, <3>9, MdReportGoesOn
  <2>6. CASE /\ md' = [md EXCEPT !.pc = "extended"]
             /\ mdSlips' = Slip(md.objs \ stay, stay, DataOf((md.objs \ stay) \cap md.unread))
    <3>1. /\ md'.pc = "extended" /\ md'.keys = md.keys /\ md'.at = md.at /\ md'.reply = "none"
          /\ md'.objs = md.objs /\ md'.ok = md.ok /\ md'.failed = md.failed /\ md'.index = md.index
      BY <1>1, <2>6 DEF IsMd, MdFields
    <3>2. Pending' = md.objs /\ Reported' = Reported
      BY <3>1 DEF Pending, Reported, HoldsData, HoldsObjects
    <3>3. stay \subseteq mdSlips'.stayed
      BY <2>6 DEF Slip
    <3>4. \A k \in md.objs : Settled(k)'
      BY <1>1, <1>2, <2>1, <2>2, <3>3 DEF Settled
    <3>5. \A k \in md.ok : k \in Range(md.keys) /\ Settled(k)'
      BY <1>1, <2>4
    <3> QED
      BY <1>1, <3>1, <3>2, <3>4, <3>5 DEF ReportIInv
  <2> QED
    BY <2>0, <2>5, <2>6
<1> QED
  BY <1>3, <1>4

LEMMA ExtendedReport ==
    ASSUME MdDistinct, MdTypeOK, ReportIInv, DeleteExtended
    PROVE  ReportIInv'
<1>1. /\ md.pc = "extended" /\ IsMd(md) /\ md.reply = "none" /\ md.ok \cap md.failed = {}
      /\ md.objs \cap (md.ok \cup md.failed) = {}
      /\ Reported = md.objs \cup md.ok \cup md.failed
      /\ \A k \in md.ok : k \in Range(md.keys) /\ Settled(k)
      /\ \A k \in md.objs : Settled(k)
      /\ md.index /\ \A k : Settled(k)' <=> Settled(k)
  BY DEF DeleteExtended, MdTypeOK, ReportIInv, Pending, HoldsData, HoldsObjects, Settled
<1>2. md.objs \subseteq Range(md.keys)
  BY <1>1, ReportedKeys
<1>3. PICK del, ok : /\ del = md.toDelete \cup {md.snapshot[k].own : k \in md.objs} \cup Recorded(md)
                     /\ ok = md.ok \cup md.objs
  OBVIOUS
<1>4. PICK q : q = [md EXCEPT !.any = TRUE, !.ok = ok, !.toDelete = del]
  OBVIOUS
<1>5. /\ IsMd(q) /\ q.keys = md.keys /\ q.at = md.at /\ q.reply = md.reply
        /\ q.index = md.index
      /\ q.ok = ok /\ q.failed = md.failed
  BY <1>1, <1>4 DEF IsMd, MdFields
<1>6. /\ md' = FetchObjectsInfo(q) \/ (md' = Respond(q) /\ ~MoreKeys(md))
  BY <1>3, <1>4 DEF DeleteExtended
<1>7. Reports(ok, md.failed)
  BY <1>1, <1>5, <1>6, MdReports DEF Reports
<1>8. /\ \A k \in ok : k \in Range(md.keys) /\ Settled(k)'
      /\ ok \cap md.failed = {} /\ Reported = ok \cup md.failed
  BY <1>1, <1>2, <1>3
<1> QED
  BY <1>1, <1>7, <1>8, MdReportGoesOn

\* The steps that report nothing.
LEMMA ProceedsReport ==
    ASSUME ReportIInv, NEW pc \in MdPcs, NEW unread, NEW lis, NEW raced,
           GoesOnWith(pc, unread, lis, raced),
           \/ pc = md.pc
           \/ HoldsObjects(md) /\ pc \in {"record", "remove"}
           \/ md.reply # "none" /\ pc \in {"unrecord", "done"},
           \A k \in md.ok \cup md.objs : Settled(k) => Settled(k)'
    PROVE  ReportIInv'
<1>1. /\ md'.pc = pc /\ md'.keys = md.keys /\ md'.at = md.at /\ md'.reply = md.reply
      /\ md'.objs = md.objs /\ md'.ok = md.ok /\ md'.failed = md.failed /\ md'.batch = md.batch
      /\ md'.index = md.index
  BY DEF GoesOnWith
<1>2. Reported' = Reported
  BY <1>1 DEF Reported
<1>3. md.reply = "none" => Pending' = Pending
  BY <1>1 DEF Pending, HoldsData, HoldsObjects
<1>4. md.pc \notin {"data", "unrecord", "done"} => md.reply = "none"
  BY DEF ReportIInv
<1> QED
  BY <1>1, <1>2, <1>3, <1>4 DEF ReportIInv, HoldsObjects

LEMMA MdStepReport ==
    ASSUME MdDistinct
    PROVE  MdIInv /\ ReportIInv /\ [MdNext]_mdVars => ReportIInv'
<1> SUFFICES ASSUME MdIInv, ReportIInv, [MdNext]_mdVars PROVE ReportIInv'
  OBVIOUS
<1>1. MdTypeOK
  BY DEF MdIInv
<1>01. UNCHANGED <<contents, mdSlips>> => \A k : Settled(k)' <=> Settled(k)
  BY DEF Settled
<1>2. CASE ValidateRequest
  <2>1. /\ md.pc = "validate" /\ IsMd(md) /\ md.reply = "none" /\ md.ok \cap md.failed = {}
        /\ Reported = md.ok \cup md.failed /\ UNCHANGED <<contents, mdSlips>>
        /\ \A k \in md.ok : k \in Range(md.keys) /\ Settled(k)'
    BY <1>1, <1>01, <1>2 DEF ValidateRequest, MdTypeOK, ReportIInv, Pending, HoldsData, HoldsObjects
  <2>2. CASE md.index
    <3>1. ReportsBatch(md.ok, md.failed) \/ ReportsError(md.ok, md.failed)
      BY <1>1, <1>2, <2>1, <2>2, MdReports DEF ValidateRequest
    <3> QED
      BY <1>1, <2>1, <2>2, <3>1, MdReportGoesOn DEF Reports
  <2>3. CASE ~md.index
    <3>1. md' \in {Respond(md), Error(md)}
      BY <1>2, <2>3 DEF ValidateRequest
    <3>2. IsEnded(md, md')
      BY <2>1, <3>1, MdEnded
    <3>3. /\ md'.index = md.index /\ md'.ok = md.ok /\ md'.failed = md.failed
          /\ md'.pc \in {"data", "unrecord"} /\ md'.reply \in {"result", "error"}
      BY <2>1, <3>1, <3>2, MdEnded DEF IsEnded, Kept
    <3>4. md.ok \cup md.failed = {}
      BY <2>3 DEF ReportIInv
    <3> QED
      BY <2>3, <3>3, <3>4 DEF ReportIInv
  <2> QED
    BY <2>2, <2>3
<1>3. CASE FetchEnds
  BY <1>1, <1>3, FetchReport
<1>4. CASE LoadExtended
  <2>1. PICK bad : GoesOnWith("record", bad, md.listed, md.raced)
    BY <1>1, <1>4, LoadStep
  <2>2. HoldsObjects(md) /\ UNCHANGED <<contents, mdSlips>>
    BY <1>4 DEF LoadExtended, HoldsObjects
  <2> QED
    BY <1>01, <2>1, <2>2, ProceedsReport DEF MdPcs
<1>5. CASE AddRecords
  <2>1. PICK lis : lis = md.listed \cup Recorded(md)
    OBVIOUS
  <2>2. PICK q : q = [md EXCEPT !.listed = lis]
    OBVIOUS
  <2>3. /\ md.pc = "record" /\ contents' = contents /\ HoldsObjects(md)
        /\ md' = [md EXCEPT !.pc = "remove", !.listed = lis] \/ md' = Error(q)
    BY <1>5, <2>1, <2>2 DEF AddRecords, HoldsObjects
  <2>31. mdSlips'.stayed = mdSlips.stayed
    BY <1>1, <1>5, RecordStep
  <2>32. \A k : Settled(k)' <=> Settled(k)
    BY <2>3, <2>31 DEF Settled
  <2>4. IsMd(md) /\ md.reply = "none" /\ md.ok \cap md.failed = {} /\ md.index
        /\ \A k \in md.ok : k \in Range(md.keys) /\ Settled(k)'
    BY <1>1, <2>3, <2>32 DEF MdTypeOK, ReportIInv
  <2>5. CASE md' = Error(q)
    <3>1. /\ IsMd(q) /\ q.keys = md.keys /\ q.at = md.at /\ q.reply = md.reply
        /\ q.index = md.index
          /\ q.ok = md.ok /\ q.failed = md.failed
      BY <2>2, <2>4 DEF IsMd, MdFields
    <3>2. ReportsError(md.ok, md.failed)
      BY <1>1, <2>3, <2>4, <2>5, <3>1, MdReports
    <3> QED
      BY <1>1, <2>4, <3>2, MdReportGoesOn DEF Reports
  <2>6. CASE md' = [md EXCEPT !.pc = "remove", !.listed = lis]
    <3>1. GoesOnWith("remove", md.unread, lis, md.raced)
      BY <2>4, <2>6 DEF GoesOnWith, IsMd, MdFields
    <3> QED
      BY <2>3, <2>32, <3>1, ProceedsReport DEF MdPcs
  <2> QED
    BY <2>3, <2>5, <2>6
<1>6. CASE RemoveMetadata \/ RemovalRefused
  BY <1>1, <1>6, RemoveReport
<1>7. CASE DeleteExtended
  BY <1>1, <1>7, ExtendedReport
<1>8. CASE DeleteData \/ Unrecord \/ DelayDelete
  <2>1. /\ md.pc \in {"data", "unrecord"} /\ contents' = contents /\ mdSlips'.stayed = mdSlips.stayed
        /\ \E pc \in {"unrecord", "done"}, lis \in {{}, md.listed} :
              GoesOnWith(pc, md.unread, lis, md.raced)
    BY <1>1, <1>8, CleanupSteps DEF DeleteData, Unrecord, DelayDelete
  <2>2. PICK pc \in {"unrecord", "done"}, lis \in {{}, md.listed} :
           GoesOnWith(pc, md.unread, lis, md.raced)
    BY <2>1
  <2>3. md'.pc = pc /\ md'.reply = md.reply /\ md'.index = md.index
    BY <2>2 DEF GoesOnWith
  <2>31. \A k : Settled(k)' <=> Settled(k)
    BY <2>1 DEF Settled
  <2>4. CASE md.reply # "none"
    BY <2>1, <2>2, <2>31, <2>4, ProceedsReport DEF MdPcs
  <2>5. CASE md.reply = "none"
    <3>1. /\ md'.keys = md.keys /\ md'.at = md.at /\ md'.ok = md.ok /\ md'.failed = md.failed
          /\ Pending = {} /\ Pending' = {} /\ Reported' = Reported
      BY <2>1, <2>2, <2>3 DEF GoesOnWith, Pending, HoldsData, HoldsObjects, Reported
    <3> QED
      BY <2>1, <2>3, <2>31, <2>5, <3>1 DEF ReportIInv
  <2> QED
    BY <2>4, <2>5
<1>9. CASE Replace
  <2>0. PICK k \in DOMAIN contents :
           /\ contents' = [contents EXCEPT ![k] = MdNew]
           /\ GoesOnWith(md.pc, md.unread, md.listed, md.raced \cup Data(contents[k]) \cup Data(MdNew))
           /\ mdSlips' = [stayed |-> mdSlips.stayed \ {k}, forgot |-> mdSlips.forgot]
    BY <1>1, <1>9, ReplaceStep
  <2>1. PICK raced : GoesOnWith(md.pc, md.unread, md.listed, raced)
    BY <2>0
  <2>2. \A j \in DOMAIN contents : Settled(j) => Settled(j)'
    BY <2>0 DEF Settled
  <2>3. md.pc \in MdPcs /\ Range(md.keys) \subseteq DOMAIN contents
    BY <1>1 DEF MdTypeOK
  <2>4. /\ md'.pc = md.pc /\ md'.keys = md.keys /\ md'.at = md.at /\ md'.reply = md.reply
        /\ md'.objs = md.objs /\ md'.ok = md.ok /\ md'.failed = md.failed /\ md'.batch = md.batch
        /\ md'.index = md.index
    BY <2>1 DEF GoesOnWith
  <2>5. Reported' = Reported /\ Pending' = Pending
    BY <2>4 DEF Reported, Pending, HoldsData, HoldsObjects
  <2>6. md.pc = "extended" => md.objs \subseteq DOMAIN contents
    BY <1>1 DEF MdTypeOK, HoldsData
  <2> QED
    BY <2>2, <2>3, <2>4, <2>5, <2>6 DEF ReportIInv
<1>10. CASE UNCHANGED mdVars
  BY <1>10 DEF mdVars, ReportIInv, Reported, Pending, HoldsData, HoldsObjects, Settled
<1> QED
  BY <1>2, <1>3, <1>4, <1>5, <1>6, <1>7, <1>8, <1>9, <1>10 DEF MdNext, MdStep

LEMMA MdInitReport == MdInit => ReportIInv
<1> SUFFICES ASSUME MdInit PROVE ReportIInv
  OBVIOUS
<1>1. PICK keys \in MdRequests, has \in BOOLEAN : md = NewMultiDelete(keys, has)
  BY DEF MdInit
<1>2. /\ md.pc = "validate" /\ md.ok = {} /\ md.failed = {} /\ md.at = 0 /\ md.reply = "none"
  BY <1>1 DEF NewMultiDelete
<1>3. Reported = {}
  BY <1>2 DEF Reported
<1> QED
  BY <1>2, <1>3 DEF ReportIInv, Pending, HoldsData, HoldsObjects

\* The answer to a request that names no key twice reports every key, deleted
\* or failed and not both, and none as deleted that the request has left in
\* the bucket, over all batches and through every failure of one of them, unless
\* the removal of its batch failed to remove it and counted as successful.
THEOREM ReportIsAlwaysTrue == MdDistinct /\ MdSpec => []MdReportIsTrue
<1> SUFFICES ASSUME MdDistinct PROVE MdSpec => []MdReportIsTrue
  BY DEF MdDistinct
<1>1. ReportIInv => MdReportIsTrue
  BY DEF ReportIInv, MdReportIsTrue, Settled
<1> QED
  BY <1>1, MdInitIInv, MdStepIInv, MdInitReport, MdStepReport, PTL DEF MdSpec

-----------------------------------------------------------------------------
(* The authentication client.                                              *)

AuthSpec == AuthInit /\ [][AuthNext]_au

AuthRecord ==
    [op : {"combo", "authorization", "validation"},
     opStatus : {"unknown", "success", "failed", "connection_failed"}, retry : 0 .. MaxAuthRetry,
     conn : BOOLEAN, hooks : BOOLEAN, timer : BOOLEAN, details : BOOLEAN, answered : BOOLEAN,
     loose : BOOLEAN, cut : BOOLEAN, connected : BOOLEAN, succeeded : Nat, failed : Nat,
     pc : {"start", "asked", "delay", "over", "again"}]

\* A question that nothing has been called back for, and that no event is
\* outstanding for.  Only an answer without a body leaves it without an end.
Bare(a) ==
    /\ a \in AuthRecord /\ ~a.timer /\ ~a.hooks
    /\ a.succeeded = 0 /\ a.failed = 0

\* The inductive invariant: what is outstanding belongs to the step, and who
\* succeeded has been told of the user.
Good(a) ==
    /\ a \in AuthRecord
    /\ a.pc = "again" => a.loose
    /\ a.pc # "again" =>
        /\ a.succeeded + a.failed <= 1
        /\ a.pc = "over" <=> a.succeeded + a.failed = 1
        /\ a.hooks => a.pc = "asked"
        /\ a.timer <=> a.pc = "delay"
    /\ a.answered => a.pc = "over" \/ a.loose
    /\ a.succeeded > 0 => a.answered /\ (a.details \/ a.op = "validation" \/ a.cut)
AuthIInv == Good(au)

-----------------------------------------------------------------------------
(* What the operators of the client do to a question.                      *)

\* What the steps below leave alone.
AuthKept(a, b) ==
    /\ b.op = a.op /\ b.answered = a.answered /\ b.details = a.details
    /\ b.loose = a.loose /\ b.cut = a.cut

\* S3AuthClient: the failure handler is called, and nothing else happens.
LEMMA FailedFields ==
    ASSUME NEW a \in AuthRecord
    PROVE  LET b == HandlerOnFailed(a)
           IN  /\ b \in AuthRecord /\ AuthKept(a, b) /\ b.pc = "over"
               /\ b.failed = a.failed + 1 /\ b.succeeded = a.succeeded
               /\ b.hooks = a.hooks /\ b.timer = a.timer
<1>1. PICK n \in Nat : n = a.failed + 1
  BY DEF AuthRecord
<1>2. HandlerOnFailed(a) = [a EXCEPT !.failed = n, !.pc = "over"]
  BY <1>1 DEF HandlerOnFailed
<1>3. [a EXCEPT !.failed = n, !.pc = "over"] \in AuthRecord
  BY DEF AuthRecord
<1> QED
  BY <1>1, <1>2, <1>3 DEF AuthRecord, AuthKept

\* S3AuthClient: the success handler is called, and nothing else happens.
LEMMA SucceededFields ==
    ASSUME NEW a \in AuthRecord
    PROVE  LET b == HandlerOnSuccess(a)
           IN  /\ b \in AuthRecord /\ AuthKept(a, b) /\ b.pc = "over"
               /\ b.failed = a.failed /\ b.succeeded = a.succeeded + 1
               /\ b.hooks = a.hooks /\ b.timer = a.timer
<1>1. PICK n \in Nat : n = a.succeeded + 1
  BY DEF AuthRecord
<1>2. HandlerOnSuccess(a) = [a EXCEPT !.succeeded = n, !.pc = "over"]
  BY <1>1 DEF HandlerOnSuccess
<1>3. [a EXCEPT !.succeeded = n, !.pc = "over"] \in AuthRecord
  BY DEF AuthRecord
<1> QED
  BY <1>1, <1>2, <1>3 DEF AuthRecord, AuthKept

\* set_event_with_retry_interval, below the limit of retries.
LEMMA RetryFields ==
    ASSUME NEW a \in AuthRecord, a.retry < MaxAuthRetry
    PROVE  LET b == SetEventWithRetryInterval(a)
           IN  /\ b \in AuthRecord /\ AuthKept(a, b) /\ b.pc = "delay" /\ b.timer
               /\ b.failed = a.failed /\ b.succeeded = a.succeeded /\ b.hooks = a.hooks
<1>1. PICK n \in 0 .. MaxAuthRetry : n = a.retry + 1
  BY AuthAssumption DEF AuthRecord
<1>2. SetEventWithRetryInterval(a) = [a EXCEPT !.retry = n, !.timer = TRUE, !.pc = "delay"]
  BY <1>1 DEF SetEventWithRetryInterval
<1>3. [a EXCEPT !.retry = n, !.timer = TRUE, !.pc = "delay"] \in AuthRecord
  BY DEF AuthRecord
<1> QED
  BY <1>1, <1>2, <1>3 DEF AuthRecord, AuthKept

\* init_auth_op_ctx: a connection with hooks.
LEMMA AskedFields ==
    ASSUME NEW a \in AuthRecord
    PROVE  LET b == InitAuthOpCtx(a)
           IN  /\ b \in AuthRecord /\ AuthKept(a, b) /\ b.pc = "asked"
               /\ b.failed = a.failed /\ b.succeeded = a.succeeded /\ b.timer = a.timer
  BY DEF InitAuthOpCtx, AuthRecord, AuthKept

\* handle_response: what is read is noted, and what is outstanding stays.
LEMMA ResponseFields ==
    ASSUME NEW a \in AuthRecord, NEW code, NEW whole \in BOOLEAN
    PROVE  LET b == HandleResponse(a, code, whole)
           IN  /\ b \in AuthRecord
               /\ b.succeeded = a.succeeded /\ b.failed = a.failed
               /\ b.timer = a.timer /\ b.hooks = a.hooks /\ b.loose = a.loose
               /\ b.op = a.op /\ b.answered
               /\ code # "ok" => b.opStatus = "failed"
               /\ code = "ok" => b.details \/ b.op = "validation" \/ b.cut
<1>1. PICK s \in {"success", "failed"} : s = IF code = "ok" THEN "success" ELSE "failed"
  OBVIOUS
<1>2. PICK d \in BOOLEAN : d = (code = "ok" /\ whole /\ a.op # "validation")
  OBVIOUS
<1>c. PICK c \in BOOLEAN : c = ~whole
  OBVIOUS
<1>3. HandleResponse(a, code, whole)
        = [a EXCEPT !.opStatus = s, !.answered = TRUE, !.cut = c, !.details = d]
  BY <1>1, <1>2, <1>c DEF HandleResponse
<1>4. [a EXCEPT !.opStatus = s, !.answered = TRUE, !.cut = c, !.details = d] \in AuthRecord
  BY DEF AuthRecord
<1>5. LET b == HandleResponse(a, code, whole)
      IN  /\ b.succeeded = a.succeeded /\ b.failed = a.failed
          /\ b.timer = a.timer /\ b.hooks = a.hooks /\ b.loose = a.loose
          /\ b.op = a.op /\ b.answered /\ b.opStatus = s /\ b.cut = c /\ b.details = d
  BY <1>3 DEF AuthRecord
<1>6. code = "ok" => d \/ a.op = "validation" \/ c
  BY <1>2, <1>c
<1> QED
  BY <1>1, <1>3, <1>4, <1>5, <1>6

\* unset_hooks takes the hooks off and nothing else.
LEMMA UnsetFields ==
    ASSUME NEW a \in AuthRecord
    PROVE  LET b == UnsetHooks(a)
           IN  /\ b \in AuthRecord /\ ~b.hooks /\ AuthKept(a, b)
               /\ b.succeeded = a.succeeded /\ b.failed = a.failed /\ b.timer = a.timer
  BY DEF UnsetHooks, AuthRecord, AuthKept

\* Hooks that are left on.
LEMMA LeaveFields ==
    ASSUME NEW a \in AuthRecord
    PROVE  LET b == LeaveHooks(a)
           IN  /\ b \in AuthRecord /\ ~b.hooks /\ b.loose
               /\ b.op = a.op /\ b.answered = a.answered /\ b.details = a.details /\ b.cut = a.cut
               /\ b.succeeded = a.succeeded /\ b.failed = a.failed /\ b.timer = a.timer
  BY DEF LeaveHooks, AuthRecord

-----------------------------------------------------------------------------
(* The inductive invariant.                                                *)

LEMMA InitEstablishes == AuthInit => AuthIInv
<1>1. SUFFICES ASSUME NEW op \in AuthOps, au = NewQuestion(op) PROVE AuthIInv
  BY DEF AuthInit
<1> QED
  BY <1>1, AuthAssumption DEF NewQuestion, AuthIInv, AuthRecord, Good

\* A question that has failed for good is over.
LEMMA FailsForGood ==
    ASSUME NEW a, Bare(a)
    PROVE  Good(HandlerOnFailed(a))
<1>1. a \in AuthRecord /\ ~a.timer /\ ~a.hooks /\ a.succeeded = 0 /\ a.failed = 0
  BY DEF Bare
<1> DEFINE b == HandlerOnFailed(a)
<1>2. /\ b \in AuthRecord /\ AuthKept(a, b) /\ b.pc = "over"
      /\ b.failed = 1 /\ b.succeeded = 0 /\ ~b.hooks /\ ~b.timer
  BY <1>1, FailedFields
<1> HIDE DEF b
<1>3. Good(b)
  BY <1>2 DEF Good
<1> QED
  BY <1>3 DEF b

\* on_common_failed calls the handler or sets the timer, never both.
LEMMA FailedOnce ==
    ASSUME NEW a, Bare(a), a.answered => a.opStatus = "failed" \/ a.loose
    PROVE  Good(OnCommonFailed(a))
<1>1. CASE a.opStatus = "connection_failed" /\ a.retry < MaxAuthRetry
  <2> DEFINE b == SetEventWithRetryInterval(a)
  <2>1. OnCommonFailed(a) = b
    BY <1>1 DEF OnCommonFailed
  <2>2. a \in AuthRecord /\ ~a.hooks /\ a.succeeded = 0 /\ a.failed = 0 /\ (a.answered => a.loose)
    BY <1>1 DEF Bare
  <2>3. /\ b \in AuthRecord /\ AuthKept(a, b) /\ b.pc = "delay" /\ b.timer
        /\ b.failed = 0 /\ b.succeeded = 0 /\ ~b.hooks
    BY <1>1, <2>2, RetryFields
  <2> HIDE DEF b
  <2> QED
    BY <2>1, <2>2, <2>3 DEF Good, AuthKept
<1>2. CASE ~(a.opStatus = "connection_failed" /\ a.retry < MaxAuthRetry)
  <2>1. OnCommonFailed(a) = HandlerOnFailed(a)
    BY <1>2 DEF OnCommonFailed
  <2> QED
    BY <2>1, FailsForGood
<1> QED
  BY <1>1, <1>2

\* A question that waits for the server, with its hooks taken off or left on.
LEMMA WaitingIsBare ==
    ASSUME NEW a, Good(a), a.pc = "asked", NEW b, b = UnsetHooks(a) \/ b = LeaveHooks(a)
    PROVE  Bare(b) /\ (b.answered => b.loose) /\ (b = LeaveHooks(a) => b.loose) /\ b.op = a.op
<1>1. a \in AuthRecord /\ ~a.timer /\ (a.answered => a.loose)
  BY DEF Good
<1>2. a.succeeded = 0 /\ a.failed = 0
  BY <1>1 DEF Good, AuthRecord
<1> QED
  BY <1>1, <1>2, UnsetFields, LeaveFields DEF Bare, AuthKept

\* trigger_request from a question with nothing outstanding.
LEMMA AskingIsGood ==
    ASSUME NEW a, Bare(a), a.answered => a.loose,
           au' = InitAuthOpCtx(a) \/ TriggerRequestFails(a)
    PROVE  AuthIInv'
<1>1. a \in AuthRecord /\ ~a.timer /\ ~a.hooks /\ a.succeeded = 0 /\ a.failed = 0
  BY DEF Bare
<1> DEFINE b == InitAuthOpCtx(a)
<1>2. /\ b \in AuthRecord /\ AuthKept(a, b) /\ b.pc = "asked"
      /\ b.failed = 0 /\ b.succeeded = 0 /\ ~b.timer
  BY <1>1, AskedFields
<1>3. au' = b \/ au' = HandlerOnFailed(LeaveHooks(b))
  BY DEF TriggerRequestFails
<1> HIDE DEF b
<1>4. CASE au' = b
  BY <1>2, <1>4 DEF Good, AuthIInv, AuthKept
<1>5. CASE au' = HandlerOnFailed(LeaveHooks(b))
  <2>1. Bare(LeaveHooks(b))
    BY <1>2, LeaveFields DEF Bare
  <2> QED
    BY <1>5, <2>1, FailsForGood DEF AuthIInv
<1> QED
  BY <1>3, <1>4, <1>5

\* A broken connection marks the status, if the client is still there.
LEMMA StatusFields ==
    ASSUME NEW a \in AuthRecord, NEW c,
           c = IF a.connected THEN [a EXCEPT !.opStatus = "connection_failed"] ELSE a
    PROVE  /\ c \in AuthRecord /\ AuthKept(a, c) /\ c.pc = a.pc /\ c.hooks = a.hooks /\ c.timer = a.timer
           /\ c.succeeded = a.succeeded /\ c.failed = a.failed
<1>1. [a EXCEPT !.opStatus = "connection_failed"] \in AuthRecord
  BY DEF AuthRecord
<1> QED
  BY <1>1 DEF AuthRecord, AuthKept

LEMMA StepPreserves == AuthIInv /\ [AuthNext]_au => AuthIInv'
<1> SUFFICES ASSUME AuthIInv, [AuthNext]_au PROVE AuthIInv'
  OBVIOUS
<1>0. Good(au) /\ au \in AuthRecord
  BY DEF AuthIInv, Good
<1>1. CASE Ask
  <2>1. Bare(au) /\ (au.answered => au.loose)
    BY <1>0, <1>1 DEF Ask, Bare, Good, AuthRecord
  <2> QED
    BY <1>1, <2>1, AskingIsGood DEF Ask
<1>2. CASE ReadResponse
  <2>1. PICK code \in {"ok"} \cup ({"refused"} \cap AuthFault),
             whole \in {TRUE} \cup {"split" \notin AuthFault} :
          LET a == HandleResponse(UnsetHooks(au), code, whole)
          IN  au' = IF ~au.connected THEN OnCommonFailed(UnsetHooks(au))
                    ELSE IF code = "ok" THEN HandlerOnSuccess(a) ELSE OnCommonFailed(a)
    BY <1>2 DEF ReadResponse
  <2> DEFINE u == UnsetHooks(au)
             a == HandleResponse(u, code, whole)
             b == HandlerOnSuccess(a)
  <2>2. Bare(u) /\ (u.answered => u.loose)
    BY <1>0, <1>2, WaitingIsBare DEF ReadResponse
  <2>3. whole \in BOOLEAN
    BY <2>1
  <2>4. Bare(a) /\ a.answered /\ (code # "ok" => a.opStatus = "failed")
        /\ (code = "ok" => a.details \/ a.op = "validation" \/ a.cut)
    <3>1. u \in AuthRecord /\ ~u.timer /\ ~u.hooks /\ u.succeeded = 0 /\ u.failed = 0
      BY <2>2 DEF Bare
    <3> HIDE DEF u
    <3> QED
      BY <2>3, <3>1, ResponseFields DEF Bare
  <2>5. \/ au' = OnCommonFailed(u)
        \/ au' = b /\ code = "ok"
        \/ au' = OnCommonFailed(a) /\ code # "ok"
    BY <2>1
  <2> HIDE DEF u, a
  <2>6. CASE au' = OnCommonFailed(u)
    BY <2>2, <2>6, FailedOnce DEF AuthIInv
  <2>7. CASE au' = b /\ code = "ok"
    <3>1. a \in AuthRecord /\ ~a.timer /\ ~a.hooks /\ a.succeeded = 0 /\ a.failed = 0
      BY <2>4 DEF Bare
    <3>2. /\ b \in AuthRecord /\ AuthKept(a, b) /\ b.pc = "over"
          /\ b.failed = 0 /\ b.succeeded = 1 /\ ~b.hooks /\ ~b.timer
      BY <3>1, SucceededFields
    <3> HIDE DEF b
    <3> QED
      BY <2>4, <2>7, <3>2 DEF Good, AuthIInv, AuthKept
  <2>8. CASE au' = OnCommonFailed(a) /\ code # "ok"
    BY <2>4, <2>8, FailedOnce DEF AuthIInv
  <2> QED
    BY <2>5, <2>6, <2>7, <2>8
<1>e. CASE EmptyResponse
  <2> DEFINE c == [au EXCEPT !.answered = TRUE]
             a == LeaveHooks(c)
             b == HandlerOnSuccess(a)
  <2>1. (au' = b /\ au.op = "validation") \/ au' = OnCommonFailed(a)
    BY <1>e DEF EmptyResponse
  <2>2. au.pc = "asked" /\ ~au.timer /\ au.succeeded = 0 /\ au.failed = 0
    BY <1>0, <1>e DEF EmptyResponse, Good, AuthRecord
  <2>3. c \in AuthRecord /\ c.answered /\ ~c.timer /\ c.succeeded = 0 /\ c.failed = 0 /\ c.op = au.op
    BY <1>0, <2>2 DEF AuthRecord
  <2> HIDE DEF c
  <2>4. Bare(a) /\ a.loose /\ a.answered /\ a.op = au.op
    BY <2>3, LeaveFields DEF Bare
  <2> HIDE DEF a
  <2>5. CASE au' = OnCommonFailed(a)
    BY <2>4, <2>5, FailedOnce DEF AuthIInv
  <2>6. CASE au' = b /\ au.op = "validation"
    <3>1. a \in AuthRecord /\ ~a.timer /\ ~a.hooks /\ a.succeeded = 0 /\ a.failed = 0
      BY <2>4 DEF Bare
    <3>2. /\ b \in AuthRecord /\ AuthKept(a, b) /\ b.pc = "over"
          /\ b.failed = 0 /\ b.succeeded = 1 /\ ~b.hooks /\ ~b.timer
      BY <3>1, SucceededFields
    <3> HIDE DEF b
    <3> QED
      BY <2>4, <2>6, <3>2 DEF Good, AuthIInv, AuthKept
  <2> QED
    BY <2>1, <2>5, <2>6
<1>3. CASE ConnErr
  <2> DEFINE b == IF au.connected THEN [au EXCEPT !.opStatus = "connection_failed"] ELSE au
             u == UnsetHooks(b)
  <2>1. au' = OnCommonFailed(u) /\ au.pc = "asked"
    BY <1>3 DEF ConnErr, Broken
  <2>2. /\ b \in AuthRecord /\ AuthKept(au, b) /\ b.pc = au.pc /\ b.hooks = au.hooks /\ b.timer = au.timer
        /\ b.succeeded = au.succeeded /\ b.failed = au.failed
    BY <1>0, StatusFields
  <2> HIDE DEF b
  <2>3. Good(b)
    BY <1>0, <2>2 DEF Good, AuthKept
  <2>4. Bare(u) /\ (u.answered => u.loose)
    BY <2>1, <2>2, <2>3, WaitingIsBare
  <2> HIDE DEF u
  <2> QED
    BY <2>1, <2>4, FailedOnce DEF AuthIInv
<1>l. CASE LooseConnErr
  <2> DEFINE b == IF au.connected THEN [au EXCEPT !.opStatus = "connection_failed"] ELSE au
             c == OnCommonFailed(b)
             d == [c EXCEPT !.pc = "again"]
  <2>1. au' = d /\ au.loose
    BY <1>l DEF LooseConnErr
  <2>2. /\ b \in AuthRecord /\ AuthKept(au, b) /\ b.succeeded = au.succeeded
    BY <1>0, StatusFields
  <2> HIDE DEF b
  <2>3. c \in AuthRecord /\ AuthKept(b, c) /\ c.succeeded = b.succeeded
    <3>1. b.retry \in Nat /\ MaxAuthRetry \in Nat
      BY <2>2, AuthAssumption DEF AuthRecord
    <3> QED
      BY <2>2, <3>1, FailedFields, RetryFields DEF OnCommonFailed
  <2> HIDE DEF c
  <2>4. d \in AuthRecord /\ AuthKept(c, d) /\ d.succeeded = c.succeeded /\ d.pc = "again"
    BY <2>3 DEF AuthRecord, AuthKept
  <2> HIDE DEF d
  <2> QED
    BY <1>0, <2>1, <2>2, <2>3, <2>4 DEF Good, AuthIInv, AuthKept
<1>4. CASE Retries
  <2> DEFINE a == [au EXCEPT !.timer = FALSE]
  <2>1. au.pc = "delay" /\ (au' = InitAuthOpCtx(a) \/ TriggerRequestFails(a))
    BY <1>4 DEF Retries
  <2>2. ~au.hooks /\ (au.answered => au.loose) /\ au.succeeded = 0 /\ au.failed = 0
    BY <1>0, <2>1 DEF Good, AuthRecord
  <2>3. Bare(a) /\ (a.answered => a.loose)
    <3>1. a \in AuthRecord
      BY <1>0 DEF AuthRecord
    <3> QED
      BY <1>0, <2>2, <3>1 DEF Bare, AuthRecord
  <2> HIDE DEF a
  <2> QED
    BY <2>1, <2>3, AskingIsGood
<1>5. CASE ConnCloses
  <2> DEFINE b == [au EXCEPT !.conn = FALSE]
  <2>1. /\ b \in AuthRecord /\ AuthKept(au, b) /\ b.pc = au.pc /\ b.hooks = au.hooks /\ b.timer = au.timer
        /\ b.succeeded = au.succeeded /\ b.failed = au.failed
    BY <1>0 DEF AuthRecord, AuthKept
  <2>2. au' = b
    BY <1>5 DEF ConnCloses
  <2> HIDE DEF b
  <2> QED
    BY <1>0, <2>1, <2>2 DEF Good, AuthIInv, AuthKept
<1>6. CASE AuthClientLeaves
  <2> DEFINE b == [au EXCEPT !.connected = FALSE]
  <2>1. /\ b \in AuthRecord /\ AuthKept(au, b) /\ b.pc = au.pc /\ b.hooks = au.hooks /\ b.timer = au.timer
        /\ b.succeeded = au.succeeded /\ b.failed = au.failed
    BY <1>0 DEF AuthRecord, AuthKept
  <2>2. au' = b
    BY <1>6 DEF AuthClientLeaves
  <2> HIDE DEF b
  <2> QED
    BY <1>0, <2>1, <2>2 DEF Good, AuthIInv, AuthKept
<1>7. CASE UNCHANGED au
  BY <1>0, <1>7 DEF AuthIInv
<1> QED
  BY <1>1, <1>2, <1>e, <1>3, <1>l, <1>4, <1>5, <1>6, <1>7 DEF AuthNext, AuthStep

LEMMA AuthInvariant == AuthSpec => []AuthIInv
<1> QED
  BY InitEstablishes, StepPreserves, PTL DEF AuthSpec

-----------------------------------------------------------------------------
\* S3AuthClient calls the action back at most once, and while it has not done
\* so exactly one event that will is outstanding, until a connection breaks
\* that an attempt left with its hooks on.
THEOREM CallsBackOnceCorrect == AuthSpec => []AuthCallsBackOnce
<1>1. AuthIInv => AuthCallsBackOnce
  BY DEF AuthIInv, Good, AuthCallsBackOnce, AuthRecord
<1> QED
  BY <1>1, AuthInvariant, PTL

\* An answer with a body ends the question for good, whatever the attempts
\* before left behind, and an action goes on only with what the server said of
\* the user, if the answer came in one piece.
THEOREM AnswersAreFinal == AuthSpec => []AnswerIsFinal
<1>1. AuthIInv => AnswerIsFinal
  BY DEF AuthIInv, Good, AnswerIsFinal
<1> QED
  BY <1>1, AuthInvariant, PTL

\* A question is retried no more often than get_max_retry_count says, and the
\* client is always at a known step.
THEOREM AuthTypeCorrect == AuthSpec => []AuthTypeOK
<1>1. AuthIInv => AuthTypeOK
  BY DEF AuthIInv, Good, AuthTypeOK, AuthRecord
<1> QED
  BY <1>1, AuthInvariant, PTL

-----------------------------------------------------------------------------
(* The queue of audit log entries.                                         *)

PqSpec == PqInit /\ [][PqNext]_pqVars

PqRecord ==
    [queue : Seq(1 .. Posts), nErr : 0 .. MaxErr + 1, inProgress : BOOLEAN,
     request : {"none", "sent", "body"}, msg : 0 .. Posts, status : {"none", "ok", "status"},
     toSend : 0 .. Posts, fError : BOOLEAN, connected : BOOLEAN,
     event : {"none", "idle", "pending"}, orphan : BOOLEAN]

\* What may call the queue back.
Requesting(q) ==
    /\ q.request # "none" /\ q.toSend = 0 /\ ~q.fError /\ q.event # "pending"
    /\ q.msg = Head(q.queue)
Scheduled(q) ==
    /\ q.request = "none" /\ q.toSend # 0 /\ ~q.fError /\ q.event = "pending"
    /\ q.toSend = Head(q.queue)
Failing(q) == q.request = "none" /\ q.toSend = 0 /\ q.fError /\ q.event = "pending"
Silent(q) == q.request = "none" /\ q.toSend = 0 /\ ~q.fError /\ q.event # "pending"

\* A queue that has an entry to send and has not given up.
Working(q) ==
    /\ q \in PqRecord /\ ~q.orphan /\ q.queue # <<>>
    /\ Len(q.queue) <= MaxMsgs /\ q.nErr <= MaxErr
GaveUp(q) == q.nErr > MaxErr /\ q.queue = <<>> /\ Silent(q)

\* The inductive invariant, of a queue whose event was there when it had to be.
PqGood(q) ==
    /\ q \in PqRecord /\ ~q.orphan /\ Len(q.queue) <= MaxMsgs
    /\ \/ GaveUp(q)
       \/ ~q.inProgress /\ Silent(q)
       \/ q.inProgress /\ Working(q) /\ (Requesting(q) \/ Scheduled(q) \/ Failing(q))
\* Once an entry was left behind this is never forgotten.
Orphaned(q) == "orphan" \in DOMAIN q /\ q.orphan = TRUE

-----------------------------------------------------------------------------
(* What the operators of the engine and of the queue do.                   *)

LEMMA HeadOfQueue ==
    ASSUME NEW q, Working(q)
    PROVE  Head(q.queue) \in 1 .. Posts /\ Head(q.queue) \in 0 .. Posts /\ Head(q.queue) # 0
<1>1. q.queue \in Seq(1 .. Posts) /\ q.queue # <<>>
  BY DEF Working, PqRecord
<1>2. Head(q.queue) \in 1 .. Posts
  BY <1>1, HeadTailProperties
<1> QED
  BY <1>2, PqAssumption

LEMMA AgainStaysOrphaned ==
    ASSUME NEW q, Orphaned(q), NEW t \in OnErrorAgain(q)
    PROVE  Orphaned(t)
<1> DEFINE n == q.nErr + 1
           u == [q EXCEPT !.inProgress = FALSE, !.nErr = n]
           h == Head(u.queue)
<1>1. Orphaned(u)
  BY DEF Orphaned
<1>2. t \in IF u.nErr > MaxErr THEN {[u EXCEPT !.queue = <<>>]}
            ELSE {[w EXCEPT !.inProgress = TRUE] : w \in PostAgain(u, h)}
  BY DEF OnErrorAgain
<1> HIDE DEF u, h
<1>3. ASSUME NEW w \in PostAgain(u, h) PROVE Orphaned(w)
  BY <1>1 DEF Orphaned, PostAgain, SendRequest, Schedule, Activate, AddError
<1> QED
  BY <1>1, <1>2, <1>3 DEF Orphaned

LEMMA CallBackStaysOrphaned ==
    ASSUME NEW q, Orphaned(q)
    PROVE  /\ \A t \in NoEvent(q) : Orphaned(t)
           /\ \A t \in NotAdded(q) : Orphaned(t)
           /\ \A t \in CallErrorCallback(q) : Orphaned(t)
           /\ \A t \in PrepareAndSchedule(q) : Orphaned(t)
<1> DEFINE p == [q EXCEPT !.orphan = TRUE]
           e == [q EXCEPT !.event = "idle"]
           k == [q EXCEPT !.event = q.event]
<1>1. Orphaned(p) /\ Orphaned(e) /\ Orphaned(k)
  BY DEF Orphaned
<1>2. NoEvent(q) = OnErrorAgain(p)
  BY DEF Orphaned, NoEvent
<1>3. NotAdded(q) \in {OnErrorAgain(e), OnErrorAgain(k)}
  BY DEF NotAdded
<1> HIDE DEF p, e, k
<1>4. \A t \in NoEvent(q) : Orphaned(t)
  BY <1>1, <1>2, AgainStaysOrphaned
<1>5. \A t \in NotAdded(q) : Orphaned(t)
  BY <1>1, <1>3, AgainStaysOrphaned
<1>6. ASSUME NEW t, Orphaned(t) PROVE Orphaned(Schedule(t)) /\ Orphaned(AddError(t))
  BY <1>6 DEF Orphaned, Schedule, Activate, AddError
<1>7. \A t \in CallErrorCallback(q) : Orphaned(t)
  BY <1>4, <1>5, <1>6 DEF CallErrorCallback
<1>8. \A t \in PrepareAndSchedule(q) : Orphaned(t)
  BY <1>4, <1>5, <1>6 DEF PrepareAndSchedule
<1> QED
  BY <1>4, <1>5, <1>7, <1>8

LEMMA SendStaysOrphaned ==
    ASSUME NEW q, Orphaned(q), NEW t \in SendFront(q)
    PROVE  Orphaned(t)
<1> DEFINE h == Head(q.queue)
           w == [q EXCEPT !.toSend = h]
<1>1. PICK e \in EnginePost(q, h) : t = [e EXCEPT !.inProgress = TRUE]
  BY DEF SendFront
<1>2. Orphaned(w) /\ Orphaned(SendRequest(q, h))
  BY DEF Orphaned, SendRequest
<1>3. e \in {q, SendRequest(q, h)} \cup PrepareAndSchedule(q) \cup PrepareAndSchedule(w)
  BY <1>1 DEF EnginePost
<1> HIDE DEF w, h
<1>4. Orphaned(e)
  BY <1>2, <1>3, CallBackStaysOrphaned
<1> QED
  BY <1>1, <1>4 DEF Orphaned

LEMMA QueueStaysOrphaned ==
    ASSUME NEW q, Orphaned(q)
    PROVE  /\ \A t \in OnError(q) : Orphaned(t)
           /\ \A t \in OnMsgSent(q) : Orphaned(t)
           /\ \A t \in RequestFinished(q) : Orphaned(t)
<1> DEFINE n == q.nErr + 1
           s == Tail(q.queue)
           u == [q EXCEPT !.inProgress = FALSE, !.nErr = n]
           v == [q EXCEPT !.inProgress = FALSE, !.nErr = 0, !.queue = s]
           x == [u EXCEPT !.queue = <<>>]
<1>1. Orphaned(u) /\ Orphaned(v) /\ Orphaned(x)
  BY DEF Orphaned
<1>2. OnError(q) \in {{x}, SendFront(u)} /\ OnMsgSent(q) \in {{v}, SendFront(v)}
  BY DEF OnError, OnMsgSent
<1> HIDE DEF u, v, x
<1>3. \A t \in OnError(q) : Orphaned(t)
  BY <1>1, <1>2, SendStaysOrphaned
<1>4. \A t \in OnMsgSent(q) : Orphaned(t)
  BY <1>1, <1>2, SendStaysOrphaned
<1>5. ASSUME NEW t, Orphaned(t) PROVE Orphaned([t EXCEPT !.request = "none", !.status = "none"])
  BY <1>5 DEF Orphaned
<1>6. \A t \in RequestFinished(q) : Orphaned(t)
  BY <1>4, <1>5, CallBackStaysOrphaned DEF RequestFinished
<1> QED
  BY <1>3, <1>4, <1>6

-----------------------------------------------------------------------------
(* A post while no request is under way: the entry is sent, its error      *)
(* waits for the event, or the queue gives up.                             *)

Ends(q, t) ==
    /\ t \in PqRecord /\ ~t.orphan
    /\ \/ GaveUp(t)
       \/ t.nErr <= MaxErr /\ t.queue = q.queue /\ (Requesting(t) \/ Failing(t))

LEMMA EndsAreGood ==
    ASSUME NEW q, Working(q), NEW t, Ends(q, t)
    PROVE  LET u == [t EXCEPT !.inProgress = TRUE]
           IN  Ends(q, u) /\ PqGood(u)
<1> DEFINE u == [t EXCEPT !.inProgress = TRUE]
<1>1. t \in PqRecord
  BY DEF Ends
<1>2. /\ u \in PqRecord /\ u.orphan = t.orphan /\ u.nErr = t.nErr /\ u.queue = t.queue /\ u.inProgress
      /\ u.request = t.request /\ u.toSend = t.toSend /\ u.fError = t.fError /\ u.event = t.event
      /\ u.msg = t.msg
  BY <1>1 DEF PqRecord
<1> HIDE DEF u
<1>3. Ends(q, u)
  BY <1>2 DEF Ends, GaveUp, Requesting, Failing, Silent
<1>4. Len(<<>>) <= MaxMsgs
  BY PqAssumption
<1>5. Len(q.queue) <= MaxMsgs /\ q.queue # <<>>
  BY DEF Working
<1>6. PqGood(u)
  BY <1>2, <1>3, <1>4, <1>5 DEF Ends, GaveUp, PqGood, Working
<1> QED
  BY <1>3, <1>6 DEF u

LEMMA SendEnds ==
    ASSUME NEW q, Working(q), Silent(q)
    PROVE  Ends(q, SendRequest(q, Head(q.queue))) /\ Ends(q, Schedule(q))
<1>1. q \in PqRecord /\ ~q.orphan /\ q.nErr <= MaxErr
  BY DEF Working
<1>2. PICK h \in 0 .. Posts : h = Head(q.queue)
  BY HeadOfQueue
<1> DEFINE u == [q EXCEPT !.request = "sent", !.msg = h, !.status = "none", !.connected = TRUE]
           v == [q EXCEPT !.event = "pending", !.fError = TRUE]
<1>3. /\ u \in PqRecord /\ u.orphan = q.orphan /\ u.nErr = q.nErr /\ u.queue = q.queue
      /\ u.request = "sent" /\ u.toSend = q.toSend /\ u.fError = q.fError /\ u.event = q.event
      /\ u.msg = h
  BY <1>1 DEF PqRecord
<1>4. /\ v \in PqRecord /\ v.orphan = q.orphan /\ v.nErr = q.nErr /\ v.queue = q.queue
      /\ v.request = q.request /\ v.toSend = q.toSend /\ v.fError /\ v.event = "pending"
  BY <1>1 DEF PqRecord
<1>5. u = SendRequest(q, Head(q.queue)) /\ v = Schedule(q)
  BY <1>2 DEF SendRequest, Schedule, AddError, Silent, NoMsg
<1> HIDE DEF u, v
<1>6. Ends(q, u) /\ Ends(q, v)
  BY <1>1, <1>2, <1>3, <1>4 DEF Ends, Requesting, Failing, Silent
<1> QED
  BY <1>5, <1>6

\* The counter of errors goes up and the queue is no longer waiting.
LEMMA CountedError ==
    ASSUME NEW q, Working(q), NEW u, u = [q EXCEPT !.inProgress = FALSE, !.nErr = @ + 1]
    PROVE  /\ u \in PqRecord /\ ~u.orphan /\ u.queue = q.queue /\ u.request = q.request
           /\ u.toSend = q.toSend /\ u.fError = q.fError /\ u.event = q.event /\ u.msg = q.msg
           /\ ~(u.nErr > MaxErr) => Working(u)
           /\ LET x == [u EXCEPT !.queue = <<>>]
              IN  u.nErr > MaxErr =>
                    /\ x \in PqRecord /\ ~x.orphan /\ x.nErr > MaxErr /\ x.queue = <<>> /\ x.request = q.request
                    /\ x.toSend = q.toSend /\ x.fError = q.fError /\ x.event = q.event
<1>1. q \in PqRecord /\ ~q.orphan /\ q.nErr <= MaxErr /\ q.queue # <<>> /\ Len(q.queue) <= MaxMsgs
  BY DEF Working
<1>2. PICK n \in 0 .. MaxErr + 1 : n = q.nErr + 1
  BY <1>1, PqAssumption DEF PqRecord
<1>3. u = [q EXCEPT !.inProgress = FALSE, !.nErr = n]
  BY <1>2
<1>4. /\ u \in PqRecord /\ ~u.orphan /\ u.queue = q.queue /\ u.request = q.request
      /\ u.toSend = q.toSend /\ u.fError = q.fError /\ u.event = q.event /\ u.msg = q.msg
      /\ u.nErr = n
  BY <1>1, <1>3 DEF PqRecord
<1>5. ~(u.nErr > MaxErr) => Working(u)
  BY <1>1, <1>2, <1>4, PqAssumption DEF Working
<1> DEFINE x == [u EXCEPT !.queue = <<>>]
<1>6. /\ x \in PqRecord /\ ~x.orphan /\ x.nErr = u.nErr /\ x.queue = <<>> /\ x.request = q.request
      /\ x.toSend = q.toSend /\ x.fError = q.fError /\ x.event = q.event
  BY <1>4, EmptySeq DEF PqRecord
<1> QED
  BY <1>4, <1>5, <1>6

LEMMA AgainEnds ==
    ASSUME NEW q, Working(q), Silent(q), NEW t \in OnErrorAgain(q)
    PROVE  Ends(q, t) /\ (t.event = q.event \/ Failing(t))
<1> DEFINE u == [q EXCEPT !.inProgress = FALSE, !.nErr = @ + 1]
<1>1. t \in IF u.nErr > MaxErr THEN {[u EXCEPT !.queue = <<>>]}
            ELSE {[w EXCEPT !.inProgress = TRUE] : w \in PostAgain(u, Head(u.queue))}
  BY DEF OnErrorAgain
<1>2. /\ u \in PqRecord /\ u.queue = q.queue /\ u.event = q.event
      /\ u.request = q.request /\ u.toSend = q.toSend /\ u.fError = q.fError
      /\ ~(u.nErr > MaxErr) => Working(u)
  BY CountedError
<1>3. CASE u.nErr > MaxErr
  <2>1. t = [u EXCEPT !.queue = <<>>]
    BY <1>1, <1>3
  <2>2. /\ t \in PqRecord /\ ~t.orphan /\ t.nErr > MaxErr /\ t.queue = <<>> /\ t.request = q.request
        /\ t.toSend = q.toSend /\ t.fError = q.fError /\ t.event = q.event
    BY <1>3, <2>1, CountedError
  <2> QED
    BY <2>2 DEF Ends, GaveUp, Silent
<1>4. CASE ~(u.nErr > MaxErr)
  <2> HIDE DEF u
  <2>1. PICK w \in PostAgain(u, Head(u.queue)) : t = [w EXCEPT !.inProgress = TRUE]
    BY <1>1, <1>4
  <2>2. Working(u) /\ Silent(u)
    BY <1>2, <1>4 DEF Silent
  <2>3. w = SendRequest(u, Head(u.queue)) \/ w = Schedule(u)
    BY <2>1, <2>2 DEF PostAgain, Silent
  <2>4. Ends(u, w)
    BY <2>2, <2>3, SendEnds
  <2>5. Ends(u, t)
    BY <2>1, <2>2, <2>4, EndsAreGood
  <2>6. Ends(q, t)
    BY <1>2, <2>5 DEF Ends
  <2>7. t.event = w.event /\ (Failing(w) => Failing(t))
    BY <2>1, <2>4 DEF Ends, Failing, PqRecord
  <2>8. w.event = u.event \/ Failing(w)
    <3>1. w = SendRequest(u, Head(u.queue)) => w.event = u.event
      BY <1>2 DEF SendRequest, PqRecord
    <3>2. w = Schedule(u) => Failing(w)
      BY <1>2, <2>2 DEF Schedule, AddError, Silent, Failing, NoMsg, PqRecord
    <3> QED
      BY <2>3, <3>1, <3>2
  <2> QED
    BY <1>2, <2>6, <2>7, <2>8
<1> QED
  BY <1>3, <1>4

\* The end of post, after send_request failed.
LEMMA PrepareEnds ==
    ASSUME NEW q, Working(q), Silent(q), NEW t \in PrepareAndSchedule(q)
    PROVE  Ends(q, t)
<1> DEFINE e == [q EXCEPT !.event = IF @ = "none" THEN "idle" ELSE @]
           o == [q EXCEPT !.orphan = @ \/ q.request # "none"]
<1>1. q \in PqRecord /\ ~q.orphan /\ q.request = "none"
  BY DEF Working, Silent
<1>2. /\ e \in PqRecord /\ e.orphan = q.orphan /\ e.nErr = q.nErr /\ e.queue = q.queue
      /\ e.request = q.request /\ e.toSend = q.toSend /\ e.fError = q.fError
      /\ (q.event # "pending" => e.event # "pending")
  BY <1>1 DEF PqRecord
<1>3. o = q
  BY <1>1 DEF PqRecord
<1>4. \/ t = Schedule(q)
      \/ t \in OnErrorAgain(e)
      \/ q.event = "none" /\ \E u \in OnErrorAgain(o) : t = IF u.event = "none" THEN u ELSE Schedule(u)
  BY DEF PrepareAndSchedule, NotAdded, NoEvent
<1> HIDE DEF e, o
<1>5. CASE t = Schedule(q)
  BY <1>5, SendEnds
<1>6. CASE t \in OnErrorAgain(e)
  <2>1. Working(e) /\ Silent(e)
    BY <1>2 DEF Working, Silent
  <2>2. Ends(e, t)
    BY <1>6, <2>1, AgainEnds
  <2> QED
    BY <1>2, <2>2 DEF Ends
<1>7. CASE q.event = "none" /\ \E u \in OnErrorAgain(o) : t = IF u.event = "none" THEN u ELSE Schedule(u)
  <2>1. PICK u \in OnErrorAgain(q) : t = IF u.event = "none" THEN u ELSE Schedule(u)
    BY <1>3, <1>7
  <2>2. Ends(q, u) /\ (u.event = "none" \/ Failing(u))
    BY <1>7, <2>1, AgainEnds
  <2>3. Failing(u) => Schedule(u) = u
    BY <2>2 DEF Failing, Schedule, AddError, NoMsg, Ends, PqRecord
  <2> QED
    BY <2>1, <2>2, <2>3
<1> QED
  BY <1>4, <1>5, <1>6, <1>7

\* send_front while no request is under way.
LEMMA SendsNow ==
    ASSUME NEW q, Working(q), Silent(q), NEW t \in SendFront(q)
    PROVE  PqGood(t) /\ Ends(q, t)
<1>1. PICK e \in EnginePost(q, Head(q.queue)) : t = [e EXCEPT !.inProgress = TRUE]
  BY DEF SendFront
<1>2. e = SendRequest(q, Head(q.queue)) \/ e \in PrepareAndSchedule(q)
  BY <1>1 DEF EnginePost, Silent
<1>3. Ends(q, e)
  BY <1>2, SendEnds, PrepareEnds
<1> QED
  BY <1>1, <1>3, EndsAreGood


\* on_error: the entry is sent again, or the queue is emptied.
LEMMA ErrorIsGood ==
    ASSUME NEW q, Working(q), Silent(q), NEW t \in OnError(q)
    PROVE  PqGood(t) /\ (t.nErr > MaxErr \/ t.queue = q.queue)
<1> DEFINE u == [q EXCEPT !.inProgress = FALSE, !.nErr = @ + 1]
<1>1. t \in IF u.nErr > MaxErr THEN {[u EXCEPT !.queue = <<>>]} ELSE SendFront(u)
  BY DEF OnError
<1>2. /\ u \in PqRecord /\ u.queue = q.queue /\ u.event = q.event
      /\ u.request = q.request /\ u.toSend = q.toSend /\ u.fError = q.fError
      /\ ~(u.nErr > MaxErr) => Working(u)
  BY CountedError
<1>3. CASE u.nErr > MaxErr
  <2>1. t = [u EXCEPT !.queue = <<>>]
    BY <1>1, <1>3
  <2>2. /\ t \in PqRecord /\ ~t.orphan /\ t.nErr > MaxErr /\ t.queue = <<>> /\ t.request = q.request
        /\ t.toSend = q.toSend /\ t.fError = q.fError /\ t.event = q.event
    BY <1>3, <2>1, CountedError
  <2>3. Len(<<>>) <= MaxMsgs
    BY PqAssumption
  <2> QED
    BY <2>2, <2>3 DEF PqGood, GaveUp, Silent
<1>4. CASE ~(u.nErr > MaxErr)
  <2> HIDE DEF u
  <2>1. Working(u) /\ Silent(u) /\ t \in SendFront(u)
    BY <1>1, <1>2, <1>4 DEF Silent
  <2>2. PqGood(t) /\ Ends(u, t)
    BY <2>1, SendsNow
  <2> QED
    BY <1>2, <2>2 DEF Ends, GaveUp
<1> QED
  BY <1>3, <1>4

\* A post from inside the callback of the request before: the entry waits for
\* the event, and request_finished then resets the request.
Reset(t) == [t EXCEPT !.request = "none", !.status = "none"]

LEMMA WaitsForEvent ==
    ASSUME NEW q, Working(q), ~q.fError, NEW t,
           t = [q EXCEPT !.toSend = Head(q.queue), !.event = "pending", !.inProgress = TRUE]
    PROVE  PqGood(Reset(t)) /\ Reset(t).queue = q.queue
<1>1. q \in PqRecord /\ ~q.orphan
  BY DEF Working
<1>2. PICK m \in 0 .. Posts : m = Head(q.queue) /\ m # 0
  BY HeadOfQueue
<1> DEFINE u == [q EXCEPT !.toSend = m, !.event = "pending", !.inProgress = TRUE,
                          !.request = "none", !.status = "none"]
<1>3. u = Reset(t)
  BY <1>2 DEF Reset
<1>4. /\ u \in PqRecord /\ ~u.orphan /\ u.queue = q.queue /\ u.nErr = q.nErr /\ u.request = "none"
      /\ u.toSend = m /\ u.fError = q.fError /\ u.inProgress /\ u.event = "pending"
  BY <1>1 DEF PqRecord
<1> HIDE DEF u
<1>5. PqGood(u)
  BY <1>2, <1>4 DEF PqGood, Working, Scheduled
<1> QED
  BY <1>3, <1>4, <1>5

\* An event that cannot be created leaves the entry behind.
LEMMA NoEventOrphans ==
    ASSUME NEW q, q \in PqRecord, q.request # "none", NEW t \in NoEvent(q)
    PROVE  Orphaned(t) /\ Orphaned(Schedule(t)) /\ Orphaned(AddError(t))
<1> DEFINE o == [q EXCEPT !.orphan = TRUE]
<1>1. Orphaned(o)
  BY DEF Orphaned, PqRecord
<1>2. t \in OnErrorAgain(o)
  BY DEF NoEvent
<1> HIDE DEF o
<1>3. Orphaned(t)
  BY <1>1, <1>2, AgainStaysOrphaned
<1> QED
  BY <1>3 DEF Orphaned, Schedule, Activate, AddError

LEMMA SendsLater ==
    ASSUME NEW q, Working(q), q.request # "none", q.toSend = 0, ~q.fError, NEW t \in SendFront(q)
    PROVE  Orphaned(t) \/ (PqGood(Reset(t)) /\ Reset(t).queue = q.queue)
<1>1. q \in PqRecord
  BY DEF Working
<1>2. PICK m \in 0 .. Posts : m = Head(q.queue) /\ m # 0
  BY HeadOfQueue
<1> DEFINE w == [q EXCEPT !.toSend = m]
<1>3. PICK e \in EnginePost(q, m) : t = [e EXCEPT !.inProgress = TRUE]
  BY <1>2 DEF SendFront
<1>4. e \in PrepareAndSchedule(w)
  BY <1>3 DEF EnginePost, NoMsg
<1>5. w \in PqRecord /\ w.toSend = m /\ w.request = q.request
  BY <1>1 DEF PqRecord
<1>6. e = Schedule(w) \/ \E v \in NoEvent(w) : e = v \/ e = Schedule(v)
  BY <1>2, <1>4, <1>5 DEF PrepareAndSchedule, NoMsg
<1>7. CASE e = Schedule(w)
  <2>1. t = [q EXCEPT !.toSend = m, !.event = "pending", !.inProgress = TRUE]
    BY <1>2, <1>3, <1>5, <1>7 DEF Schedule, Activate, NoMsg
  <2> QED
    BY <1>2, <2>1, WaitsForEvent
<1>8. CASE \E v \in NoEvent(w) : e = v \/ e = Schedule(v)
  <2> HIDE DEF w
  <2>1. Orphaned(e)
    BY <1>5, <1>8, NoEventOrphans
  <2> QED
    BY <1>3, <2>1 DEF Orphaned
<1> QED
  BY <1>6, <1>7, <1>8

\* The post inside a failed event_add.
LEMMA AgainLater ==
    ASSUME NEW q, Working(q), q.request # "none", q.toSend = 0, ~q.fError, q.event = "idle",
           NEW t \in OnErrorAgain(q)
    PROVE  PqGood(Reset(t)) /\ (Reset(t).nErr > MaxErr \/ Reset(t).queue = q.queue)
<1> DEFINE u == [q EXCEPT !.inProgress = FALSE, !.nErr = @ + 1]
<1>1. t \in IF u.nErr > MaxErr THEN {[u EXCEPT !.queue = <<>>]}
            ELSE {[w EXCEPT !.inProgress = TRUE] : w \in PostAgain(u, Head(u.queue))}
  BY DEF OnErrorAgain
<1>2. /\ u \in PqRecord /\ u.queue = q.queue /\ u.event = "idle"
      /\ u.request = q.request /\ u.toSend = q.toSend /\ u.fError = q.fError
      /\ ~(u.nErr > MaxErr) => Working(u)
  BY CountedError
<1>3. CASE u.nErr > MaxErr
  <2>1. t = [u EXCEPT !.queue = <<>>]
    BY <1>1, <1>3
  <2>2. /\ t \in PqRecord /\ ~t.orphan /\ t.nErr > MaxErr /\ t.queue = <<>>
        /\ t.toSend = q.toSend /\ t.fError = q.fError /\ t.event = "idle"
    BY <1>3, <2>1, CountedError
  <2> DEFINE x == Reset(t)
  <2>3. /\ x \in PqRecord /\ ~x.orphan /\ x.nErr > MaxErr /\ x.queue = <<>> /\ x.request = "none"
        /\ x.toSend = q.toSend /\ x.fError = q.fError /\ x.event = "idle"
    BY <2>2 DEF Reset, PqRecord
  <2> HIDE DEF x
  <2>4. Len(<<>>) <= MaxMsgs
    BY PqAssumption
  <2>5. PqGood(x)
    BY <2>3, <2>4 DEF PqGood, GaveUp, Silent
  <2> QED
    BY <2>3, <2>5 DEF x
<1>4. CASE ~(u.nErr > MaxErr)
  <2> HIDE DEF u
  <2>1. PICK w \in PostAgain(u, Head(u.queue)) : t = [w EXCEPT !.inProgress = TRUE]
    BY <1>1, <1>4
  <2>2. Working(u)
    BY <1>2, <1>4
  <2>3. PICK m \in 0 .. Posts : m = Head(u.queue) /\ m # 0
    BY <2>2, HeadOfQueue
  <2>4. w = Schedule([u EXCEPT !.toSend = m])
    BY <1>2, <2>1, <2>3 DEF PostAgain, NoMsg
  <2>5. [u EXCEPT !.toSend = m].toSend = m
    BY <1>2, <2>3 DEF PqRecord
  <2>6. t = [u EXCEPT !.toSend = m, !.event = "pending", !.inProgress = TRUE]
    BY <2>1, <2>3, <2>4, <2>5 DEF Schedule, Activate, NoMsg
  <2> QED
    BY <1>2, <2>2, <2>3, <2>6, WaitsForEvent
<1> QED
  BY <1>3, <1>4

\* request_finished with an error.
LEMMA FailsLater ==
    ASSUME NEW q, Working(q), Requesting(q), q.inProgress, NEW t \in CallErrorCallback(q)
    PROVE  \/ Orphaned(t)
           \/ PqGood(Reset(t)) /\ (Reset(t).nErr > MaxErr \/ Reset(t).queue = q.queue)
<1>1. q \in PqRecord /\ ~q.orphan /\ q.request # "none" /\ q.toSend = 0 /\ ~q.fError /\ q.event # "pending"
  BY DEF Working, Requesting
<1> DEFINE e == [q EXCEPT !.event = "idle"]
<1>2. \/ t = AddError(q)
      \/ t \in OnErrorAgain(e)
      \/ \E v \in NoEvent(q) : t = v \/ t = AddError(v)
  <2>1. t = AddError(q) \/ t \in NotAdded(q) \/ \E v \in NoEvent(q) : t = v \/ t = AddError(v)
    BY DEF CallErrorCallback
  <2>2. [q EXCEPT !.event = IF @ = "none" THEN "idle" ELSE @] = e
    BY <1>1 DEF PqRecord
  <2>3. NotAdded(q) = OnErrorAgain(e)
    BY <2>2 DEF NotAdded
  <2> QED
    BY <2>1, <2>3
<1>3. CASE t = AddError(q)
  <2> DEFINE u == [q EXCEPT !.event = "pending", !.fError = TRUE, !.request = "none", !.status = "none"]
  <2>1. u = Reset(t)
    BY <1>3 DEF AddError, Reset
  <2>2. /\ u \in PqRecord /\ ~u.orphan /\ u.queue = q.queue /\ u.nErr = q.nErr /\ u.request = "none"
        /\ u.toSend = q.toSend /\ u.fError /\ u.inProgress = q.inProgress /\ u.event = "pending"
    BY <1>1 DEF PqRecord
  <2> HIDE DEF u
  <2>3. PqGood(u)
    BY <1>1, <2>2 DEF PqGood, Working, Failing
  <2> QED
    BY <2>1, <2>2, <2>3
<1>4. CASE \E v \in NoEvent(q) : t = v \/ t = AddError(v)
  BY <1>1, <1>4, NoEventOrphans
<1>5. CASE t \in OnErrorAgain(e)
  <2>1. /\ e \in PqRecord /\ ~e.orphan /\ e.queue = q.queue /\ e.nErr = q.nErr /\ e.request = q.request
        /\ e.toSend = q.toSend /\ e.fError = q.fError /\ e.event = "idle"
    BY <1>1 DEF PqRecord
  <2> HIDE DEF e
  <2>2. Working(e)
    BY <2>1 DEF Working
  <2> QED
    BY <1>1, <1>5, <2>1, <2>2, AgainLater
<1> QED
  BY <1>2, <1>3, <1>4, <1>5

\* request_finished with a good answer.
LEMMA SentIsGood ==
    ASSUME NEW q, Working(q), Requesting(q), NEW t \in OnMsgSent(q)
    PROVE  Orphaned(t) \/ (PqGood(Reset(t)) /\ Reset(t).queue = Tail(q.queue))
<1>1. q \in PqRecord /\ ~q.orphan /\ q.queue \in Seq(1 .. Posts) /\ q.queue # <<>> /\ Len(q.queue) <= MaxMsgs
  BY DEF Working, PqRecord
<1>2. PICK s \in Seq(1 .. Posts) : s = Tail(q.queue)
  BY <1>1, HeadTailProperties
<1>3. Len(s) <= MaxMsgs /\ 0 \in 0 .. MaxErr + 1
  BY <1>1, <1>2, HeadTailProperties, PqAssumption
<1> DEFINE u == [q EXCEPT !.inProgress = FALSE, !.nErr = 0, !.queue = s]
<1>4. /\ u \in PqRecord /\ ~u.orphan /\ u.queue = s /\ u.nErr = 0 /\ u.request = q.request
      /\ u.toSend = q.toSend /\ u.fError = q.fError /\ ~u.inProgress /\ u.event = q.event
  BY <1>1, <1>3 DEF PqRecord
<1>5. t \in IF u.queue = <<>> THEN {u} ELSE SendFront(u)
  BY <1>2 DEF OnMsgSent
<1> HIDE DEF u
<1>6. CASE s = <<>>
  <2> DEFINE v == [u EXCEPT !.request = "none", !.status = "none"]
  <2>1. t = u
    BY <1>4, <1>5, <1>6
  <2>2. /\ v \in PqRecord /\ ~v.orphan /\ v.queue = s /\ v.request = "none" /\ v.toSend = u.toSend
        /\ v.fError = u.fError /\ v.inProgress = u.inProgress /\ v.event = u.event
    BY <1>4 DEF PqRecord
  <2> HIDE DEF v
  <2>3. PqGood(v)
    BY <1>3, <1>4, <2>2 DEF PqGood, Silent, Requesting
  <2> QED
    BY <1>2, <2>1, <2>2, <2>3 DEF v, Reset
<1>7. CASE s # <<>>
  <2>1. t \in SendFront(u)
    BY <1>4, <1>5, <1>7
  <2>2. Working(u)
    BY <1>3, <1>4, <1>7, PqAssumption DEF Working
  <2>3. u.request # "none" /\ u.toSend = 0 /\ ~u.fError
    BY <1>4 DEF Requesting
  <2> QED
    BY <1>2, <1>4, <2>1, <2>2, <2>3, SendsLater
<1> QED
  BY <1>6, <1>7

\* request_finished: it takes the first entry off the queue if that was
\* accepted, and otherwise leaves the queue as it is, unless it gives up.
LEMMA FinishedIsGood ==
    ASSUME NEW q, PqGood(q), NEW t \in RequestFinished(q)
    PROVE  \/ Orphaned(t)
           \/ PqGood(t) /\ \/ Acknowledged(q) = <<>> /\ (t.nErr > MaxErr \/ (t.queue = q.queue /\ ~(q.nErr > MaxErr)) \/ t = q)
                           \/ Working(q) /\ Acknowledged(q) = <<Head(q.queue)>> /\ t.queue = Tail(q.queue)
<1>1. CASE q.request = "none"
  BY <1>1 DEF RequestFinished, Acknowledged
<1>2. CASE q.request # "none"
  <2>1. q \in PqRecord /\ Working(q) /\ Requesting(q) /\ q.inProgress
    BY <1>2 DEF PqGood, GaveUp, Silent, Scheduled, Failing
  <2>e. q.msg = Head(q.queue) /\ ~(q.nErr > MaxErr)
    BY <2>1, PqAssumption DEF Requesting, Working, PqRecord
  <2>r. ASSUME NEW u, Orphaned(u) PROVE Orphaned(Reset(u))
    BY <2>r DEF Orphaned, Reset
  <2>2. CASE q.status = "ok"
    <3>1. PICK u \in OnMsgSent(q) : t = Reset(u)
      BY <1>2, <2>2 DEF RequestFinished, Reset
    <3>2. Acknowledged(q) = <<Head(q.queue)>>
      BY <1>2, <2>2, <2>e DEF Acknowledged
    <3> QED
      BY <2>1, <2>r, <3>1, <3>2, SentIsGood
  <2>3. CASE q.status # "ok"
    <3>1. PICK u \in CallErrorCallback(q) : t = Reset(u)
      BY <1>2, <2>3 DEF RequestFinished, Reset
    <3>2. Acknowledged(q) = <<>>
      BY <2>3 DEF Acknowledged
    <3> QED
      BY <2>1, <2>e, <2>r, <3>1, <3>2, FailsLater
  <2> QED
    BY <2>2, <2>3
<1> QED
  BY <1>1, <1>2

-----------------------------------------------------------------------------
(* Sequences.                                                              *)

\* A sequence starts with what it was put together from.
LEMMA ConcatStarts ==
    ASSUME NEW S, NEW s \in Seq(S), NEW t \in Seq(S)
    PROVE  s = SubSeq(s \o t, 1, Len(s))
<1>1. CASE s = <<>>
  BY <1>1, ConcatEmptySeq, SubSeqProperties, EmptySeq
<1>2. CASE s # <<>>
  <2>1. Len(s) \in Nat /\ Len(s) # 0
    BY <1>2, LenProperties, EmptySeq
  <2>2. 1 \in 1 .. Len(s) /\ Len(s) \in 1 .. Len(s)
    BY <2>1
  <2> QED
    BY <2>2, SubSeqOfConcat1, SubSeqFull
<1> QED
  BY <1>1, <1>2

\* Concatenation with one element is associative.
LEMMA OneMovesRight ==
    ASSUME NEW S, NEW s \in Seq(S), NEW t \in Seq(S), NEW e \in S
    PROVE  s \o Append(t, e) = Append(s \o t, e)
  OBVIOUS
LEMMA OneMovesLeft ==
    ASSUME NEW S, NEW s \in Seq(S), NEW t \in Seq(S), NEW e \in S
    PROVE  (s \o <<e>>) \o t = s \o (<<e>> \o t)
  OBVIOUS

LEMMA HeadAndTail ==
    ASSUME NEW S, NEW s \in Seq(S), s # <<>>
    PROVE  s = <<Head(s)>> \o Tail(s)
<1>1. Len(s) \in Nat /\ Len(s) # 0
  BY LenProperties, EmptySeq
<1>2. 1 \in 1 .. Len(s) /\ Len(s) \in 1 .. Len(s)
  BY <1>1
<1>3. SubSeq(s, 1, Len(s)) = <<s[1]>> \o SubSeq(s, 1 + 1, Len(s))
  BY <1>2, SubSeqRecursiveFirst
<1>4. Tail(s) = SubSeq(s, 2, Len(s))
  BY TailIsSubSeq
<1> QED
  BY <1>3, <1>4, SubSeqFull

-----------------------------------------------------------------------------
(* The inductive invariant.                                                *)

LogType == [next : 1 .. Posts + 1, accepted : Seq(1 .. Posts), sent : Seq(1 .. Posts)]
\* What was acknowledged and what waits is what was taken, in its order.
InOrder(q, log) ==
    /\ log.sent = SubSeq(log.accepted, 1, Len(log.sent))
    /\ log.sent \o q.queue = log.accepted \/ q.nErr > MaxErr
PqIInv == Orphaned(pq) \/ (PqGood(pq) /\ pqLog \in LogType /\ InOrder(pq, pqLog))

LEMMA PqInitEstablishes == PqInit => PqIInv
<1> SUFFICES ASSUME PqInit PROVE PqIInv
  OBVIOUS
<1>1. pq \in PqRecord /\ ~pq.orphan /\ Len(pq.queue) = 0 /\ ~pq.inProgress /\ Silent(pq)
  BY PqAssumption DEF PqInit, NewQueue, PqRecord, Silent, NoMsg
<1>2. pq.queue = <<>> /\ pqLog = [next |-> 1, accepted |-> <<>>, sent |-> <<>>]
  BY DEF PqInit, NewQueue
<1>3. <<>> \in Seq(1 .. Posts) /\ 1 \in 1 .. Posts + 1 /\ Len(<<>>) = 0
  BY PqAssumption, EmptySeq
<1>4. <<>> \o <<>> = <<>> /\ <<>> = SubSeq(<<>>, 1, 0)
  BY <1>3, ConcatEmptySeq, SubSeqProperties, EmptySeq
<1> QED
  BY <1>1, <1>2, <1>3, <1>4, PqAssumption DEF PqIInv, PqGood, InOrder, LogType

\* An acknowledgement moves the first entry from the queue to what was sent.
LEMMA FinishPreserves ==
    ASSUME NEW q, PqGood(q), pqLog \in LogType, InOrder(q, pqLog), Finishes(q)
    PROVE  PqIInv'
<1> DEFINE sent == pqLog.sent
           more == sent \o Acknowledged(q)
<1>1. pqLog' = [pqLog EXCEPT !.sent = more] /\ pq' \in RequestFinished(q)
  BY DEF Finishes
<1>2. sent = SubSeq(pqLog.accepted, 1, Len(sent)) /\ sent \in Seq(1 .. Posts)
      /\ (sent \o q.queue = pqLog.accepted \/ q.nErr > MaxErr)
  BY DEF InOrder, LogType
<1>3. \/ Orphaned(pq')
      \/ PqGood(pq') /\ \/ Acknowledged(q) = <<>> /\ (pq'.nErr > MaxErr \/ (pq'.queue = q.queue /\ ~(q.nErr > MaxErr)) \/ pq' = q)
                        \/ Working(q) /\ Acknowledged(q) = <<Head(q.queue)>> /\ pq'.queue = Tail(q.queue)
  BY <1>1, FinishedIsGood
<1>4. CASE Orphaned(pq')
  BY <1>4 DEF PqIInv, Orphaned
<1>5. CASE PqGood(pq') /\ Acknowledged(q) = <<>> /\ (pq'.nErr > MaxErr \/ (pq'.queue = q.queue /\ ~(q.nErr > MaxErr)) \/ pq' = q)
  <2>1. more = sent
    BY <1>2, <1>5, ConcatEmptySeq
  <2>2. pqLog' = pqLog
    BY <1>1, <2>1 DEF LogType
  <2>3. InOrder(pq', pqLog')
    BY <1>2, <1>5, <2>2 DEF InOrder
  <2> QED
    BY <1>5, <2>2, <2>3 DEF PqIInv
<1>6. CASE PqGood(pq') /\ Working(q) /\ Acknowledged(q) = <<Head(q.queue)>> /\ pq'.queue = Tail(q.queue)
  <2>1. q.queue \in Seq(1 .. Posts) /\ q.queue # <<>> /\ ~(q.nErr > MaxErr)
    BY <1>6, PqAssumption DEF Working, PqRecord
  <2>2. Head(q.queue) \in 1 .. Posts /\ Tail(q.queue) \in Seq(1 .. Posts)
    BY <2>1, HeadTailProperties
  <2>3. <<Head(q.queue)>> \in Seq(1 .. Posts)
    BY <2>2
  <2>4. sent \o (<<Head(q.queue)>> \o Tail(q.queue)) = pqLog.accepted
    BY <1>2, <2>1, HeadAndTail
  <2>5. more \in Seq(1 .. Posts) /\ more \o Tail(q.queue) = pqLog.accepted
    <3>1. (sent \o <<Head(q.queue)>>) \o Tail(q.queue) = sent \o (<<Head(q.queue)>> \o Tail(q.queue))
      BY <1>2, <2>2, OneMovesLeft
    <3>2. sent \o <<Head(q.queue)>> \in Seq(1 .. Posts)
      BY <1>2, <2>3, ConcatProperties
    <3>3. more = sent \o <<Head(q.queue)>>
      BY <1>6
    <3> QED
      BY <2>4, <3>1, <3>2, <3>3, Zenon
  <2>6. more = SubSeq(pqLog.accepted, 1, Len(more))
    BY <2>2, <2>5, ConcatStarts
  <2> HIDE DEF more
  <2>7. pqLog' \in LogType /\ pqLog'.accepted = pqLog.accepted /\ pqLog'.sent = more
    BY <1>1, <2>5 DEF LogType
  <2>8. InOrder(pq', pqLog')
    BY <1>6, <2>5, <2>6, <2>7 DEF InOrder
  <2> QED
    BY <1>6, <2>7, <2>8 DEF PqIInv
<1> QED
  BY <1>3, <1>4, <1>5, <1>6

\* A field that neither the invariant nor the order looks at.
LEMMA ConnectionIsFree ==
    ASSUME NEW q, PqGood(q), NEW t, NEW r \in {"sent", "body"}, NEW s \in {"none", "ok", "status"},
           \/ t = [q EXCEPT !.connected = FALSE]
           \/ t = [q EXCEPT !.status = s]
           \/ q.request = "sent" /\ t = [q EXCEPT !.status = s, !.request = r]
    PROVE  PqGood(t) /\ t.queue = q.queue /\ t.nErr = q.nErr
<1>1. q \in PqRecord
  BY DEF PqGood
<1>2. /\ t \in PqRecord /\ t.orphan = q.orphan /\ t.queue = q.queue /\ t.nErr = q.nErr
      /\ t.toSend = q.toSend /\ t.fError = q.fError /\ t.inProgress = q.inProgress
      /\ t.event = q.event /\ t.msg = q.msg
      /\ t.request = q.request \/ (q.request = "sent" /\ t.request = r)
  BY <1>1 DEF PqRecord
<1>3. PqGood(t)
  BY <1>2 DEF PqGood, GaveUp, Working, Silent, Requesting, Scheduled, Failing
<1> QED
  BY <1>2, <1>3

LEMMA PostPreserves == PqGood(pq) /\ pqLog \in LogType /\ InOrder(pq, pqLog) /\ Post => PqIInv'
<1> SUFFICES ASSUME PqGood(pq), pqLog \in LogType, InOrder(pq, pqLog), Post PROVE PqIInv'
  OBVIOUS
<1>0. pq \in PqRecord /\ ~pq.orphan
  BY DEF PqGood
<1> DEFINE m == pqLog.next
           s == Append(pq.queue, m)
           acc == Append(pqLog.accepted, m)
           t == [pq EXCEPT !.queue = s]
           refused == pq.nErr >= MaxErr \/ Len(pq.queue) >= MaxMsgs
           n == m + 1
<1>1. m \in 1 .. Posts /\ n \in 1 .. Posts + 1
  BY PqAssumption DEF Post, LogType
<1>2. pq.queue \in Seq(1 .. Posts) /\ pqLog.accepted \in Seq(1 .. Posts)
      /\ pqLog.sent \in Seq(1 .. Posts)
  BY <1>0 DEF PqRecord, LogType
<1>3. CASE refused
  <2>1. pq' = pq /\ pqLog' = [pqLog EXCEPT !.next = n, !.accepted = pqLog.accepted]
    BY <1>3 DEF Post
  <2> HIDE DEF n
  <2>2. pqLog' \in LogType /\ pqLog'.accepted = pqLog.accepted /\ pqLog'.sent = pqLog.sent
    BY <1>1, <2>1 DEF LogType
  <2> QED
    BY <2>1, <2>2 DEF PqIInv, InOrder
<1>4. CASE ~refused
  <2>1. /\ pq' \in IF pq.inProgress THEN {t} ELSE SendFront(t)
        /\ pqLog' = [pqLog EXCEPT !.next = n, !.accepted = acc]
    BY <1>4 DEF Post
  <2>2. /\ s \in Seq(1 .. Posts) /\ acc \in Seq(1 .. Posts)
    BY <1>1, <1>2, AppendProperties
  <2>3. s # <<>> /\ Len(s) = Len(pq.queue) + 1
    BY <1>1, <1>2, AppendProperties
  <2>4. ~(pq.nErr > MaxErr) /\ pq.nErr <= MaxErr /\ Len(s) <= MaxMsgs
    BY <1>0, <1>2, <1>4, <2>3, PqAssumption DEF PqRecord
  <2>5. pqLog.sent \o pq.queue = pqLog.accepted
    BY <2>4 DEF InOrder
  <2>6. pqLog.sent \o s = acc
    <3>0. \A a, b \in Seq(1 .. Posts), e \in 1 .. Posts : a \o Append(b, e) = Append(a \o b, e)
      BY OneMovesRight
    <3>1. pqLog.sent \o Append(pq.queue, m) = Append(pqLog.sent \o pq.queue, m)
      BY <1>1, <1>2, <3>0, Zenon
    <3> QED
      BY <2>5, <3>1
  <2>7. pqLog.sent = SubSeq(acc, 1, Len(pqLog.sent))
    BY <1>2, <2>2, <2>6, ConcatStarts
  <2>h. pq.queue # <<>> => Head(s) = Head(pq.queue)
    BY <1>1, <1>2
  <2> HIDE DEF s, acc, n
  <2>8. /\ t \in PqRecord /\ ~t.orphan /\ t.queue = s /\ t.nErr = pq.nErr /\ t.request = pq.request /\ t.msg = pq.msg
        /\ t.toSend = pq.toSend /\ t.fError = pq.fError /\ t.inProgress = pq.inProgress /\ t.event = pq.event
    BY <1>0, <2>2 DEF PqRecord
  <2>9. Working(t)
    BY <2>3, <2>4, <2>8 DEF Working
  <2> HIDE DEF t
  <2>10. PqGood(pq') /\ (pq'.nErr > MaxErr \/ pq'.queue = s)
    <3>1. CASE pq.inProgress
      <4>1. pq' = t
        BY <2>1, <3>1
      <4>2. Working(pq) /\ (Requesting(pq) \/ Scheduled(pq) \/ Failing(pq))
        BY <2>4, <3>1 DEF PqGood, GaveUp
      <4>3. Head(s) = Head(pq.queue)
        BY <2>h, <4>2 DEF Working
      <4>4. Requesting(t) \/ Scheduled(t) \/ Failing(t)
        BY <2>8, <4>2, <4>3 DEF Requesting, Scheduled, Failing
      <4> QED
        BY <2>4, <2>8, <2>9, <3>1, <4>1, <4>4 DEF PqGood
    <3>2. CASE ~pq.inProgress
      <4>1. pq' \in SendFront(t)
        BY <2>1, <3>2
      <4>2. Silent(t)
        BY <2>8, <3>2 DEF PqGood, GaveUp, Silent
      <4>3. PqGood(pq') /\ Ends(t, pq')
        BY <2>9, <4>1, <4>2, SendsNow
      <4> QED
        BY <2>8, <4>3 DEF Ends, GaveUp
    <3> QED
      BY <3>1, <3>2
  <2>11. pqLog' \in LogType /\ pqLog'.accepted = acc /\ pqLog'.sent = pqLog.sent
    BY <1>1, <2>1, <2>2 DEF LogType, n
  <2>12. InOrder(pq', pqLog')
    BY <2>6, <2>7, <2>10, <2>11 DEF InOrder
  <2> QED
    BY <2>10, <2>11, <2>12 DEF PqIInv
<1> QED
  BY <1>3, <1>4

LEMMA OnSchedulePreserves == PqGood(pq) /\ pqLog \in LogType /\ InOrder(pq, pqLog) /\ OnSchedule => PqIInv'
<1> SUFFICES ASSUME PqGood(pq), pqLog \in LogType, InOrder(pq, pqLog), OnSchedule PROVE PqIInv'
  OBVIOUS
<1>0. pq \in PqRecord /\ ~pq.orphan /\ pq.event = "pending" /\ pqLog' = pqLog
  BY DEF PqGood, OnSchedule
<1>1. Working(pq) /\ pq.inProgress /\ (Scheduled(pq) \/ Failing(pq))
  BY <1>0 DEF PqGood, GaveUp, Silent, Requesting
<1>2. ~(pq.nErr > MaxErr)
  BY <1>1, PqAssumption DEF Working, PqRecord
<1>3. PqGood(pq') /\ (pq'.nErr > MaxErr \/ pq'.queue = pq.queue)
  <2>1. CASE pq.fError
    <3> DEFINE q == [pq EXCEPT !.event = "idle", !.fError = FALSE]
    <3>1. pq' \in OnError(q)
      BY <2>1 DEF OnSchedule
    <3>2. /\ q \in PqRecord /\ ~q.orphan /\ q.queue = pq.queue /\ q.nErr = pq.nErr /\ q.request = pq.request
          /\ q.toSend = pq.toSend /\ ~q.fError /\ q.event = "idle"
      BY <1>0 DEF PqRecord
    <3> HIDE DEF q
    <3>3. Working(q) /\ Silent(q)
      BY <1>1, <2>1, <3>2 DEF Working, Silent, Scheduled, Failing
    <3>4. PqGood(pq') /\ (pq'.nErr > MaxErr \/ pq'.queue = q.queue)
      BY <3>1, <3>3, ErrorIsGood
    <3> QED
      BY <3>2, <3>4
  <2>2. CASE ~pq.fError
    <3> DEFINE h == pq.toSend
               q == [pq EXCEPT !.event = "idle", !.toSend = 0]
               r == [q EXCEPT !.request = "sent", !.msg = h, !.status = "none", !.connected = TRUE]
    <3>0. 0 \in 0 .. Posts /\ h \in 0 .. Posts /\ h = Head(pq.queue)
      BY <1>0, <1>1, <2>2, PqAssumption DEF PqRecord, Scheduled, Failing
    <3>1. pq' = r \/ pq' \in OnError(q)
      BY <2>2 DEF OnSchedule, SendRequest, NoMsg
    <3>2. /\ q \in PqRecord /\ ~q.orphan /\ q.queue = pq.queue /\ q.nErr = pq.nErr /\ q.request = pq.request
          /\ q.toSend = 0 /\ q.fError = pq.fError /\ q.event = "idle" /\ q.inProgress = pq.inProgress
      BY <1>0, <3>0 DEF PqRecord
    <3> HIDE DEF h, q
    <3>3. /\ r \in PqRecord /\ ~r.orphan /\ r.queue = pq.queue /\ r.nErr = pq.nErr /\ r.request = "sent"
          /\ r.toSend = 0 /\ r.fError = pq.fError /\ r.inProgress = pq.inProgress /\ r.event = "idle" /\ r.msg = h
      BY <3>0, <3>2 DEF PqRecord
    <3> HIDE DEF r
    <3>4. Working(q) /\ Silent(q)
      BY <1>1, <2>2, <3>2 DEF Working, Silent, Scheduled, Failing
    <3>5. PqGood(r)
      BY <1>1, <2>2, <3>0, <3>3 DEF PqGood, Working, Requesting
    <3>6. pq' \in OnError(q) => PqGood(pq') /\ (pq'.nErr > MaxErr \/ pq'.queue = q.queue)
      BY <3>4, ErrorIsGood
    <3> QED
      BY <3>1, <3>2, <3>3, <3>5, <3>6
  <2> QED
    BY <2>1, <2>2
<1> QED
  BY <1>0, <1>2, <1>3 DEF PqIInv, InOrder

LEMMA PqStepPreserves == PqIInv /\ [PqNext]_pqVars => PqIInv'
<1> SUFFICES ASSUME PqIInv, [PqNext]_pqVars PROVE PqIInv'
  OBVIOUS
<1>1. CASE Orphaned(pq)
  <2> DEFINE a == Append(pq.queue, pqLog.next)
  <2>1. /\ Orphaned([pq EXCEPT !.queue = a]) /\ Orphaned([pq EXCEPT !.connected = FALSE])
        /\ Orphaned([pq EXCEPT !.event = "idle", !.fError = FALSE])
        /\ Orphaned([pq EXCEPT !.event = "idle", !.toSend = NoMsg])
    BY <1>1 DEF Orphaned
  <2>2. ASSUME NEW s PROVE /\ Orphaned([pq EXCEPT !.status = s])
                           /\ Orphaned([pq EXCEPT !.status = s, !.request = "body"])
    BY <1>1 DEF Orphaned
  <2>3. ASSUME NEW q, Orphaned(q), Finishes(q) PROVE Orphaned(pq')
    BY <2>3, QueueStaysOrphaned DEF Finishes
  <2>4. CASE Post
    BY <1>1, <2>1, <2>4, SendStaysOrphaned DEF Post, PqIInv, Orphaned
  <2>5. CASE ResponseHeaders
    <3>1. PICK s \in {"ok"} \cup ({"status"} \cap PqFault) :
            Finishes([pq EXCEPT !.status = s]) \/ pq' = [pq EXCEPT !.status = s, !.request = "body"]
      BY <2>5 DEF ResponseHeaders
    <3>2. Orphaned(pq')
      BY <2>2, <2>3, <3>1
    <3> QED
      BY <3>2 DEF PqIInv, Orphaned
  <2>6. CASE ResponseData \/ ConnError \/ ConnFini
    <3>1. Orphaned(pq')
      BY <1>1, <2>1, <2>3, <2>6 DEF ResponseData, ConnError, ConnFini
    <3> QED
      BY <3>1 DEF PqIInv, Orphaned
  <2>7. CASE OnSchedule
    <3> DEFINE t == [pq EXCEPT !.event = "idle", !.toSend = NoMsg]
               h == pq.toSend
    <3>1. pq' \in OnError([pq EXCEPT !.event = "idle", !.fError = FALSE]) \/ pq' = SendRequest(t, h) \/ pq' \in OnError(t)
      BY <2>7 DEF OnSchedule
    <3>2. Orphaned(t)
      BY <2>1
    <3> HIDE DEF t, h
    <3>3. Orphaned(SendRequest(t, h))
      BY <3>2 DEF Orphaned, SendRequest
    <3>4. Orphaned(pq')
      BY <2>1, <3>1, <3>2, <3>3, QueueStaysOrphaned
    <3> QED
      BY <3>4 DEF PqIInv, Orphaned
  <2>8. CASE UNCHANGED pqVars
    BY <1>1, <2>8 DEF pqVars, PqIInv, Orphaned
  <2> QED
    BY <2>4, <2>5, <2>6, <2>7, <2>8 DEF PqNext
<1>2. CASE PqGood(pq) /\ pqLog \in LogType /\ InOrder(pq, pqLog)
  <2>c. PqGood([pq EXCEPT !.connected = FALSE]) /\ InOrder([pq EXCEPT !.connected = FALSE], pqLog)
    <3> DEFINE q == [pq EXCEPT !.connected = FALSE]
    <3>1. PqGood(q) /\ q.queue = pq.queue /\ q.nErr = pq.nErr
      BY <1>2, ConnectionIsFree
    <3> QED
      BY <1>2, <3>1 DEF InOrder
  <2>1. CASE Post
    BY <1>2, <2>1, PostPreserves
  <2>2. CASE ResponseHeaders
    <3>1. PICK status \in {"ok"} \cup ({"status"} \cap PqFault) :
            LET q == [pq EXCEPT !.status = status]
            IN  Finishes(q) \/ (pq' = [q EXCEPT !.request = "body"] /\ UNCHANGED pqLog)
      BY <2>2 DEF ResponseHeaders
    <3> DEFINE q == [pq EXCEPT !.status = status]
               r == [pq EXCEPT !.status = status, !.request = "body"]
    <3>2. status \in {"none", "ok", "status"} /\ pq.request = "sent"
      BY <2>2, <3>1 DEF ResponseHeaders
    <3>3. PqGood(q) /\ q.queue = pq.queue /\ q.nErr = pq.nErr
      BY <1>2, <3>2, ConnectionIsFree
    <3>4. PqGood(r) /\ r.queue = pq.queue /\ r.nErr = pq.nErr
      BY <1>2, <3>2, ConnectionIsFree
    <3>5. Finishes(q) \/ (pq' = r /\ UNCHANGED pqLog)
      BY <3>1
    <3> HIDE DEF q, r
    <3>6. InOrder(q, pqLog) /\ InOrder(r, pqLog)
      BY <1>2, <3>3, <3>4 DEF InOrder
    <3> QED
      BY <1>2, <3>3, <3>4, <3>5, <3>6, FinishPreserves DEF PqIInv
  <2>3. CASE ResponseData
    BY <1>2, <2>3, FinishPreserves DEF ResponseData
  <2>4. CASE ConnError
    BY <1>2, <2>4, <2>c, FinishPreserves DEF ConnError
  <2>5. CASE ConnFini
    BY <1>2, <2>5, <2>c DEF ConnFini, PqIInv
  <2>6. CASE OnSchedule
    BY <1>2, <2>6, OnSchedulePreserves
  <2>7. CASE UNCHANGED pqVars
    BY <1>2, <2>7 DEF pqVars, PqIInv
  <2> QED
    BY <2>1, <2>2, <2>3, <2>4, <2>5, <2>6, <2>7 DEF PqNext
<1> QED
  BY <1>1, <1>2 DEF PqIInv

LEMMA PqInvariant == PqSpec => []PqIInv
<1> QED
  BY PqInitEstablishes, PqStepPreserves, PTL DEF PqSpec

-----------------------------------------------------------------------------
\* While S3HttpPostQueueImpl waits for the engine, the engine will call it back
\* for the first entry of the queue and in one way only; otherwise nothing is
\* outstanding.  The exceptions are those of the property: the event cannot be
\* created while a request is in progress, or the queue has given up.
THEOREM OneCallBackCorrect == PqSpec => []OneCallBack
<1>1. PqIInv => OneCallBack
  <2> SUFFICES ASSUME PqIInv PROVE OneCallBack
    OBVIOUS
  <2>1. CASE Orphaned(pq)
    BY <2>1 DEF Orphaned, OneCallBack
  <2>2. CASE PqGood(pq)
    <3>1. CASE GaveUp(pq)
      BY <3>1 DEF GaveUp, Silent, OneCallBack, NoMsg
    <3>2. CASE ~pq.inProgress /\ Silent(pq)
      BY <3>2 DEF Silent, OneCallBack, NoMsg
    <3>3. CASE pq.inProgress /\ Working(pq) /\ (Requesting(pq) \/ Scheduled(pq) \/ Failing(pq))
      BY <3>3 DEF OneCallBack, Requesting, Scheduled, Failing, Working, NoMsg
    <3> QED
      BY <2>2, <3>1, <3>2, <3>3 DEF PqGood
  <2> QED
    BY <2>1, <2>2 DEF PqIInv
<1> QED
  BY <1>1, PqInvariant, PTL

\* Audit log entries are acknowledged in the order in which the requests
\* finished, each once and none passed over, until the queue gives up or an
\* entry is left behind for want of an event.
THEOREM EntriesAreSentInOrder == PqSpec => []SentInOrder
<1>1. PqIInv => SentInOrder
  BY DEF PqIInv, InOrder, SentInOrder, Orphaned
<1> QED
  BY <1>1, PqInvariant, PTL

-----------------------------------------------------------------------------
(* Sums over the unit sizes.                                               *)

AnyOf(s) == CHOOSE x \in s : TRUE
IsSum(w, g) ==
    g = [s \in SUBSET Units |-> IF s = {} THEN 0 ELSE w[AnyOf(s)] + g[s \ {AnyOf(s)}]]
UnitBytes(p) == [u \in Units |-> p[u].total * u]

LEMMA LeastNumber ==
    ASSUME NEW T \in SUBSET Nat, T # {}
    PROVE  \E x \in T : \A y \in T : x <= y
<1>1. PICK x \in T : \A y \in T : ~(<<y, x>> \in OpToRel(<, Nat))
  BY NatLessThanWellFounded, WFMin, Zenon
<1>2. \A y \in T : ~(y < x)
  BY <1>1, Zenon DEF OpToRel
<1> QED
  BY <1>2

\* Sets of units, one unit after the other.
LEMMA UnitInduction ==
    ASSUME NEW T \in SUBSET SUBSET Units, {} \in T,
           \A s \in SUBSET Units : s # {} /\ s \ {AnyOf(s)} \in T => s \in T
    PROVE  T = SUBSET Units
<1> DEFINE Rest == (SUBSET Units) \ T
           Sizes == {Cardinality(s) : s \in Rest}
<1>1. SUFFICES ASSUME Rest # {} PROVE FALSE
  OBVIOUS
<1>2. \A s \in SUBSET Units : IsFiniteSet(s) /\ Cardinality(s) \in Nat
  BY PoolAssumption, FS_Subset, FS_CardinalityType, Zenon
<1>3. Sizes \in SUBSET Nat /\ Sizes # {}
  BY <1>1, <1>2
<1>4. PICK n \in Sizes : \A m \in Sizes : n <= m
  <2> HIDE DEF Sizes
  <2> QED
    BY <1>3, LeastNumber
<1>5. PICK s \in Rest : n = Cardinality(s)
  BY <1>4
<1>6. s \in SUBSET Units /\ s # {} /\ s \notin T
  BY <1>5
<1>7. AnyOf(s) \in s
  BY <1>6 DEF AnyOf
<1>8. PICK r : r = s \ {AnyOf(s)}
  OBVIOUS
<1>9. r \in Rest
  BY <1>6, <1>8
<1>10. Cardinality(r) = Cardinality(s) - 1
  BY <1>2, <1>6, <1>7, <1>8, FS_RemoveElement
<1>11. Cardinality(r) \in Sizes /\ Cardinality(r) \in Nat /\ Cardinality(s) \in Nat
  BY <1>2, <1>6, <1>9
<1>12. n <= Cardinality(r)
  <2> HIDE DEF Sizes, Rest
  <2> QED
    BY <1>4, <1>11
<1> HIDE DEF Sizes, Rest
<1> QED
  BY <1>5, <1>10, <1>11, <1>12

\* The sums of subsets of at most n units can be built up with n.
LEMMA SumExists ==
    ASSUME NEW w \in [Units -> Int]
    PROVE  \E g : IsSum(w, g)
<1> DEFINE Once(g) == [s \in SUBSET Units |-> IF s = {} THEN 0 ELSE w[AnyOf(s)] + g[s \ {AnyOf(s)}]]
           UpTo(n, g) == \A s \in SUBSET Units : Cardinality(s) <= n => g[s] = Once(g)[s]
           Never == {n \in Nat : \A g : ~UpTo(n, g)}
<1>1. \A s \in SUBSET Units : IsFiniteSet(s) /\ Cardinality(s) \in Nat
  BY PoolAssumption, FS_Subset, FS_CardinalityType, Zenon
<1>2. \A s \in SUBSET Units : s # {} =>
         /\ s \ {AnyOf(s)} \in SUBSET Units /\ Cardinality(s \ {AnyOf(s)}) = Cardinality(s) - 1
  <2> SUFFICES ASSUME NEW s \in SUBSET Units, s # {}
               PROVE  Cardinality(s \ {AnyOf(s)}) = Cardinality(s) - 1
    OBVIOUS
  <2>1. AnyOf(s) \in s
    BY DEF AnyOf
  <2> QED
    BY <1>1, <2>1, FS_RemoveElement
<1>3. \A g : \A s \in SUBSET Units :
         Once(g)[s] = IF s = {} THEN 0 ELSE w[AnyOf(s)] + g[s \ {AnyOf(s)}]
  OBVIOUS
<1>4. \A n \in Nat : \A g : UpTo(n, g) => UpTo(n + 1, Once(g))
  <2> SUFFICES ASSUME NEW n \in Nat, NEW g, UpTo(n, g), NEW s \in SUBSET Units,
                      Cardinality(s) <= n + 1
               PROVE  Once(g)[s] = Once(Once(g))[s]
    OBVIOUS
  <2>1. PICK h : h = Once(g)
    OBVIOUS
  <2>2. CASE s = {}
    BY <1>3, <2>2
  <2>3. CASE s # {}
    <3>0. PICK r : r = s \ {AnyOf(s)}
      OBVIOUS
    <3>1. r \in SUBSET Units /\ Cardinality(r) = Cardinality(s) - 1
      BY <1>2, <2>3, <3>0, Zenon
    <3>1a. Cardinality(r) <= n
      BY <1>1, <3>1
    <3>2. g[r] = h[r]
      BY <2>1, <3>1, <3>1a, Zenon
    <3>3. Once(g)[s] = w[AnyOf(s)] + g[r] /\ Once(h)[s] = w[AnyOf(s)] + h[r]
      BY <1>3, <2>3, <3>0, Zenon
    <3> QED
      BY <2>1, <3>2, <3>3
  <2> QED
    BY <2>2, <2>3
<1>5. \A n \in Nat : \E g : UpTo(n, g)
  <2>0. SUFFICES ASSUME NEW k \in Nat, \A g : ~UpTo(k, g) PROVE FALSE
    <3> HIDE DEF UpTo
    <3> QED
      BY Zenon
  <2>0a. k \in Never
    <3> HIDE DEF UpTo
    <3> QED
      BY <2>0
  <2>1. PICK n \in Never : \A m \in Never : n <= m
    <3>1. Never \in SUBSET Nat
      OBVIOUS
    <3> HIDE DEF Never
    <3> QED
      BY <2>0a, <3>1, LeastNumber
  <2>2. CASE n = 0
    <3>1. PICK g : g = [s \in SUBSET Units |-> 0]
      OBVIOUS
    <3>2. ASSUME NEW s \in SUBSET Units, Cardinality(s) <= 0 PROVE s = {}
      <4>1. Cardinality(s) = 0 /\ IsFiniteSet(s)
        BY <1>1, <3>2
      <4> QED
        BY <4>1, FS_EmptySet, Zenon
    <3>3. UpTo(0, g)
      BY <1>3, <3>1, <3>2
    <3> QED
      BY <2>1, <2>2, <3>3
  <2>3. CASE n # 0
    <3>1. n - 1 \in Nat /\ n - 1 \notin Never /\ (n - 1) + 1 = n
      <4>1. n \in Nat
        OBVIOUS
      <4> HIDE DEF Never
      <4> QED
        BY <2>1, <2>3, <4>1
    <3>2. PICK g : UpTo(n - 1, g)
      BY <3>1
    <3>3. UpTo(n, Once(g))
      <4> HIDE DEF UpTo, Once
      <4> QED
        BY <1>4, <3>1, <3>2
    <3> QED
      BY <2>1, <3>3
  <2> QED
    BY <2>2, <2>3
<1>6. PICK g : UpTo(Cardinality(Units), g)
  BY <1>1, <1>5
<1>7. \A s \in SUBSET Units : Cardinality(s) <= Cardinality(Units)
  BY PoolAssumption, FS_Subset
<1>8. PICK h : h = Once(g)
  OBVIOUS
<1>9. \A s \in SUBSET Units : h[s] = g[s]
  BY <1>6, <1>7, <1>8
<1>10. h = Once(h)
  BY <1>2, <1>8, <1>9
<1> QED
  BY <1>10 DEF IsSum

LEMMA SumOfNothing ==
    ASSUME NEW w, NEW g, IsSum(w, g)
    PROVE  g[{}] = 0
BY DEF IsSum

LEMMA SumOfMore ==
    ASSUME NEW w, NEW g, IsSum(w, g), NEW s \in SUBSET Units, s # {}
    PROVE  AnyOf(s) \in s /\ g[s] = w[AnyOf(s)] + g[s \ {AnyOf(s)}]
<1>1. g[s] = IF s = {} THEN 0 ELSE w[AnyOf(s)] + g[s \ {AnyOf(s)}]
  BY Zenon DEF IsSum
<1>2. AnyOf(s) \in s
  BY DEF AnyOf
<1> QED
  BY <1>1, <1>2

LEMMA SumIsInt ==
    ASSUME NEW w \in [Units -> Int], NEW g, IsSum(w, g)
    PROVE  \A s \in SUBSET Units : g[s] \in Int
<1> DEFINE T == {s \in SUBSET Units : g[s] \in Int}
<1>1. {} \in T
  BY SumOfNothing
<1>2. ASSUME NEW s \in SUBSET Units, s # {}, s \ {AnyOf(s)} \in T PROVE s \in T
  <2>0. AnyOf(s) \in s /\ g[s] = w[AnyOf(s)] + g[s \ {AnyOf(s)}]
    BY <1>2, SumOfMore
  <2>1. PICK x \in s : x = AnyOf(s)
    BY <2>0
  <2>2. g[s] = w[x] + g[s \ {x}]
    BY <2>0, <2>1
  <2> QED
    BY <1>2, <2>1, <2>2
<1>3. T = SUBSET Units
  <2>1. T \in SUBSET SUBSET Units
    OBVIOUS
  <2> HIDE DEF T
  <2> QED
    BY <1>1, <1>2, <2>1, UnitInduction
<1> QED
  BY <1>3

LEMMA SumOfNone ==
    ASSUME NEW w, \A u \in Units : w[u] = 0, NEW g, IsSum(w, g)
    PROVE  g[Units] = 0
<1> DEFINE T == {s \in SUBSET Units : g[s] = 0}
<1>1. {} \in T
  BY SumOfNothing
<1>2. ASSUME NEW s \in SUBSET Units, s # {}, s \ {AnyOf(s)} \in T PROVE s \in T
  <2>0. AnyOf(s) \in s /\ g[s] = w[AnyOf(s)] + g[s \ {AnyOf(s)}]
    BY <1>2, SumOfMore
  <2>1. PICK x \in s : x = AnyOf(s)
    BY <2>0
  <2>2. g[s] = w[x] + g[s \ {x}]
    BY <2>0, <2>1
  <2> QED
    BY <1>2, <2>1, <2>2
<1>3. T = SUBSET Units
  <2>1. T \in SUBSET SUBSET Units
    OBVIOUS
  <2> HIDE DEF T
  <2> QED
    BY <1>1, <1>2, <2>1, UnitInduction
<1> QED
  BY <1>3

\* A change of one term changes the sum by as much.
LEMMA SumChanges ==
    ASSUME NEW w \in [Units -> Int], NEW v \in [Units -> Int], NEW u \in Units,
           \A x \in Units \ {u} : v[x] = w[x], NEW g, IsSum(w, g), NEW h, IsSum(v, h)
    PROVE  g[Units] \in Int /\ h[Units] \in Int /\ h[Units] = g[Units] + v[u] - w[u]
<1> DEFINE T == {s \in SUBSET Units : IF u \in s THEN h[s] = g[s] + v[u] - w[u] ELSE h[s] = g[s]}
<1>1. \A s \in SUBSET Units : g[s] \in Int /\ h[s] \in Int
  BY SumIsInt
<1>2. {} \in T
  BY SumOfNothing
<1>3. ASSUME NEW s \in SUBSET Units, s # {}, s \ {AnyOf(s)} \in T PROVE s \in T
  <2>0. /\ AnyOf(s) \in s /\ g[s] = w[AnyOf(s)] + g[s \ {AnyOf(s)}]
        /\ h[s] = v[AnyOf(s)] + h[s \ {AnyOf(s)}]
    <3>0. s # {}
      BY <1>3
    <3>1. AnyOf(s) \in s /\ g[s] = w[AnyOf(s)] + g[s \ {AnyOf(s)}]
      BY ONLY <3>0, IsSum(w, g), SumOfMore
    <3>2. h[s] = v[AnyOf(s)] + h[s \ {AnyOf(s)}]
      BY ONLY <3>0, IsSum(v, h), SumOfMore
    <3> QED
      BY <3>1, <3>2
  <2>1. PICK x \in s : x = AnyOf(s)
    BY <2>0
  <2>2. PICK r \in SUBSET Units : r = s \ {x}
    OBVIOUS
  <2>3. g[s] = w[x] + g[r] /\ h[s] = v[x] + h[r]
    BY <2>0, <2>1, <2>2
  <2>4. /\ g[r] \in Int /\ h[r] \in Int /\ g[s] \in Int /\ h[s] \in Int
        /\ w[x] \in Int /\ v[x] \in Int /\ w[u] \in Int /\ v[u] \in Int
    BY <1>1
  <2>5. CASE x = u
    <3>1. h[r] = g[r]
      BY <1>3, <2>1, <2>2, <2>5
    <3> QED
      BY <2>3, <2>4, <2>5, <3>1
  <2>6. CASE x # u
    <3>1. v[x] = w[x]
      BY <2>6
    <3>2. u \in r <=> u \in s
      BY <2>2, <2>6
    <3>3. IF u \in r THEN h[r] = g[r] + v[u] - w[u] ELSE h[r] = g[r]
      BY <1>3, <2>1, <2>2
    <3> QED
      BY <2>3, <2>4, <3>1, <3>2, <3>3
  <2> QED
    BY <2>5, <2>6
<1>4. T = SUBSET Units
  <2>1. T \in SUBSET SUBSET Units
    OBVIOUS
  <2> HIDE DEF T
  <2> QED
    BY <1>2, <1>3, <2>1, UnitInduction
<1>5. Units \in T
  <2> HIDE DEF T
  <2> QED
    BY <1>4
<1> QED
  BY <1>1, <1>5

PoolCounts == [free : Nat, shared : Nat, total : Nat]

\* What all pools have allocated is such a sum.
LEMMA TotalIsSum ==
    ASSUME NEW p \in [Units -> PoolCounts]
    PROVE  /\ UnitBytes(p) \in [Units -> Int]
           /\ \E g : IsSum(UnitBytes(p), g) /\ Allocated(p) = g[Units]
<1> DEFINE Is(g) == g = [s \in SUBSET Units |->
                            IF s = {} THEN 0
                            ELSE LET x == CHOOSE x \in s : TRUE
                                 IN  p[x].total * x + g[s \ {x}]]
<1>1. UnitBytes(p) \in [Units -> Int]
  BY PoolAssumption DEF UnitBytes, PoolCounts
<1>2. \A g : Is(g) <=> IsSum(UnitBytes(p), g)
  <2>1. \A s \in SUBSET Units : s # {} =>
           UnitBytes(p)[AnyOf(s)] = p[AnyOf(s)].total * AnyOf(s)
    BY DEF AnyOf, UnitBytes
  <2> QED
    BY <2>1 DEF IsSum, AnyOf
<1>3. PICK g : g = CHOOSE h : Is(h)
  OBVIOUS
<1>4. Is(g)
  <2>1. \E h : Is(h)
    <3>1. PICK w \in [Units -> Int] : w = UnitBytes(p)
      BY <1>1
    <3>2. PICK h : IsSum(w, h)
      BY SumExists
    <3> HIDE DEF Is
    <3> QED
      BY <1>2, <3>1, <3>2
  <2> HIDE DEF Is
  <2> QED
    BY <1>3, <2>1
<1>5. Allocated(p) = g[Units]
  BY <1>3, Zenon DEF Allocated, Total, MapThenSumSet, MapThenFoldSet
<1>6. IsSum(UnitBytes(p), g)
  <2> HIDE DEF Is
  <2> QED
    BY <1>2, <1>4
<1> HIDE DEF Is
<1> QED
  BY ONLY <1>1, <1>5, <1>6, Zenon

LEMMA TotalChanges ==
    ASSUME NEW p \in [Units -> PoolCounts], NEW q \in [Units -> PoolCounts], NEW u \in Units,
           \A x \in Units \ {u} : q[x].total = p[x].total
    PROVE  /\ Allocated(p) \in Int /\ Allocated(q) \in Int
           /\ Allocated(q) = Allocated(p) + q[u].total * u - p[u].total * u
<1>1. PICK w \in [Units -> Int], v \in [Units -> Int] : w = UnitBytes(p) /\ v = UnitBytes(q)
  BY TotalIsSum
<1>2. PICK g : IsSum(w, g) /\ Allocated(p) = g[Units]
  BY <1>1, TotalIsSum
<1>3. PICK h : IsSum(v, h) /\ Allocated(q) = h[Units]
  BY <1>1, TotalIsSum
<1>4. \A x \in Units : w[x] = p[x].total * x /\ v[x] = q[x].total * x
  BY <1>1 DEF UnitBytes
<1>5. \A x \in Units \ {u} : v[x] = w[x]
  BY <1>4
<1>6. g[Units] \in Int /\ h[Units] \in Int /\ h[Units] = g[Units] + v[u] - w[u]
  <2>1. IsSum(w, g) /\ IsSum(v, h)
    BY <1>2, <1>3, Zenon
  <2> QED
    BY ONLY <1>5, <2>1, SumChanges
<1> QED
  BY <1>2, <1>3, <1>4, <1>6

-----------------------------------------------------------------------------
(* The memory pools.                                                       *)

PoolSpec == PoolInit /\ [][PoolNext]_poolVars

PoolTypeOK ==
    /\ pools \in [Units -> PoolCounts] /\ freeSpace \in Nat
    /\ poolCall = Calls(poolCall.pc, poolCall.unit, poolCall.retries)
    /\ poolCall.pc \in {"create", "idle", "get", "reduce", "failed", "stopped"}
    /\ poolCall.pc \in {"get", "reduce"} => poolCall.retries \in 1 .. MaxRetries

PoolIInv == PoolTypeOK /\ MemoryIsCounted

LEMMA MinOfTwo ==
    ASSUME NEW a \in Nat, NEW b \in Nat
    PROVE  Min({a, b}) \in Nat /\ Min({a, b}) <= a /\ Min({a, b}) <= b /\ Min({a, b}) \in {a, b}
<1>1. \E x \in {a, b} : \A y \in {a, b} : x <= y
  OBVIOUS
<1> QED
  BY <1>1 DEF Min

LEMMA Multiples ==
    ASSUME NEW v \in Nat \ {0}
    PROVE  /\ \A m \in Nat : (m * v) % v = 0
           /\ \A m \in Nat : m \div v \in Nat /\ (m \div v) * v <= m
           /\ \A m \in Nat, n \in Nat : m <= n => m * v <= n * v
           /\ \A k \in Nat : (2 * k * v) \div 2 = k * v
<1>1. ASSUME NEW m \in Nat PROVE (m * v) % v = 0
  BY Z3
<1>2. ASSUME NEW m \in Nat PROVE m \div v \in Nat /\ (m \div v) * v <= m
  BY Z3
<1>3. ASSUME NEW m \in Nat, NEW n \in Nat, m <= n PROVE m * v <= n * v
  BY <1>3, Z3
<1>4. ASSUME NEW k \in Nat PROVE (2 * k * v) \div 2 = k * v
  BY Z3
<1> QED
  BY <1>1, <1>2, <1>3, <1>4

\* One pool grows or shrinks, and free_space is changed by as much.
LEMMA PoolsChange ==
    ASSUME PoolIInv, poolCall.pc # "stopped", NEW u \in Units,
           pools' \in [Units -> PoolCounts], \A v \in Units \ {u} : pools'[v] = pools[v],
           pools'[u].total = pools'[u].free + pools'[u].shared,
           freeSpace' \in Nat, freeSpace' = freeSpace + pools[u].total * u - pools'[u].total * u
    PROVE  MemoryIsCounted'
<1>1. /\ pools \in [Units -> PoolCounts] /\ freeSpace \in Nat /\ Units \subseteq Nat
      /\ \A v \in Units : pools[v].total = pools[v].free + pools[v].shared
      /\ freeSpace + Allocated(pools) = MaxMemory
  BY PoolAssumption DEF PoolIInv, PoolTypeOK, MemoryIsCounted
<1>2. PICK p \in [Units -> PoolCounts], q \in [Units -> PoolCounts] : p = pools /\ q = pools'
  BY <1>1
<1>3. /\ Allocated(p) \in Int /\ Allocated(q) \in Int
      /\ Allocated(q) = Allocated(p) + q[u].total * u - p[u].total * u
  <2>1. \A x \in Units \ {u} : q[x].total = p[x].total
    BY <1>2
  <2> QED
    BY ONLY <2>1, TotalChanges
<1>4. p[u].total * u \in Int /\ q[u].total * u \in Int
  BY <1>1 DEF PoolCounts
<1>5. freeSpace' + Allocated(pools') = MaxMemory
  BY <1>1, <1>2, <1>3, <1>4
<1>6. \A v \in Units : pools'[v].total = pools'[v].free + pools'[v].shared
  BY <1>1
<1> QED
  BY <1>5, <1>6 DEF MemoryIsCounted

\* free_any_unused finds the pool with most free memory, if one has any.
LEMMA LargestExists ==
    ASSUME pools \in [Units -> PoolCounts], Unused # {}
    PROVE  Largest \in Unused
<1> DEFINE Below(w, v) == FreeBytes(w) < FreeBytes(v) \/ (FreeBytes(w) = FreeBytes(v) /\ w <= v)
           T == {s \in SUBSET Units : s = {} \/ \E v \in s : \A w \in s : Below(w, v)}
<1>1. \A v \in Units : FreeBytes(v) \in Nat /\ v \in Nat
  BY PoolAssumption DEF FreeBytes, PoolCounts
<1>2. \A v, w \in Units : Below(w, v) \/ Below(v, w)
  BY <1>1
<1>3. \A v, w, x \in Units : Below(x, w) /\ Below(w, v) => Below(x, v)
  BY <1>1
<1>4. {} \in T
  OBVIOUS
<1>5. ASSUME NEW s \in SUBSET Units, s # {}, s \ {AnyOf(s)} \in T PROVE s \in T
  <2> HIDE DEF Below
  <2>1. PICK x \in s : x = AnyOf(s)
    BY <1>5 DEF AnyOf
  <2>2. PICK r \in SUBSET Units : r = s \ {x} /\ r \in T
    BY <1>5, <2>1
  <2>3. CASE r = {}
    <3>1. s = {x}
      BY <2>2, <2>3
    <3>2. Below(x, x)
      BY <1>2
    <3> QED
      BY <3>1, <3>2
  <2>4. CASE r # {}
    <3>1. PICK v \in r : \A w \in r : Below(w, v)
      BY <2>2, <2>4
    <3>2. CASE Below(x, v)
      BY <2>2, <3>1, <3>2
    <3>3. CASE Below(v, x)
      <4>1. \A w \in r : Below(w, x)
        BY <1>3, <3>1, <3>3
      <4>2. Below(x, x)
        BY <1>2
      <4> QED
        BY <2>2, <4>1, <4>2
    <3> QED
      BY <1>2, <2>1, <3>2, <3>3
  <2> QED
    BY <2>3, <2>4
<1>6. T = SUBSET Units
  <2>1. T \in SUBSET SUBSET Units
    OBVIOUS
  <2> HIDE DEF T
  <2> QED
    BY <1>4, <1>5, <2>1, UnitInduction
<1>7. Unused \in T
  <2>1. Unused \in SUBSET Units
    BY DEF Unused
  <2> HIDE DEF T
  <2> QED
    BY <1>6, <2>1
<1>8. \E v \in Unused : \A w \in Unused : Below(w, v)
  <2> HIDE DEF Below
  <2> QED
    BY <1>7
<1> QED
  BY <1>8 DEF Largest

\* Only half of an odd number of buffers, more than one, is refused.
LEMMA PoolGrows ==
    ASSUME PoolIInv, NEW u \in Units, NEW n \in Nat, n * u <= freeSpace, NEW t \in 0 .. 1,
           pools[u].free + n >= t, poolCall.pc # "stopped",
           pools' = [pools EXCEPT ![u].free = @ + n - t, ![u].total = @ + n, ![u].shared = @ + t],
           freeSpace' = freeSpace - n * u
    PROVE  pools' \in [Units -> PoolCounts] /\ freeSpace' \in Nat /\ MemoryIsCounted'
<1>1. /\ pools \in [Units -> PoolCounts] /\ freeSpace \in Nat /\ u \in Nat
      /\ pools[u].total = pools[u].free + pools[u].shared
  BY PoolAssumption DEF PoolIInv, PoolTypeOK, MemoryIsCounted
<1>2. PICK free \in Nat, shared \in Nat, total \in Nat :
         free = pools[u].free /\ shared = pools[u].shared /\ total = pools[u].total
  BY <1>1 DEF PoolCounts
<1>2a. PICK nf \in Nat, ns \in Nat, nt \in Nat : nf = free + n - t /\ ns = shared + t /\ nt = total + n
  <2>1. free + n - t \in Nat /\ shared + t \in Nat /\ total + n \in Nat
    BY <1>2
  <2> QED
    BY <2>1, Zenon
<1>2b. pools' = [pools EXCEPT ![u].free = nf, ![u].total = nt, ![u].shared = ns]
  BY <1>2, <1>2a
<1>3. /\ pools' \in [Units -> PoolCounts] /\ \A v \in Units \ {u} : pools'[v] = pools[v]
      /\ pools'[u].free = free + n - t /\ pools'[u].shared = shared + t /\ pools'[u].total = total + n
  BY ONLY <1>1, <1>2a, <1>2b DEF PoolCounts
<1>4. n * u \in Nat /\ total * u \in Nat /\ (total + n) * u = total * u + n * u
  BY <1>1, Z3
<1>5. freeSpace' \in Nat /\ freeSpace' = freeSpace + pools[u].total * u - pools'[u].total * u
  BY <1>1, <1>2, <1>3, <1>4
<1>6. pools'[u].total = pools'[u].free + pools'[u].shared
  BY <1>1, <1>2, <1>3
<1> QED
  BY <1>3, <1>5, <1>6, PoolsChange

\* It grows by n buffers and keeps them (freelist_allocate), or gives n of its
\* free ones back (mempool_downsize).
LEMMA PoolResized ==
    ASSUME PoolIInv, NEW u \in Units, NEW n \in Nat, poolCall.pc # "stopped",
           \/ n * u <= freeSpace /\ FreelistAllocate(u, n)
           \/ /\ n <= pools[u].free /\ freeSpace' = freeSpace + n * u
              /\ pools' = [pools EXCEPT ![u].free = @ - n, ![u].total = @ - n]
    PROVE  pools' \in [Units -> PoolCounts] /\ freeSpace' \in Nat /\ MemoryIsCounted'
<1>1. /\ pools \in [Units -> PoolCounts] /\ freeSpace \in Nat /\ u \in Nat
      /\ pools[u].total = pools[u].free + pools[u].shared
  BY PoolAssumption DEF PoolIInv, PoolTypeOK, MemoryIsCounted
<1>2. PICK free \in Nat, shared \in Nat, total \in Nat :
         free = pools[u].free /\ shared = pools[u].shared /\ total = pools[u].total
  BY <1>1 DEF PoolCounts
<1>3. /\ n * u \in Nat /\ total * u \in Nat /\ (total + n) * u = total * u + n * u
      /\ (total - n) * u = total * u - n * u
  BY <1>1, Z3
<1>4. PICK nf \in Nat, nt \in Nat :
         /\ pools' = [pools EXCEPT ![u].free = nf, ![u].total = nt]
         /\ nt = nf + shared /\ freeSpace' \in Nat /\ freeSpace' = freeSpace + total * u - nt * u
  <2>1. CASE n * u <= freeSpace /\ FreelistAllocate(u, n)
    <3>1. PICK nf \in Nat, nt \in Nat : nf = free + n /\ nt = total + n
      OBVIOUS
    <3>2. pools' = [pools EXCEPT ![u].free = nf, ![u].total = nt] /\ freeSpace' = freeSpace - n * u
      BY <1>2, <2>1, <3>1 DEF FreelistAllocate
    <3>3. freeSpace' \in Nat /\ nt * u = total * u + n * u
      BY <1>1, <1>3, <2>1, <3>1, <3>2
    <3>4. freeSpace' = freeSpace + total * u - nt * u /\ nt = nf + shared
      BY <1>1, <1>2, <1>3, <3>1, <3>2, <3>3
    <3> QED
      BY <3>2, <3>3, <3>4
  <2>2. CASE /\ n <= pools[u].free /\ freeSpace' = freeSpace + n * u
             /\ pools' = [pools EXCEPT ![u].free = @ - n, ![u].total = @ - n]
    <3>1. PICK nf \in Nat, nt \in Nat : nf = free - n /\ nt = total - n
      BY <1>1, <1>2, <2>2
    <3>2. pools' = [pools EXCEPT ![u].free = nf, ![u].total = nt]
      BY <1>2, <2>2, <3>1
    <3>3. freeSpace' \in Nat /\ nt * u = total * u - n * u
      BY <1>1, <1>3, <2>2, <3>1
    <3>4. freeSpace' = freeSpace + total * u - nt * u /\ nt = nf + shared
      BY <1>1, <1>2, <1>3, <2>2, <3>1, <3>3
    <3> QED
      BY <3>2, <3>3, <3>4
  <2> QED
    BY <2>1, <2>2
<1>5. /\ pools' \in [Units -> PoolCounts] /\ \A v \in Units \ {u} : pools'[v] = pools[v]
      /\ pools'[u].free = nf /\ pools'[u].shared = shared /\ pools'[u].total = nt
  BY ONLY <1>1, <1>2, <1>4 DEF PoolCounts
<1>6. /\ freeSpace' = freeSpace + pools[u].total * u - pools'[u].total * u
      /\ pools'[u].total = pools'[u].free + pools'[u].shared
  BY <1>2, <1>4, <1>5
<1> QED
  BY <1>4, <1>5, <1>6, PoolsChange

\* The calls to the pools.
LEMMA CallFacts ==
    ASSUME NEW pc, NEW u, NEW r
    PROVE  /\ Calls(pc, u, r).pc = pc /\ Calls(pc, u, r).unit = u /\ Calls(pc, u, r).retries = r
BY DEF Calls

LEMMA PoolCallOK ==
    ASSUME pools' \in [Units -> PoolCounts], freeSpace' \in Nat, MemoryIsCounted',
           NEW pc \in {"create", "idle", "get", "reduce", "stopped"}, NEW u, NEW r,
           poolCall' = Calls(pc, u, r), pc \in {"get", "reduce"} => r \in 1 .. MaxRetries
    PROVE  PoolIInv'
<1>1. poolCall'.pc = pc /\ poolCall'.unit = u /\ poolCall'.retries = r
  BY CallFacts
<1> QED
  BY <1>1 DEF PoolIInv, PoolTypeOK

LEMMA PoolInitIInv == PoolInit => PoolIInv
<1> SUFFICES ASSUME PoolInit PROVE PoolIInv
  OBVIOUS
<1>1. pools = [u \in Units |-> NoPool] /\ freeSpace = MaxMemory
      /\ poolCall = Calls("create", Min(Units), 0)
  BY DEF PoolInit
<1>2. pools \in [Units -> PoolCounts] /\ freeSpace \in Nat
      /\ \A u \in Units : pools[u].total = 0 /\ pools[u].free = 0 /\ pools[u].shared = 0
  BY <1>1, PoolAssumption DEF PoolCounts, NoPool
<1>3. poolCall.pc = "create" /\ poolCall.unit = Min(Units) /\ poolCall.retries = 0
  BY <1>1, CallFacts
<1>4. PICK p \in [Units -> PoolCounts] : p = pools
  BY <1>2
<1>5. PICK w : w = UnitBytes(p)
  OBVIOUS
<1>6. PICK g : IsSum(w, g) /\ Allocated(p) = g[Units]
  BY <1>5, TotalIsSum
<1>7. \A u \in Units : w[u] = 0
  BY <1>2, <1>4, <1>5, PoolAssumption DEF UnitBytes
<1>8. Allocated(p) = 0
  BY <1>6, <1>7, SumOfNone
<1>9. MemoryIsCounted
  BY <1>1, <1>2, <1>4, <1>8, PoolAssumption DEF MemoryIsCounted
<1> QED
  BY <1>1, <1>2, <1>3, <1>9 DEF PoolIInv, PoolTypeOK

LEMMA CreateKeeps ==
    ASSUME PoolIInv, NEW u \in Units, CreatePool(u)
    PROVE  PoolIInv'
<1>1. /\ pools \in [Units -> PoolCounts] /\ freeSpace \in Nat /\ poolCall.pc = "create"
      /\ u \in Nat /\ InitialCount \in Nat
  BY PoolAssumption DEF CreatePool, PoolIInv, PoolTypeOK
<1>2. CASE poolCall' = Calls("stopped", 0, 0) /\ UNCHANGED <<pools, freeSpace>>
  <2>1. poolCall'.pc = "stopped"
    BY <1>2, CallFacts
  <2>2. MemoryIsCounted'
    BY <1>2, <2>1 DEF MemoryIsCounted, PoolIInv
  <2> QED
    BY <1>1, <1>2, <2>2, PoolCallOK
<1>3. CASE /\ FreelistAllocate(u, InitialCount) /\ InitialCount * u <= freeSpace
           /\ \E pc \in {"idle", "create"} : \E v : poolCall' = Calls(pc, v, 0)
  <2>1. pools' \in [Units -> PoolCounts] /\ freeSpace' \in Nat /\ MemoryIsCounted'
    BY <1>1, <1>3, PoolResized
  <2> QED
    BY <1>3, <2>1, PoolCallOK
<1>4. \/ poolCall' = Calls("stopped", 0, 0) /\ UNCHANGED <<pools, freeSpace>>
      \/ /\ ~(InitialCount * u > freeSpace) /\ FreelistAllocate(u, InitialCount)
         /\ \E pc \in {"idle", "create"} : \E v : poolCall' = Calls(pc, v, 0)
  BY Zenon DEF CreatePool
<1>5. InitialCount * u \in Nat
  BY <1>1
<1> QED
  BY <1>1, <1>2, <1>3, <1>4, <1>5

LEMMA GetKeeps ==
    ASSUME PoolIInv, NEW u \in Units, GetBuffer(u)
    PROVE  PoolIInv'
<1>1. /\ pools \in [Units -> PoolCounts] /\ freeSpace \in Nat /\ poolCall.pc = "get"
      /\ poolCall.retries \in 1 .. MaxRetries /\ u \in Nat \ {0} /\ ExpandCount \in Nat \ {0}
      /\ pools[u].free \in Nat
  BY PoolAssumption DEF GetBuffer, PoolIInv, PoolTypeOK, PoolCounts
<1>2. PICK room \in Nat : room = PoolCanExpandBy(u) /\ room * u <= freeSpace
  BY <1>1, Multiples DEF PoolCanExpandBy
<1>3. ASSUME NEW n \in Nat, n <= Growth(u) PROVE n * u <= freeSpace
  <2>1. Growth(u) \in Nat /\ Growth(u) <= room
    BY <1>1, <1>2, MinOfTwo DEF Growth
  <2>2. n <= room
    BY <1>3, <2>1
  <2>3. n * u <= room * u
    BY <1>1, <2>2, Multiples
  <2>4. n * u \in Nat /\ room * u \in Nat
    BY <1>1
  <2> QED
    BY <1>1, <1>2, <2>3, <2>4
<1>4. CASE pools[u].free > 0 /\ Takes(u, 0)
  <2>1. 0 * u = 0
    BY <1>1
  <2>2. /\ pools' = [pools EXCEPT ![u].free = @ + 0 - 1, ![u].total = @ + 0, ![u].shared = @ + 1]
        /\ freeSpace' = freeSpace - 0 * u /\ poolCall' = Calls("idle", 0, 0)
    BY <1>4 DEF Takes
  <2>3. pools' \in [Units -> PoolCounts] /\ freeSpace' \in Nat /\ MemoryIsCounted'
    <3>1. PICK n \in Nat, t \in 0 .. 1 : n = 0 /\ t = 1
      OBVIOUS
    <3>2. n * u <= freeSpace /\ pools[u].free + n >= t /\ poolCall.pc # "stopped"
      BY <1>1, <1>4, <2>1, <3>1
    <3>3. /\ pools' = [pools EXCEPT ![u].free = @ + n - t, ![u].total = @ + n, ![u].shared = @ + t]
          /\ freeSpace' = freeSpace - n * u
      BY ONLY <2>2, <3>1, Zenon
    <3> QED
      BY <3>2, <3>3, PoolGrows
  <2> QED
    BY <2>2, <2>3, PoolCallOK
<1>5. CASE PoolCanExpandBy(u) # 0 /\ Takes(u, Growth(u))
  <2>1. PICK n \in Nat, t \in 0 .. 1 : n = Growth(u) /\ t = 1 /\ n >= 1
    BY <1>1, <1>2, <1>5, MinOfTwo DEF Growth
  <2>2. /\ pools' = [pools EXCEPT ![u].free = @ + n - t, ![u].total = @ + n, ![u].shared = @ + t]
        /\ freeSpace' = freeSpace - n * u /\ poolCall' = Calls("idle", 0, 0)
    BY ONLY <1>5, <2>1, Zenon DEF Takes
  <2>3. n * u <= freeSpace /\ pools[u].free + n >= t /\ poolCall.pc # "stopped"
    BY <1>1, <1>3, <2>1
  <2>4. pools' \in [Units -> PoolCounts] /\ freeSpace' \in Nat /\ MemoryIsCounted'
    BY <2>2, <2>3, PoolGrows
  <2> QED
    BY <2>2, <2>4, PoolCallOK
<1>6. CASE poolCall' = Calls("reduce", u, poolCall.retries) /\ UNCHANGED <<pools, freeSpace>>
  <2>1. poolCall'.pc = "reduce"
    BY <1>6, CallFacts
  <2>2. MemoryIsCounted'
    BY <1>1, <1>6, <2>1 DEF MemoryIsCounted, PoolIInv
  <2> QED
    BY <1>1, <1>6, <2>2, PoolCallOK
<1>7. CASE /\ poolCall' = Calls("reduce", u, poolCall.retries)
           /\ \E n \in 0 .. Growth(u) - 1 : FreelistAllocate(u, n)
  <2>1. PICK n \in 0 .. Growth(u) - 1 : FreelistAllocate(u, n)
    BY <1>7
  <2>2. n \in Nat /\ n <= Growth(u)
    BY <1>1, <1>2, MinOfTwo DEF Growth
  <2>3. pools' \in [Units -> PoolCounts] /\ freeSpace' \in Nat /\ MemoryIsCounted'
    BY <1>1, <1>3, <2>1, <2>2, PoolResized
  <2> QED
    BY <1>1, <1>7, <2>3, PoolCallOK
<1> QED
  BY <1>4, <1>5, <1>6, <1>7, Zenon DEF GetBuffer, Fewer

LEMMA ReduceKeeps ==
    ASSUME PoolIInv, FreeAnyUnused
    PROVE  PoolIInv'
<1>1. /\ pools \in [Units -> PoolCounts] /\ freeSpace \in Nat /\ poolCall.pc = "reduce"
      /\ poolCall.retries \in 1 .. MaxRetries
  BY DEF FreeAnyUnused, PoolIInv, PoolTypeOK
<1>2. CASE /\ Unused = {} \/ Refused(Largest)
           /\ poolCall' = Calls("failed", poolCall.unit, poolCall.retries)
           /\ UNCHANGED <<pools, freeSpace>>
  <2>1. poolCall'.pc = "failed" /\ poolCall'.unit = poolCall.unit /\ poolCall'.retries = poolCall.retries
    BY <1>2, CallFacts
  <2>2. MemoryIsCounted'
    BY <1>1, <1>2, <2>1 DEF MemoryIsCounted, PoolIInv
  <2> QED
    BY <1>1, <1>2, <2>1, <2>2 DEF PoolIInv, PoolTypeOK
<1>3. CASE /\ Unused # {} /\ Downsize(Largest, ToReduce(Largest))
           /\ poolCall' = Calls(IF poolCall.retries = 1 THEN "failed" ELSE "get",
                                poolCall.unit, poolCall.retries - 1)
  <2>1. PICK v \in Units : v = Largest /\ pools[v].free > 0
    BY <1>1, <1>3, LargestExists DEF Unused
  <2>2. v \in Nat \ {0} /\ pools[v].free \in Nat
    BY <1>1, PoolAssumption DEF PoolCounts
  <2>3. FreeBytes(v) \in Nat /\ ToReduce(v) \in Nat
    BY <2>2 DEF ToReduce, FreeBytes
  <2>4. PICK n \in Nat : n = Min({ToReduce(v) \div v, pools[v].free}) /\ n <= pools[v].free
    BY <2>2, <2>3, Multiples, MinOfTwo
  <2>5. /\ pools' = [pools EXCEPT ![v].free = @ - n, ![v].total = @ - n]
        /\ freeSpace' = freeSpace + n * v
    BY <1>3, <2>1, <2>4 DEF Downsize
  <2>6. pools' \in [Units -> PoolCounts] /\ freeSpace' \in Nat /\ MemoryIsCounted'
    BY <1>1, <2>4, <2>5, PoolResized
  <2>7. CASE poolCall.retries = 1
    <3>1. poolCall' = Calls("failed", poolCall.unit, 0)
      BY <1>3, <2>7
    <3>2. poolCall'.pc = "failed" /\ poolCall'.retries = 0 /\ poolCall'.unit = poolCall.unit
      BY <3>1, CallFacts
    <3> QED
      BY <2>6, <3>1, <3>2 DEF PoolIInv, PoolTypeOK
  <2>8. CASE poolCall.retries # 1
    <3>1. poolCall' = Calls("get", poolCall.unit, poolCall.retries - 1)
      BY <1>3, <2>8
    <3>2. poolCall.retries - 1 \in 1 .. MaxRetries
      BY <1>1, <2>8 DEF MaxRetries
    <3> QED
      BY <2>6, <3>1, <3>2, PoolCallOK
  <2> QED
    BY <2>7, <2>8
<1> QED
  BY <1>2, <1>3 DEF FreeAnyUnused

LEMMA ReleaseKeeps ==
    ASSUME PoolIInv, NEW u \in Units, ReleaseBuffer(u)
    PROVE  PoolIInv'
<1>1. /\ pools \in [Units -> PoolCounts] /\ freeSpace \in Nat /\ poolCall.pc = "idle"
      /\ pools[u].total = pools[u].free + pools[u].shared /\ pools[u].shared > 0
      /\ poolCall' = poolCall /\ freeSpace' = freeSpace
  BY DEF ReleaseBuffer, PoolIInv, PoolTypeOK, MemoryIsCounted
<1>2. PICK free \in Nat, shared \in Nat, total \in Nat :
         free = pools[u].free /\ shared = pools[u].shared /\ total = pools[u].total
  BY <1>1 DEF PoolCounts
<1>3. PICK nf \in Nat, ns \in Nat : nf = free + 1 /\ ns = shared - 1
  BY <1>1, <1>2
<1>4. pools' = [pools EXCEPT ![u].free = nf, ![u].shared = ns]
  BY <1>2, <1>3 DEF ReleaseBuffer
<1>5. /\ pools' \in [Units -> PoolCounts] /\ \A v \in Units \ {u} : pools'[v] = pools[v]
      /\ pools'[u].free = nf /\ pools'[u].shared = ns /\ pools'[u].total = total
  BY ONLY <1>1, <1>2, <1>4 DEF PoolCounts
<1>6. pools'[u].total = pools'[u].free + pools'[u].shared
  BY <1>1, <1>2, <1>3, <1>5
<1>7. freeSpace' = freeSpace + pools[u].total * u - pools'[u].total * u
  <2>1. total * u \in Int
    BY PoolAssumption
  <2> QED
    BY <1>1, <1>2, <1>5, <2>1
<1>8. MemoryIsCounted'
  BY <1>1, <1>5, <1>6, <1>7, PoolsChange
<1> QED
  BY <1>1, <1>5, <1>8 DEF PoolIInv, PoolTypeOK

LEMMA PoolStepIInv == PoolIInv /\ [PoolNext]_poolVars => PoolIInv'
<1> SUFFICES ASSUME PoolIInv, [PoolNext]_poolVars PROVE PoolIInv'
  OBVIOUS
<1>1. pools \in [Units -> PoolCounts] /\ freeSpace \in Nat
  BY DEF PoolIInv, PoolTypeOK
<1>2. ASSUME NEW u \in Units, GetBufferForUnitSize(u) PROVE PoolIInv'
  <2>1. /\ poolCall.pc = "idle" /\ poolCall' = Calls("get", u, MaxRetries)
        /\ UNCHANGED <<pools, freeSpace>>
    BY <1>2, Zenon DEF GetBufferForUnitSize
  <2>2. MemoryIsCounted'
    BY <2>1 DEF MemoryIsCounted, PoolIInv
  <2>3. MaxRetries \in 1 .. MaxRetries
    BY DEF MaxRetries
  <2> QED
    BY <1>1, <2>1, <2>2, <2>3, PoolCallOK
<1>3. CASE CallFails
  <2>1. poolCall.pc = "failed" /\ poolCall' = Calls("idle", 0, 0) /\ UNCHANGED <<pools, freeSpace>>
    BY <1>3 DEF CallFails
  <2>2. MemoryIsCounted'
    BY <2>1 DEF MemoryIsCounted, PoolIInv
  <2> QED
    BY <1>1, <2>1, <2>2, PoolCallOK
<1>4. CASE FreePools
  <2>1. /\ poolCall' = Calls("stopped", 0, 0) /\ pools' = [v \in Units |-> NoPool]
        /\ freeSpace' = freeSpace
    BY <1>4 DEF FreePools
  <2>2. /\ pools' \in [Units -> PoolCounts]
        /\ \A u \in Units : pools'[u].total = pools'[u].free + pools'[u].shared
    BY <2>1 DEF PoolCounts, NoPool
  <2>3. poolCall'.pc = "stopped"
    BY <2>1, CallFacts
  <2>4. MemoryIsCounted'
    BY <2>2, <2>3 DEF MemoryIsCounted
  <2> QED
    BY <1>1, <2>1, <2>2, <2>4, PoolCallOK
<1>5. CASE UNCHANGED poolVars
  <2>1. UNCHANGED <<pools, freeSpace, poolCall>>
    BY <1>5 DEF poolVars
  <2> QED
    BY <2>1 DEF PoolIInv, PoolTypeOK, MemoryIsCounted
<1>6. ASSUME PoolNext PROVE PoolIInv'
  <2>1. \/ \E u \in Units : CreatePool(u) \/ GetBufferForUnitSize(u) \/ GetBuffer(u) \/ ReleaseBuffer(u)
        \/ FreeAnyUnused \/ CallFails \/ FreePools
    BY <1>6, Zenon DEF PoolNext
  <2>2. CASE \E u \in Units : CreatePool(u) \/ GetBufferForUnitSize(u) \/ GetBuffer(u) \/ ReleaseBuffer(u)
    <3>1. PICK u \in Units : CreatePool(u) \/ GetBufferForUnitSize(u) \/ GetBuffer(u) \/ ReleaseBuffer(u)
      BY <2>2, Zenon
    <3> QED
      BY <1>2, <3>1, CreateKeeps, GetKeeps, ReleaseKeeps, Zenon
  <2> QED
    BY <1>3, <1>4, <2>1, <2>2, ReduceKeeps, Zenon
<1> QED
  BY <1>5, <1>6, Zenon

\* Whatever the sizes, the limit and the failures of allocations: every buffer
\* is free or with a caller, and free_space is what the pools have left of the
\* limit, so that they never allocate more than it.
THEOREM MemoryIsAlwaysCounted == PoolSpec => [](MemoryIsCounted /\ freeSpace \in Nat)
<1>1. PoolIInv => MemoryIsCounted /\ freeSpace \in Nat
  BY DEF PoolIInv, PoolTypeOK
<1> QED
  BY <1>1, PoolInitIInv, PoolStepIInv, PTL DEF PoolSpec

-----------------------------------------------------------------------------
(* Listings: the loop over the keys of a read.                             *)

IsWalk(l, keys, g) ==
    g = [s \in SUBSET DOMAIN keys |->
            IF s = {} THEN Loop(l, keys) ELSE VisitKey(g[s \ {Max(s)}], keys[Max(s)])]

LEMMA WalkExists ==
    ASSUME NEW l, NEW keys \in Seq(Keys)
    PROVE  \E g : IsWalk(l, keys, g)
<1> DEFINE D == DOMAIN keys
           Once(g) == [s \in SUBSET D |->
                         IF s = {} THEN Loop(l, keys) ELSE VisitKey(g[s \ {Max(s)}], keys[Max(s)])]
           UpTo(n, g) == \A s \in SUBSET D : Cardinality(s) <= n => g[s] = Once(g)[s]
           Never == {n \in Nat : \A g : ~UpTo(n, g)}
<1>0. D = 1 .. Len(keys) /\ IsFiniteSet(D) /\ Len(keys) \in Nat
  <2>1. D = 1 .. Len(keys) /\ Len(keys) \in Nat
    OBVIOUS
  <2> QED
    BY <2>1, FS_Interval
<1>1. \A s \in SUBSET D : IsFiniteSet(s) /\ Cardinality(s) \in Nat
  BY <1>0, FS_Subset, FS_CardinalityType, Zenon
<1>2. \A s \in SUBSET D : s # {} => Max(s) \in s /\ Cardinality(s \ {Max(s)}) = Cardinality(s) - 1
  <2> SUFFICES ASSUME NEW s \in SUBSET D, s # {}
               PROVE  Max(s) \in s /\ Cardinality(s \ {Max(s)}) = Cardinality(s) - 1
    OBVIOUS
  <2>1. Max(s) \in s
    <3> DEFINE Low == {Len(keys) - x : x \in s}
    <3>1. s \subseteq 1 .. Len(keys)
      BY <1>0
    <3>2. \A x \in s : Len(keys) - x \in Nat /\ Len(keys) - x \in Low
      BY <1>0, <3>1
    <3>2a. Low \in SUBSET Nat /\ Low # {}
      BY <3>2
    <3>3. PICK y \in Low : \A z \in Low : y <= z
      <4> HIDE DEF Low
      <4> QED
        BY <3>2a, LeastNumber
    <3>4. PICK x \in s : y = Len(keys) - x
      BY <3>3
    <3>5. \A z \in s : x >= z
      <4> SUFFICES ASSUME NEW z \in s PROVE x >= z
        OBVIOUS
      <4>1. Len(keys) - x <= Len(keys) - z
        <5> HIDE DEF Low
        <5> QED
          BY <3>2, <3>3, <3>4
      <4>2. x \in Nat /\ z \in Nat /\ Len(keys) \in Nat
        BY <1>0, <3>1
      <4> QED
        BY <4>1, <4>2
    <3> QED
      BY <3>5 DEF Max
  <2> QED
    BY <1>1, <2>1, FS_RemoveElement
<1>3. \A g : \A s \in SUBSET D :
         Once(g)[s] = IF s = {} THEN Loop(l, keys) ELSE VisitKey(g[s \ {Max(s)}], keys[Max(s)])
  OBVIOUS
<1>4. \A n \in Nat : \A g : UpTo(n, g) => UpTo(n + 1, Once(g))
  <2> SUFFICES ASSUME NEW n \in Nat, NEW g, UpTo(n, g), NEW s \in SUBSET D, Cardinality(s) <= n + 1
               PROVE  Once(g)[s] = Once(Once(g))[s]
    OBVIOUS
  <2>1. PICK h : h = Once(g)
    OBVIOUS
  <2>2. CASE s = {}
    BY <1>3, <2>2
  <2>3. CASE s # {}
    <3>0. PICK r : r = s \ {Max(s)}
      OBVIOUS
    <3>1. r \in SUBSET D /\ Cardinality(r) = Cardinality(s) - 1
      BY <1>2, <2>3, <3>0, Zenon
    <3>1a. Cardinality(r) <= n
      BY <1>1, <3>1
    <3>2. g[r] = h[r]
      BY <2>1, <3>1, <3>1a, Zenon
    <3>3. Once(g)[s] = VisitKey(g[r], keys[Max(s)]) /\ Once(h)[s] = VisitKey(h[r], keys[Max(s)])
      BY <1>3, <2>3, <3>0, Zenon
    <3> QED
      BY <2>1, <3>2, <3>3
  <2> QED
    BY <2>2, <2>3
<1>5. \A n \in Nat : \E g : UpTo(n, g)
  <2>0. SUFFICES ASSUME NEW k \in Nat, \A g : ~UpTo(k, g) PROVE FALSE
    <3> HIDE DEF UpTo
    <3> QED
      BY Zenon
  <2>0a. k \in Never
    <3> HIDE DEF UpTo
    <3> QED
      BY <2>0
  <2>1. PICK n \in Never : \A m \in Never : n <= m
    <3>1. Never \in SUBSET Nat
      OBVIOUS
    <3> HIDE DEF Never
    <3> QED
      BY <2>0a, <3>1, LeastNumber
  <2>2. CASE n = 0
    <3>1. PICK g : g = [s \in SUBSET D |-> Loop(l, keys)]
      OBVIOUS
    <3>2. ASSUME NEW s \in SUBSET D, Cardinality(s) <= 0 PROVE s = {}
      <4>1. Cardinality(s) = 0 /\ IsFiniteSet(s)
        BY <1>1, <3>2
      <4> QED
        BY <4>1, FS_EmptySet, Zenon
    <3>3. UpTo(0, g)
      BY <1>3, <3>1, <3>2
    <3> QED
      BY <2>1, <2>2, <3>3
  <2>3. CASE n # 0
    <3>1. n - 1 \in Nat /\ n - 1 \notin Never /\ (n - 1) + 1 = n
      <4>1. n \in Nat
        OBVIOUS
      <4> HIDE DEF Never
      <4> QED
        BY <2>1, <2>3, <4>1
    <3>2. PICK g : UpTo(n - 1, g)
      BY <3>1
    <3>3. UpTo(n, Once(g))
      <4> HIDE DEF UpTo, Once
      <4> QED
        BY <1>4, <3>1, <3>2
    <3> QED
      BY <2>1, <3>3
  <2> QED
    BY <2>2, <2>3
<1>6. PICK g : UpTo(Cardinality(D), g)
  BY <1>0, <1>1, <1>5
<1>7. \A s \in SUBSET D : Cardinality(s) <= Cardinality(D)
  BY <1>0, FS_Subset
<1>8. PICK h : h = Once(g)
  OBVIOUS
<1>9. \A s \in SUBSET D : h[s] = g[s]
  BY <1>6, <1>7, <1>8
<1>10. h = Once(h)
  <2>1. \A s \in SUBSET D : Once(g)[s] = Once(h)[s]
    <3> SUFFICES ASSUME NEW s \in SUBSET D PROVE Once(g)[s] = Once(h)[s]
      OBVIOUS
    <3>1. CASE s = {}
      BY <1>3, <3>1
    <3>2. CASE s # {}
      <4>0. PICK r : r = s \ {Max(s)}
        OBVIOUS
      <4>1. r \in SUBSET D
        BY <4>0
      <4>2. g[r] = h[r]
        BY <1>9, <4>1
      <4>3. Once(g)[s] = VisitKey(g[r], keys[Max(s)]) /\ Once(h)[s] = VisitKey(h[r], keys[Max(s)])
        BY <1>3, <3>2, <4>0, Zenon
      <4> QED
        BY <4>2, <4>3
    <3> QED
      BY <3>1, <3>2
  <2>2. Once(g) = Once(h)
    BY <2>1
  <2> QED
    BY <1>8, <2>2
<1> QED
  BY <1>10 DEF IsWalk

\* The loop visits the keys one by one.
LEMMA VisitedSteps ==
    ASSUME NEW l, NEW keys \in Seq(Keys)
    PROVE  \E a : /\ a[0] = Loop(l, keys)
                  /\ \A i \in 1 .. Len(keys) : a[i] = VisitKey(a[i - 1], keys[i])
                  /\ Visited(l, keys) = a[Len(keys)]
<1> DEFINE Is(g) == g = [s \in SUBSET DOMAIN keys |->
                            IF s = {} THEN Loop(l, keys)
                            ELSE LET x == Max(s)
                                 IN  VisitKey(g[s \ {x}], keys[x])]
<1>1. \A g : Is(g) <=> IsWalk(l, keys, g)
  BY DEF IsWalk
<1>2. PICK g : g = CHOOSE h : Is(h)
  OBVIOUS
<1>3. Is(g)
  <2>1. \E h : Is(h)
    <3>1. PICK h : IsWalk(l, keys, h)
      BY WalkExists
    <3> HIDE DEF Is
    <3> QED
      BY <1>1, <3>1
  <2> HIDE DEF Is
  <2> QED
    BY <1>2, <2>1
<1>4. Visited(l, keys) = g[DOMAIN keys]
  BY <1>2, Zenon DEF Visited, FoldLeft, MapThenFoldSet
<1>5. DOMAIN keys = 1 .. Len(keys) /\ Len(keys) \in Nat
  OBVIOUS
<1>6. PICK a : a = [i \in 0 .. Len(keys) |-> g[1 .. i]]
  OBVIOUS
<1>7. \A i \in 0 .. Len(keys) : a[i] = g[1 .. i]
  BY <1>6
<1>8. a[0] = Loop(l, keys)
  <2>1. 1 .. 0 = {} /\ 0 \in 0 .. Len(keys)
    BY <1>5
  <2>2. g[{}] = Loop(l, keys)
    BY <1>3
  <2> HIDE DEF Is
  <2> QED
    BY <1>7, <2>1, <2>2
<1>9. ASSUME NEW i \in 1 .. Len(keys) PROVE a[i] = VisitKey(a[i - 1], keys[i])
  <2>1. PICK s : s = 1 .. i
    OBVIOUS
  <2>2. s \in SUBSET DOMAIN keys /\ s # {} /\ i \in s /\ \A x \in s : i >= x
    BY <1>5, <2>1
  <2>3. Max(s) = i
    <3>1. \A x \in s : (\A y \in s : x >= y) => x = i
      BY <2>1, <2>2
    <3> QED
      BY <2>2, <3>1 DEF Max
  <2>4. g[s] = VisitKey(g[s \ {Max(s)}], keys[Max(s)])
    BY <1>3, <2>2, Zenon
  <2>5. s \ {i} = 1 .. (i - 1) /\ i - 1 \in 0 .. Len(keys) /\ i \in 0 .. Len(keys)
    BY <1>5, <2>1
  <2>6. a[i] = g[s] /\ a[i - 1] = g[1 .. (i - 1)]
    BY <1>7, <2>1, <2>5, Zenon
  <2>7. g[s] = VisitKey(g[s \ {i}], keys[i])
    BY <2>3, <2>4, Zenon
  <2> QED
    BY <2>5, <2>6, <2>7, Zenon
<1>10. Visited(l, keys) = a[Len(keys)]
  <2> HIDE DEF Is
  <2> QED
    BY <1>4, <1>5, <1>7
<1> QED
  BY <1>8, <1>9, <1>10

-----------------------------------------------------------------------------
(* Listings: what a read of the index finds.                               *)

Rank(s, k) == Cardinality({j \in s : j <= k})

LEMMA RankType ==
    ASSUME NEW s \in SUBSET Nat, IsFiniteSet(s), NEW k \in Nat
    PROVE  /\ IsFiniteSet({j \in s : j <= k})
           /\ Rank(s, k) \in 0 .. Cardinality(s) /\ (k \in s => Rank(s, k) > 0)
<1> DEFINE low == {j \in s : j <= k}
<1>1. IsFiniteSet(low) /\ Cardinality(low) <= Cardinality(s) /\ low \subseteq s
  BY FS_Subset
<1>2. Cardinality(low) \in Nat /\ Cardinality(s) \in Nat
  BY <1>1, FS_CardinalityType
<1>3. k \in s => low # {}
  OBVIOUS
<1>4. low # {} => Cardinality(low) # 0
  BY <1>1, FS_EmptySet
<1> QED
  BY <1>1, <1>2, <1>3, <1>4 DEF Rank

LEMMA RankGrows ==
    ASSUME NEW s \in SUBSET Nat, IsFiniteSet(s), NEW j \in s, NEW k \in s, j < k
    PROVE  Rank(s, j) < Rank(s, k)
<1> DEFINE low == {i \in s : i <= j}
           all == {i \in s : i <= k}
<1>1. IsFiniteSet(low) /\ IsFiniteSet(all)
  BY RankType
<1>2. low \subseteq all /\ k \in all /\ k \notin low
  <2>1. j \in Nat /\ k \in Nat /\ ~(k <= j) /\ k <= k /\ \A i \in s : i \in Nat
    OBVIOUS
  <2>2. \A i \in s : i <= j => i <= k
    BY <2>1
  <2> QED
    BY <2>1, <2>2
<1>3. low \cup {k} \subseteq all
  BY <1>2
<1>4. Cardinality(low \cup {k}) = Cardinality(low) + 1 /\ IsFiniteSet(low \cup {k})
  <2> HIDE DEF low, all
  <2> QED
    BY <1>1, <1>2, FS_AddElement
<1>5. Cardinality(low \cup {k}) <= Cardinality(all)
  <2> HIDE DEF low, all
  <2> QED
    BY <1>1, <1>3, FS_Subset
<1>6. Cardinality(low) \in Nat /\ Cardinality(all) \in Nat
  BY <1>1, FS_CardinalityType
<1> QED
  BY <1>4, <1>5, <1>6 DEF Rank

LEMMA EveryRank ==
    ASSUME NEW s \in SUBSET Nat, IsFiniteSet(s)
    PROVE  \A i \in 1 .. Cardinality(s) : \E k \in s : Rank(s, k) = i
<1> DEFINE NoneOf == {i \in 1 .. Cardinality(s) : \A k \in s : Rank(s, k) # i}
<1>0. SUFFICES ASSUME NoneOf # {} PROVE FALSE
  OBVIOUS
<1>1. Cardinality(s) \in Nat
  BY FS_CardinalityType
<1>2. NoneOf \in SUBSET Nat
  BY <1>1
<1>3. PICK i \in NoneOf : \A j \in NoneOf : i <= j
  <2> HIDE DEF NoneOf
  <2> QED
    BY <1>0, <1>2, LeastNumber
<1>4. i \in 1 .. Cardinality(s) /\ \A k \in s : Rank(s, k) # i
  OBVIOUS
<1>5. i - 1 \notin NoneOf
  <2>1. i \in Nat
    BY <1>1, <1>4
  <2> HIDE DEF NoneOf
  <2> QED
    BY <1>3, <2>1
\* the elements above those of the ranks below
<1>6. \E b \in SUBSET s : /\ IsFiniteSet(b) /\ Cardinality(b) = i - 1
                          /\ \A x \in b, y \in s \ b : x < y
  <2>1. CASE i = 1
    <3>1. Cardinality({}) = 0 /\ IsFiniteSet({})
      BY FS_EmptySet
    <3> QED
      BY <2>1, <3>1
  <2>2. CASE i # 1
    <3>1. i - 1 \in 1 .. Cardinality(s)
      BY <1>1, <1>4, <2>2
    <3>2. PICK k \in s : Rank(s, k) = i - 1
      BY <1>5, <3>1
    <3>3. IsFiniteSet({j \in s : j <= k})
      BY RankType
    <3>4. \A x \in {j \in s : j <= k}, y \in s \ {j \in s : j <= k} : x < y
      OBVIOUS
    <3> QED
      BY <3>2, <3>3, <3>4 DEF Rank
  <2> QED
    BY <2>1, <2>2
<1>7. PICK b \in SUBSET s : /\ IsFiniteSet(b) /\ Cardinality(b) = i - 1
                            /\ \A x \in b, y \in s \ b : x < y
  BY <1>6
<1>8. s \ b # {} /\ s \ b \in SUBSET Nat
  <2>1. s # b
    BY <1>1, <1>4, <1>7
  <2> QED
    BY <2>1
<1>9. PICK k \in s \ b : \A y \in s \ b : k <= y
  BY <1>8, LeastNumber
<1>10. {j \in s : j <= k} = b \cup {k}
  <2>1. k \in Nat /\ \A j \in s : j \in Nat
    BY <1>9
  <2>2. \A j \in b : j \in s /\ j <= k
    BY <1>7, <1>9, <2>1
  <2>3. \A j \in s \ b : j <= k => j = k
    BY <1>9, <2>1
  <2> QED
    BY <1>9, <2>1, <2>2, <2>3
<1>11. Cardinality(b \cup {k}) = Cardinality(b) + 1
  BY <1>7, <1>9, FS_AddElement
<1>12. Rank(s, k) = i
  BY <1>1, <1>4, <1>7, <1>10, <1>11 DEF Rank
<1> QED
  BY <1>4, <1>9, <1>12

\* A read finds the next keys in their order, without gaps, and all of them
\* when it finds fewer than it asked for.
LEMMA NextKeysAreNext ==
    ASSUME index \subseteq Keys, NEW from \in Nat, NEW included \in BOOLEAN, NEW n \in Nat,
           NEW found, found = NextKeys(from, included, n)
    PROVE  /\ found \in Seq(Keys) /\ Len(found) \in Nat /\ Len(found) <= n
           /\ \A i, j \in 1 .. Len(found) : i < j => found[i] < found[j]
           /\ \A i \in 1 .. Len(found) :
                 found[i] \in index /\ (found[i] > from \/ (included /\ found[i] = from))
           /\ \A k \in index :
                 /\ k > from \/ (included /\ k = from)
                 /\ Len(found) < n \/ \E i \in 1 .. Len(found) : k <= found[i]
                 => \E i \in 1 .. Len(found) : found[i] = k
<1> DEFINE after == {k \in index : k > from \/ (included /\ k = from)}
<1>1. PICK s : s = after
  OBVIOUS
<1>2. s \in SUBSET Nat /\ IsFiniteSet(s) /\ s \subseteq index /\ s \subseteq Keys
  <2>1. after \subseteq Keys
    OBVIOUS
  <2> QED
    BY <1>1, <2>1, ListingAssumption, FS_Subset
<1>3. Cardinality(s) \in Nat
  BY <1>2, FS_CardinalityType
<1>4. PICK m : m = IF Cardinality(s) < n THEN Cardinality(s) ELSE n
  OBVIOUS
<1>5. m \in Nat /\ m <= n /\ m <= Cardinality(s) /\ (m < n => m = Cardinality(s))
  BY <1>3, <1>4
<1>6. found = [i \in 1 .. m |-> CHOOSE k \in s : Cardinality({j \in s : j <= k}) = i]
  <2>1. found = [i \in 1 .. (IF Cardinality(after) < n THEN Cardinality(after) ELSE n) |->
                   CHOOSE k \in after : Cardinality({j \in after : j <= k}) = i]
    BY Zenon DEF NextKeys
  <2> HIDE DEF after
  <2> QED
    BY <1>1, <1>4, <2>1, Zenon
<1>7. found = [i \in 1 .. m |-> CHOOSE k \in s : Rank(s, k) = i]
  BY <1>6 DEF Rank
<1>8. \A i \in 1 .. m : found[i] \in s /\ Rank(s, found[i]) = i
  <2> SUFFICES ASSUME NEW i \in 1 .. m PROVE found[i] \in s /\ Rank(s, found[i]) = i
    OBVIOUS
  <2>1. \E k \in s : Rank(s, k) = i
    <3>1. i \in 1 .. Cardinality(s)
      BY <1>3, <1>5
    <3> QED
      BY <1>2, <3>1, EveryRank
  <2>2. found[i] = CHOOSE k \in s : Rank(s, k) = i
    BY <1>7
  <2> QED
    BY <2>1, <2>2
<1>9. found \in [1 .. m -> Keys]
  BY <1>2, <1>7, <1>8
<1>10. found \in Seq(Keys) /\ Len(found) = m
  <2>1. found \in Seq(Keys)
    BY <1>5, <1>9, SeqDef
  <2> QED
    BY <1>5, <1>9, <2>1, LenProperties
<1>11. \A j, k \in s : j < k => Rank(s, j) < Rank(s, k)
  BY <1>2, RankGrows
<1>12. \A k \in s : Rank(s, k) \in 1 .. Cardinality(s)
  <2>1. \A k \in s : Rank(s, k) \in 0 .. Cardinality(s) /\ Rank(s, k) > 0
    BY <1>2, RankType
  <2> QED
    BY <1>3, <2>1
<1>13. \A j, k \in s : Rank(s, j) = Rank(s, k) => j = k
  BY <1>2, <1>3, <1>11, <1>12
<1>14. \A i, j \in 1 .. m : i < j => found[i] < found[j]
  <2> SUFFICES ASSUME NEW i \in 1 .. m, NEW j \in 1 .. m, i < j PROVE found[i] < found[j]
    OBVIOUS
  <2>1. found[i] \in s /\ found[j] \in s /\ Rank(s, found[i]) = i /\ Rank(s, found[j]) = j
    BY <1>8
  <2>2. found[i] \in Nat /\ found[j] \in Nat
    BY <1>2, <2>1
  <2>3. ~(found[j] < found[i]) /\ found[j] # found[i]
    BY <1>5, <1>11, <2>1
  <2> QED
    BY <2>2, <2>3
<1>15. \A k \in s : (m < n \/ \E i \in 1 .. m : k <= found[i]) => \E i \in 1 .. m : found[i] = k
  <2> SUFFICES ASSUME NEW k \in s, m < n \/ \E i \in 1 .. m : k <= found[i]
               PROVE  \E i \in 1 .. m : found[i] = k
    OBVIOUS
  <2>1. Rank(s, k) \in 1 .. m
    <3>1. CASE m < n
      BY <1>5, <1>12, <3>1
    <3>2. CASE \E i \in 1 .. m : k <= found[i]
      <4>1. PICK i \in 1 .. m : k <= found[i]
        BY <3>2
      <4>2. found[i] \in s /\ Rank(s, found[i]) = i /\ found[i] \in Nat /\ k \in Nat
        BY <1>2, <1>8
      <4>3. k < found[i] => Rank(s, k) < i
        BY <1>11, <4>2
      <4>4. k < found[i] \/ k = found[i]
        BY <4>1, <4>2
      <4>5. Rank(s, k) <= i
        BY <1>3, <1>5, <1>12, <4>2, <4>3, <4>4
      <4> QED
        BY <1>3, <1>5, <1>12, <4>5
    <3> QED
      BY <3>1, <3>2
  <2> QED
    BY <1>8, <1>13, <2>1
<1>16. \A k : k \in s <=> k \in index /\ (k > from \/ (included /\ k = from))
  BY <1>1
<1> HIDE DEF after
<1> QED
  BY <1>5, <1>8, <1>10, <1>14, <1>15, <1>16

-----------------------------------------------------------------------------
(* Listings: what the client has been told, and up to which name.          *)

ListSpec == ListInit /\ [][ListNext]_listVars

\* What a prefix and a delimiter make of names: a key that starts with the
\* prefix holds it, and the names of a common prefix are an interval that
\* begins with the common prefix itself.
ViewOK(v) ==
    /\ v.lo \in Nat /\ v.hi \in Nat
    /\ \A k \in Keys : v.group[k] \in Nat
    /\ \A k \in Keys : Starts(v, k) => Holds(v, k)
    /\ \A k \in Keys : Starts(v, k) /\ v.group[k] # 0 =>
        /\ v.end[v.group[k]] \in Nat
        /\ v.lo <= v.group[k] /\ v.group[k] <= k /\ k <= v.end[v.group[k]]
        /\ \A j \in Keys : Starts(v, j) =>
            /\ v.group[k] <= j /\ j <= v.end[v.group[k]] => v.group[j] = v.group[k]
            /\ v.group[j] # 0 /\ v.group[j] # v.group[k] =>
                  v.end[v.group[j]] < v.group[k] \/ v.end[v.group[k]] < v.group[j]

ListKinds == {"objects", "uploads", "parts", "buckets", "kvs"}

\* The requests are the five listings': parts and buckets have no delimiter,
\* parts no prefix, and buckets are read from the account's prefix on.  Pages
\* of uploads and parts are of one entry at least, and the keys of an index
\* fit a message.
ListingsWellFormed ==
    /\ \A r \in Requests :
        /\ r.kind \in ListKinds /\ r.max \in Nat /\ r.start \in Nat /\ ViewOK(r.view)
        /\ r.kind \in {"uploads", "parts"} => r.max # 0
        /\ r.kind \in {"parts", "buckets"} => \A k \in Keys : r.view.group[k] = 0
        /\ r.kind = "parts" => r.view.lo = 0
        /\ r.kind = "buckets" => r.view.lo <= r.start
    /\ "kvs" \notin BigKinds

HistoryOK(h) == h.asked \in Requests /\ h.stable \subseteq h.ever /\ h.ever \subseteq Keys

\* The keys ks and the common prefixes gs of a listing that has come to p, on
\* a page that began at m, are in order and were there.
Sound(h, ks, gs, m, p) ==
    LET v == h.asked.view
    IN  /\ ks \in Seq(Keys)
        /\ \A i, j \in 1 .. Len(ks) : i < j => ks[i] < ks[j]
        /\ \A i \in 1 .. Len(ks) : ks[i] <= p /\ ks[i] \in h.ever /\ Holds(v, ks[i])
        /\ \A g \in gs : g # 0 /\ \E k \in h.ever : v.group[k] = g /\ Starts(v, k)
        /\ h.asked.kind = "buckets" => h.asked.start <= p
        /\ h.asked.kind = "objects" =>
            /\ m <= p
            /\ \A i \in 1 .. Len(ks) : Starts(v, ks[i]) /\ v.group[ks[i]] = 0
            /\ \A g \in gs : v.end[g] <= p \/ g = m
            /\ \A k \in Keys : Starts(v, k) /\ v.group[k] = m /\ m # 0 => m \in gs \cup {h.asked.start}

Wanted(h, k) == k \in h.stable \ Corrupt /\ Starts(h.asked.view, k) /\ k > h.asked.start
IsTold(h, ks, gs, k) ==
    IF h.asked.view.group[k] = 0 THEN \E i \in 1 .. Len(ks) : ks[i] = k
    ELSE h.asked.view.group[k] \in gs \cup {h.asked.start}

\* All of what is wanted has been told, up to p; and all of it.
Upto(h, ks, gs, p) == \A k \in h.stable : Wanted(h, k) /\ k <= p => IsTold(h, ks, gs, k)
AllTold(h, ks, gs) == \A k \in h.stable : Wanted(h, k) => IsTold(h, ks, gs, k)

\* Nothing that stays lies between two names.
Clear(h, p, q) == \A k \in h.stable : ~(p < k /\ k < q)

LEMMA SoundFurther ==
    ASSUME ListingsWellFormed, NEW h, HistoryOK(h), NEW ks, NEW gs, NEW m \in Nat, NEW p \in Nat, NEW q \in Nat, p <= q,
           Sound(h, ks, gs, m, p)
    PROVE  Sound(h, ks, gs, m, q)
<1> DEFINE v == h.asked.view
<1>1. \A i \in 1 .. Len(ks) : ks[i] \in Nat /\ ks[i] <= q
  <2>1. \A i \in 1 .. Len(ks) : ks[i] \in Keys /\ ks[i] <= p
    BY DEF Sound, HistoryOK
  <2>2. \A i \in 1 .. Len(ks) : ks[i] \in Nat
    BY <2>1, ListingAssumption
  <2> QED
    BY <2>1, <2>2
<1>2. h.asked.kind = "objects" => \A g \in gs : v.end[g] <= q \/ g = m
  <2> SUFFICES ASSUME h.asked.kind = "objects", NEW g \in gs, g # m PROVE v.end[g] <= q
    OBVIOUS
  <2>1. v.end[g] <= p
    BY DEF Sound
  <2>2. PICK k \in Keys : v.group[k] = g /\ Starts(v, k) /\ g # 0
    BY DEF Sound, HistoryOK
  <2>3. v.end[g] \in Nat
    BY <2>2 DEF ListingsWellFormed, ViewOK, HistoryOK
  <2> QED
    BY <2>1, <2>3
<1>3. h.asked.kind = "buckets" => h.asked.start <= q
  <2>1. h.asked.start \in Nat
    BY DEF HistoryOK, ListingsWellFormed
  <2> QED
    BY <2>1 DEF Sound
<1> QED
  BY <1>1, <1>2, <1>3 DEF Sound

\* A key is listed.
LEMMA SoundKey ==
    ASSUME ListingsWellFormed, NEW h, HistoryOK(h), NEW ks, NEW gs, NEW m \in Nat, NEW p \in Nat, NEW k \in h.ever, p < k,
           Sound(h, ks, gs, m, p), Holds(h.asked.view, k),
           h.asked.kind = "objects" => Starts(h.asked.view, k) /\ h.asked.view.group[k] = 0
    PROVE  Sound(h, Append(ks, k), gs, m, k)
<1> DEFINE v == h.asked.view
           ls2 == Append(ks, k)
<1>1. k \in Keys /\ k \in Nat
  BY ListingAssumption DEF HistoryOK
<1>2. Sound(h, ks, gs, m, k)
  BY <1>1, SoundFurther
<1>3. ks \in Seq(Keys) /\ Len(ks) \in Nat
  BY DEF Sound
<1>4. ls2 \in Seq(Keys) /\ Len(ls2) = Len(ks) + 1
      /\ (\A i \in 1 .. Len(ks) : ls2[i] = ks[i]) /\ ls2[Len(ks) + 1] = k
  BY <1>1, <1>3, AppendProperties
<1>5. \A i \in 1 .. Len(ks) : ks[i] < k
  <2>0. \A i \in 1 .. Len(ks) : ks[i] <= p /\ ks[i] \in Keys
    BY DEF Sound, HistoryOK
  <2>1. \A i \in 1 .. Len(ks) : ks[i] <= p /\ ks[i] \in Nat
    BY <2>0, ListingAssumption
  <2> QED
    BY <1>1, <2>1
<1> HIDE DEF ls2
<1>6. \A i, j \in 1 .. Len(ls2) : i < j => ls2[i] < ls2[j]
  BY <1>3, <1>4, <1>5 DEF Sound
<1>7. \A i \in 1 .. Len(ls2) : i \in 1 .. Len(ks) \/ i = Len(ks) + 1
  BY <1>3, <1>4
<1>8. \A i \in 1 .. Len(ls2) : ls2[i] <= k /\ ls2[i] \in h.ever /\ Holds(v, ls2[i])
  BY <1>1, <1>2, <1>4, <1>7 DEF Sound
<1>9. h.asked.kind = "objects" => \A i \in 1 .. Len(ls2) : Starts(v, ls2[i]) /\ v.group[ls2[i]] = 0
  BY <1>2, <1>4, <1>7 DEF Sound
<1>10. Sound(h, ls2, gs, m, k)
  BY <1>2, <1>4, <1>6, <1>8, <1>9 DEF Sound
<1> QED
  BY <1>10 DEF ls2

\* A common prefix is listed by a request that does not skip its keys.
LEMMA SoundGroup ==
    ASSUME ListingsWellFormed, NEW h, HistoryOK(h), NEW ks, NEW gs, NEW m \in Nat, NEW p \in Nat, NEW k \in h.ever, p < k,
           Sound(h, ks, gs, m, p), h.asked.kind # "objects",
           Starts(h.asked.view, k), h.asked.view.group[k] # 0
    PROVE  Sound(h, ks, gs \cup {h.asked.view.group[k]}, m, k)
<1>1. k \in Nat
  BY ListingAssumption DEF HistoryOK
<1>2. Sound(h, ks, gs, m, k)
  BY <1>1, SoundFurther
<1> QED
  BY <1>2 DEF Sound

\* A common prefix is listed, and its keys skipped.
LEMMA SoundRollUp ==
    ASSUME ListingsWellFormed, NEW h, HistoryOK(h), NEW ks, NEW gs, NEW m \in Nat, NEW p \in Nat, NEW k \in h.ever, p < k,
           Sound(h, ks, gs, m, p), h.asked.kind = "objects", Starts(h.asked.view, k),
           NEW g, g = h.asked.view.group[k], g # 0
    PROVE  /\ h.asked.view.end[g] \in Nat /\ k <= h.asked.view.end[g] /\ g \in Nat
           /\ Sound(h, ks, IF g = m THEN gs ELSE gs \cup {g}, m, h.asked.view.end[g])
           /\ g # m => g \notin gs
<1> DEFINE v == h.asked.view
<1>1. k \in Nat /\ k \in Keys /\ ViewOK(v)
  BY ListingAssumption DEF HistoryOK, ListingsWellFormed
<1>2. v.end[g] \in Nat /\ k <= v.end[g] /\ g \in Nat
  BY <1>1 DEF ViewOK
<1>3. Sound(h, ks, gs, m, v.end[g])
  BY <1>1, <1>2, SoundFurther
<1>4. g # m => g \notin gs
  BY <1>1, <1>2 DEF Sound
<1>5. Sound(h, ks, IF g = m THEN gs ELSE gs \cup {g}, m, v.end[g])
  BY <1>2, <1>3 DEF Sound
<1> QED
  BY <1>2, <1>4, <1>5

\* A page that ends with a key is followed by one that begins there.
LEMMA SoundTurnKey ==
    ASSUME ListingsWellFormed, NEW h, HistoryOK(h), NEW ks, NEW gs, NEW m \in Nat, NEW k \in Keys, m < k,
           Sound(h, ks, gs, m, k),
           h.asked.kind = "objects" => Starts(h.asked.view, k) /\ h.asked.view.group[k] = 0
    PROVE  Sound(h, ks, gs, k, k)
<1> DEFINE v == h.asked.view
<1>1. CASE h.asked.kind # "objects"
  BY <1>1 DEF Sound
<1>2. CASE h.asked.kind = "objects"
  <2>1. k \in Nat /\ ViewOK(v) /\ Starts(v, k) /\ v.group[k] = 0
    BY <1>2, ListingAssumption DEF HistoryOK, ListingsWellFormed
  <2>2. \A g \in gs : v.end[g] <= k
    <3> SUFFICES ASSUME NEW g \in gs, g = m PROVE v.end[g] <= k
      BY <1>2 DEF Sound
    <3>1. PICK j \in Keys : v.group[j] = g /\ Starts(v, j) /\ g # 0
      BY DEF Sound, HistoryOK
    <3>2. v.end[g] \in Nat /\ (g <= k /\ k <= v.end[g] => v.group[k] = g)
      BY <2>1, <3>1 DEF ViewOK
    <3>3. g <= k
      BY <2>1
    <3> QED
      BY <2>1, <3>1, <3>2, <3>3
  <2>3. \A j \in Keys : Starts(v, j) /\ k # 0 => v.group[j] # k
    <3> SUFFICES ASSUME NEW j \in Keys, Starts(v, j), k # 0, v.group[j] = k PROVE FALSE
      OBVIOUS
    <3>1. k <= v.end[k] /\ k <= k
      <4>1. v.group[j] <= j /\ j <= v.end[v.group[j]] /\ v.end[v.group[j]] \in Nat /\ j \in Nat
        BY <2>1, ListingAssumption DEF ViewOK
      <4> QED
        BY <2>1, <4>1
    <3> QED
      BY <2>1, <3>1 DEF ViewOK
  <2> QED
    BY <1>2, <2>1, <2>2, <2>3 DEF Sound
<1> QED
  BY <1>1, <1>2

\* A page of objects that ends with a common prefix is followed by one that
\* begins there.
LEMMA SoundTurnGroup ==
    ASSUME ListingsWellFormed, NEW h, HistoryOK(h), NEW ks, NEW gs, NEW m \in Nat, NEW g \in gs,
           h.asked.kind = "objects", Sound(h, ks, gs, m, h.asked.view.end[g])
    PROVE  g \in Nat /\ g # 0 /\ g <= h.asked.view.end[g] /\ Sound(h, ks, gs, g, g)
<1> DEFINE v == h.asked.view
<1>1. PICK k \in Keys : v.group[k] = g /\ Starts(v, k) /\ g # 0
  BY DEF Sound, HistoryOK
<1>2. ViewOK(v) /\ k \in Nat
  BY ListingAssumption DEF HistoryOK, ListingsWellFormed
<1>3. g \in Nat /\ v.end[g] \in Nat /\ g <= k /\ k <= v.end[g]
  BY <1>1, <1>2 DEF ViewOK
<1>4. \A j \in Keys : Starts(v, j) /\ g <= j /\ j <= v.end[g] => v.group[j] = g
  BY <1>1, <1>2 DEF ViewOK
<1>5. \A i \in 1 .. Len(ks) : ks[i] <= g
  <2> SUFFICES ASSUME NEW i \in 1 .. Len(ks) PROVE ks[i] <= g
    OBVIOUS
  <2>1. ks[i] \in Keys /\ ks[i] <= v.end[g] /\ Starts(v, ks[i]) /\ v.group[ks[i]] = 0
    BY DEF Sound, HistoryOK
  <2>2. ks[i] \in Nat
    BY <2>1, ListingAssumption
  <2> QED
    BY <1>1, <1>3, <1>4, <2>1, <2>2
<1>6. \A f \in gs : v.end[f] <= g \/ f = g
  <2> SUFFICES ASSUME NEW f \in gs, f # g PROVE v.end[f] <= g
    OBVIOUS
  <2>1. PICK j \in Keys : v.group[j] = f /\ Starts(v, j) /\ f # 0
    BY DEF Sound, HistoryOK
  <2>2. f \in Nat /\ v.end[f] \in Nat /\ f <= v.end[f]
    <3>1. f <= j /\ j <= v.end[f] /\ v.end[f] \in Nat /\ f \in Nat /\ j \in Nat
      BY <1>2, <2>1, ListingAssumption DEF ViewOK
    <3> QED
      BY <3>1
  <2>3. v.end[f] < g \/ v.end[g] < f
    BY <1>1, <1>2, <2>1 DEF ViewOK
  <2>4. v.end[f] <= v.end[g] \/ f <= v.end[g]
    BY DEF Sound
  <2> QED
    BY <1>3, <2>2, <2>3, <2>4
<1>7. g <= v.end[g]
  BY <1>2, <1>3
<1>8. Sound(h, ks, gs, g, g)
  BY <1>3, <1>5, <1>6 DEF Sound
<1> QED
  BY <1>1, <1>3, <1>7, <1>8

Extends(ks, gs, ks2, gs2) ==
    gs \subseteq gs2 /\ \A i \in 1 .. Len(ks) : \E j \in 1 .. Len(ks2) : ks2[j] = ks[i]

LEMMA ToldStays ==
    ASSUME NEW h, NEW ks, NEW gs, NEW ks2, NEW gs2, Extends(ks, gs, ks2, gs2), NEW k, IsTold(h, ks, gs, k)
    PROVE  IsTold(h, ks2, gs2, k)
<1>1. CASE h.asked.view.group[k] = 0
  <2>1. PICK i \in 1 .. Len(ks) : ks[i] = k
    BY <1>1 DEF IsTold
  <2> QED
    BY <1>1, <2>1 DEF IsTold, Extends
<1>2. CASE h.asked.view.group[k] # 0
  BY <1>2 DEF IsTold, Extends
<1> QED
  BY <1>1, <1>2

LEMMA AppendExtends ==
    ASSUME NEW ks \in Seq(Keys), NEW gs, NEW k \in Keys
    PROVE  Extends(ks, gs, Append(ks, k), gs) /\ \E i \in 1 .. Len(Append(ks, k)) : Append(ks, k)[i] = k
<1>1. Len(Append(ks, k)) = Len(ks) + 1 /\ Len(ks) \in Nat
      /\ (\A i \in 1 .. Len(ks) : Append(ks, k)[i] = ks[i]) /\ Append(ks, k)[Len(ks) + 1] = k
  BY AppendProperties
<1>2. Len(ks) + 1 \in 1 .. Len(Append(ks, k)) /\ \A i \in 1 .. Len(ks) : i \in 1 .. Len(Append(ks, k))
  BY <1>1
<1> QED
  BY <1>1, <1>2 DEF Extends

\* The next key is told, or need not be.
LEMMA UptoNext ==
    ASSUME NEW h, HistoryOK(h), NEW ks, NEW gs, NEW ks2, NEW gs2, NEW p \in Nat, NEW k \in Nat,
           Upto(h, ks, gs, p), Clear(h, p, k), Extends(ks, gs, ks2, gs2),
           Wanted(h, k) => IsTold(h, ks2, gs2, k)
    PROVE  Upto(h, ks2, gs2, k)
<1> SUFFICES ASSUME NEW j \in h.stable, Wanted(h, j), j <= k PROVE IsTold(h, ks2, gs2, j)
  BY DEF Upto
<1>1. j \in Nat
  BY ListingAssumption DEF HistoryOK
<1>2. CASE j = k
  BY <1>2
<1>3. CASE j # k
  <2>1. j <= p
    BY <1>1, <1>3 DEF Clear
  <2>2. IsTold(h, ks, gs, j)
    BY <2>1 DEF Upto
  <2> QED
    BY <2>2, ToldStays
<1> QED
  BY <1>2, <1>3

\* The keys of a common prefix are told with it.
LEMMA UptoRollUp ==
    ASSUME ListingsWellFormed, NEW h, HistoryOK(h), NEW ks, NEW gs, NEW m, NEW p \in Nat, NEW k \in Keys,
           Sound(h, ks, gs, m, p), h.asked.kind = "objects",
           Starts(h.asked.view, k), NEW g, g = h.asked.view.group[k], g # 0,
           Upto(h, ks, gs, p), Clear(h, p, k)
    PROVE  Upto(h, ks, IF g = m THEN gs ELSE gs \cup {g}, h.asked.view.end[g])
<1> DEFINE v == h.asked.view
           gs2 == IF g = m THEN gs ELSE gs \cup {g}
<1>1. g \in gs2 \cup {h.asked.start}
  BY DEF Sound
<1>2. Extends(ks, gs, ks, gs2)
  BY DEF Extends
<1> HIDE DEF gs2
<1> SUFFICES ASSUME NEW j \in h.stable, Wanted(h, j), j <= v.end[g] PROVE IsTold(h, ks, gs2, j)
  BY DEF Upto, gs2
<1>3. j \in Nat /\ j \in Keys /\ Starts(v, j) /\ k \in Nat /\ ViewOK(v)
  BY ListingAssumption DEF HistoryOK, Wanted, ListingsWellFormed
<1>4. CASE j <= p
  <2>1. IsTold(h, ks, gs, j)
    BY <1>4 DEF Upto
  <2> QED
    BY <1>2, <2>1, ToldStays
<1>5. CASE ~(j <= p)
  <2>1. k <= j
    BY <1>3, <1>5 DEF Clear
  <2>2. g <= k /\ g \in Nat
    BY <1>3 DEF ViewOK
  <2>3. g <= j
    BY <1>3, <2>1, <2>2
  <2>4. v.group[j] = g
    BY <1>3, <2>3 DEF ViewOK
  <2> QED
    BY <1>1, <2>4 DEF IsTold
<1> QED
  BY <1>4, <1>5

LEMMA UptoLess ==
    ASSUME NEW h, HistoryOK(h), NEW ks, NEW gs, NEW p \in Nat, NEW q \in Nat, q <= p, Upto(h, ks, gs, p)
    PROVE  Upto(h, ks, gs, q)
<1>1. \A k \in h.stable : k \in Nat
  BY ListingAssumption DEF HistoryOK
<1> QED
  BY <1>1 DEF Upto

LEMMA UptoEnd ==
    ASSUME NEW h, HistoryOK(h), NEW ks, NEW gs, NEW p \in Nat, Upto(h, ks, gs, p),
           \A k \in h.stable : Wanted(h, k) => k <= p
    PROVE  AllTold(h, ks, gs)
BY DEF Upto, AllTold

\* Other requests change the index.
Disturbed(h, h2) ==
    h2.asked = h.asked /\ h2.stable \subseteq h.stable /\ h.ever \subseteq h2.ever

LEMMA DisturbedStays ==
    ASSUME NEW h, NEW h2, Disturbed(h, h2), NEW ks, NEW gs
    PROVE  /\ \A m, p : Sound(h, ks, gs, m, p) => Sound(h2, ks, gs, m, p)
           /\ \A p : Upto(h, ks, gs, p) => Upto(h2, ks, gs, p)
           /\ AllTold(h, ks, gs) => AllTold(h2, ks, gs)
<1>1. \A m, p : Sound(h, ks, gs, m, p) => Sound(h2, ks, gs, m, p)
  BY DEF Sound, Disturbed
<1>2. \A k : Wanted(h2, k) => Wanted(h, k)
  BY DEF Wanted, Disturbed
<1>3. \A k : IsTold(h, ks, gs, k) => IsTold(h2, ks, gs, k)
  BY DEF IsTold, Disturbed
<1>4. \A k \in h2.stable : k \in h.stable
  BY DEF Disturbed
<1> QED
  BY <1>1, <1>2, <1>3, <1>4 DEF Upto, AllTold

-----------------------------------------------------------------------------
(* Listings: the inductive invariant.                                      *)

PagePcs == {"start", "lookup", "fetch", "fetched", "answered", "failed", "gone"}
FinSets == {s \in SUBSET Nat : IsFiniteSet(s)}
Pages ==
    [kind : ListKinds, view : {r.view : r \in Requests}, max : Nat, marker : Nat, pc : PagePcs,
     last : Nat, first : BOOLEAN, included : BOOLEAN, checkMore : BOOLEAN, saved : Nat,
     fetch : Nat \ {0}, count : Nat, retries : Nat, big : BOOLEAN, size : Nat,
     found : Seq(Keys), contents : Seq(Keys), common : FinSets, truncated : BOOLEAN, next : Nat,
     reading : BOOLEAN, connected : BOOLEAN, down : BOOLEAN]
Histories ==
    [asked : Requests, keys : Seq(Keys), groups : Seq(SUBSET Nat), changes : Nat, big : Nat,
     stable : SUBSET Keys, ever : SUBSET Keys]

\* What the client knows once the page is answered.
Told(h, l) == h.keys \o l.contents
ToldGroups(h, l) == (UNION Range(h.groups)) \cup l.common
From(l) == IF l.included THEN l.last - 1 ELSE l.last

Used(l) == IF l.kind = "parts" THEN l.size ELSE Listed(l)
Fits(l) ==
    /\ Paged(l) => Listed(l) <= l.max
    /\ l.kind = "parts" => Len(l.contents) <= l.size /\ l.size <= l.max
Room(l) == Paged(l) /\ l.max # 0 => Used(l) < l.max

GroupsApart(h) ==
    h.asked.kind = "objects" =>
        \A i, j \in 1 .. Len(h.groups) : i < j => h.groups[i] \cap h.groups[j] = {}

Base(h, l) ==
    /\ h \in Histories /\ HistoryOK(h) /\ GroupsApart(h) /\ l \in Pages /\ Fits(l)
    /\ l.kind = h.asked.kind /\ l.view = h.asked.view /\ l.max = h.asked.max /\ l.fetch = h.asked.fetch

\* A page that is being filled and has come to p.
Filled(h, l, p) ==
    /\ Base(h, l) /\ l.pc # "answered"
    /\ l.kind = "objects" => l.common \cap UNION Range(h.groups) = {}
    /\ Sound(h, Told(h, l), ToldGroups(h, l), l.marker, p)
Filling(h, l, p) == Filled(h, l, p) /\ ~l.truncated
Going(c, h, l, p) == Filling(h, l, p) /\ (c => Upto(h, Told(h, l), ToldGroups(h, l), p))

\* The page is full, and its last entry a common prefix.
Checking(l) ==
    /\ l.kind = "objects" /\ l.max # 0 /\ l.saved \in l.common
    /\ l.last = l.view.end[l.saved]

\* The next keys can be read.
Ready(c, h, l) ==
    /\ Going(c, h, l, l.last)
    /\ IF l.checkMore THEN Checking(l) ELSE Room(l)
    /\ l.big => l.count > 1
    /\ FromPrefix(l) => ~l.checkMore /\ Told(h, l) = <<>> /\ ToldGroups(h, l) = {}

Fetching(c, h, l) ==
    /\ From(l) \in Nat /\ Going(c, h, l, From(l))
    /\ IF l.checkMore THEN Checking(l) /\ ~l.included ELSE Room(l)
    /\ l.max # 0 \/ ~Paged(l)
    /\ l.count > 0 /\ ~FromPrefix(l)
    /\ l.included => l.kind = "objects" /\ l.last = l.view.lo

FoundOK(h, l) ==
    /\ Len(l.found) <= l.count
    /\ \A i, j \in 1 .. Len(l.found) : i < j => l.found[i] < l.found[j]
    /\ \A i \in 1 .. Len(l.found) : l.found[i] > From(l) /\ l.found[i] \in h.ever
    /\ \A k \in h.stable :
          /\ k > From(l)
          /\ Len(l.found) < l.count \/ \E i \in 1 .. Len(l.found) : k <= l.found[i]
          => \E i \in 1 .. Len(l.found) : l.found[i] = k

PageEnded(c, h, l) ==
    LET gs == UNION Range(h.groups)
    IN  /\ \E p \in Nat : Sound(h, h.keys, gs, l.marker, p)
        /\ l.truncated =>
            /\ Sound(h, h.keys, gs, l.next, l.next) /\ (c => Upto(h, h.keys, gs, l.next))
            /\ l.kind = "objects" => l.next # 0
        /\ ~l.truncated /\ c /\ l.max # 0 => AllTold(h, h.keys, gs)

PageInv(c, h, l) ==
    /\ Base(h, l)
    /\ l.reading => l.pc \in {"lookup", "fetch", "fetched"}
    /\ l.pc = "start" => Ready(c, h, l) /\ ~l.checkMore /\ ~l.big /\ l.contents = <<>>
    /\ l.pc = "lookup" => /\ Ready(c, h, l) /\ ~l.checkMore /\ ~l.big
                          /\ l.kind = "parts" /\ l.contents = <<>>
    /\ l.pc \in {"fetch", "fetched"} => Fetching(c, h, l)
    /\ l.pc = "fetched" => FoundOK(h, l)
    /\ l.pc \in {"failed", "gone"} => \E p \in Nat : Filled(h, l, p)
    /\ l.pc = "answered" => PageEnded(c, h, l)

\* What is claimed with c is claimed of listings whose reads end well.
PrefixIsNoKey ==
    "objects" \in BigKinds => \A r \in Requests : r.kind = "objects" => r.view.lo \notin Keys

SeenBy(h, l) ==
    IF l.pc # "answered" THEN h
    ELSE [h EXCEPT !.keys = @ \o l.contents,
                   !.groups = IF l.common = {} THEN @ ELSE Append(@, l.common)]

-----------------------------------------------------------------------------
(* Listings: the ends of a page.                                           *)

LEMMA FillFails ==
    ASSUME NEW c, NEW h, NEW l, NEW p \in Nat, Filling(h, l, p), ~l.reading, NEW x \in {"failed", "gone"}
    PROVE  PageInv(c, SeenBy(h, [l EXCEPT !.pc = x]), [l EXCEPT !.pc = x])
<1>1. PICK q : q = [l EXCEPT !.pc = x]
  OBVIOUS
<1>2. l \in Pages
  BY DEF Filling, Filled, Base
<1>3. /\ q \in Pages /\ q.pc = x /\ q.reading = l.reading /\ q.kind = l.kind /\ q.view = l.view
      /\ q.max = l.max /\ q.fetch = l.fetch /\ q.truncated = l.truncated /\ q.marker = l.marker
      /\ q.contents = l.contents /\ q.common = l.common /\ q.size = l.size
  BY <1>1, <1>2 DEF Pages, PagePcs
<1>4. Filling(h, q, p)
  BY <1>3 DEF Filling, Filled, Base, Fits, Paged, Listed, Told, ToldGroups
<1>5. SeenBy(h, q) = h
  BY <1>3 DEF SeenBy
<1>6. PageInv(c, h, q)
  BY <1>3, <1>4 DEF PageInv, Filling, Filled
<1> QED
  BY <1>1, <1>5, <1>6

LEMMA UnionWithOne ==
    ASSUME NEW S, NEW s
    PROVE  UNION (S \cup {s}) = (UNION S) \cup s
<1>1. ASSUME NEW x \in UNION (S \cup {s}) PROVE x \in (UNION S) \cup s
  <2>1. PICK t \in S \cup {s} : x \in t
    BY Zenon
  <2>2. CASE t \in S
    BY <2>1, <2>2
  <2>3. CASE t = s
    BY <2>1, <2>3
  <2> QED
    BY <2>2, <2>3
<1>2. ASSUME NEW x \in (UNION S) \cup s PROVE x \in UNION (S \cup {s})
  <2>1. CASE x \in s
    <3>1. s \in S \cup {s}
      OBVIOUS
    <3> QED
      BY <2>1, <3>1, Zenon
  <2>2. CASE x \in UNION S
    <3>1. PICK t \in S : x \in t
      BY <2>2
    <3> QED
      BY <3>1
  <2> QED
    BY <2>1, <2>2
<1> QED
  BY <1>1, <1>2

\* The groups of the page are added to those of the pages before.
LEMMA SeenGroups ==
    ASSUME NEW gs \in Seq(SUBSET Nat), NEW s \in SUBSET Nat, NEW gs2,
           gs2 = IF s = {} THEN gs ELSE Append(gs, s)
    PROVE  /\ gs2 \in Seq(SUBSET Nat) /\ UNION Range(gs2) = (UNION Range(gs)) \cup s
           /\ \A i, j \in 1 .. Len(gs2) : i < j /\ gs2[i] \cap gs2[j] # {} =>
                 \/ i \in 1 .. Len(gs) /\ j \in 1 .. Len(gs) /\ gs[i] \cap gs[j] # {}
                 \/ s \cap UNION Range(gs) # {}
<1>0. Range(gs) = {gs[i] : i \in 1 .. Len(gs)} /\ Len(gs) \in Nat
  BY DEF Range
<1>1. CASE s = {}
  BY <1>1
<1>2. CASE s # {}
  <2>1. gs2 \in Seq(SUBSET Nat) /\ Len(gs2) = Len(gs) + 1 /\ gs2[Len(gs) + 1] = s
        /\ (\A i \in 1 .. Len(gs) : gs2[i] = gs[i]) /\ DOMAIN gs2 = 1 .. Len(gs) + 1
    <3>1. gs2 = Append(gs, s)
      BY <1>2
    <3>2. Append(gs, s) \in Seq(SUBSET Nat) /\ Len(Append(gs, s)) = Len(gs) + 1
          /\ Append(gs, s)[Len(gs) + 1] = s /\ \A i \in 1 .. Len(gs) : Append(gs, s)[i] = gs[i]
      BY AppendProperties
    <3>3. DOMAIN gs2 = 1 .. Len(gs2)
      BY <3>1, <3>2, LenProperties
    <3> QED
      BY <3>1, <3>2, <3>3
  <2>2. Range(gs2) = {gs2[i] : i \in 1 .. Len(gs) + 1}
    BY <2>1 DEF Range
  <2>2a. \A i : i \in 1 .. Len(gs) + 1 <=> i \in 1 .. Len(gs) \/ i = Len(gs) + 1
    BY <1>0
  <2>3. Range(gs2) = Range(gs) \cup {s}
    <3>1. ASSUME NEW x \in Range(gs2) PROVE x \in Range(gs) \cup {s}
      BY <1>0, <2>1, <2>2, <2>2a
    <3>2. ASSUME NEW x \in Range(gs) \cup {s} PROVE x \in Range(gs2)
      BY <1>0, <2>1, <2>2, <2>2a
    <3> QED
      BY <3>1, <3>2
  <2>4. UNION Range(gs2) = (UNION Range(gs)) \cup s
    <3>1. UNION (Range(gs) \cup {s}) = (UNION Range(gs)) \cup s
      BY UnionWithOne
    <3> QED
      BY <2>3, <3>1, Zenon
  <2>5. ASSUME NEW i \in 1 .. Len(gs2), NEW j \in 1 .. Len(gs2), i < j, gs2[i] \cap gs2[j] # {},
               ~(i \in 1 .. Len(gs) /\ j \in 1 .. Len(gs))
        PROVE  s \cap UNION Range(gs) # {}
    <3>1. j = Len(gs) + 1 /\ i \in 1 .. Len(gs)
      BY <1>0, <2>1, <2>5
    <3>2. gs2[j] = s /\ gs2[i] = gs[i] /\ gs[i] \in Range(gs)
      BY <1>0, <2>1, <3>1
    <3> QED
      BY <2>5, <3>2
  <2> QED
    BY <2>1, <2>4, <2>5
<1> QED
  BY <1>1, <1>2

LEMMA SeenTold ==
    ASSUME NEW h, NEW l, NEW p, Filling(h, l, p), NEW q \in Pages, q.pc = "answered",
           q.contents = l.contents, q.common = l.common, NEW h2, h2 = SeenBy(h, q)
    PROVE  /\ h2 \in Histories /\ HistoryOK(h2) /\ Disturbed(h, h2) /\ GroupsApart(h2)
           /\ h2.keys = Told(h, l) /\ UNION Range(h2.groups) = ToldGroups(h, l)
<1>1. h \in Histories /\ HistoryOK(h) /\ GroupsApart(h) /\ l \in Pages /\ l.kind = h.asked.kind
  BY DEF Filling, Filled, Base
<1>2. PICK gs2 : gs2 = IF l.common = {} THEN h.groups ELSE Append(h.groups, l.common)
  OBVIOUS
<1>3. h2 = [h EXCEPT !.keys = h.keys \o l.contents, !.groups = gs2]
  BY <1>2 DEF SeenBy
<1>4. l.common \in SUBSET Nat /\ h.groups \in Seq(SUBSET Nat) /\ l.contents \in Seq(Keys) /\ h.keys \in Seq(Keys)
  BY <1>1 DEF Pages, FinSets, Histories
<1>5. h.keys \o l.contents \in Seq(Keys)
  BY <1>4, ConcatProperties
<1>5a. PICK gs \in Seq(SUBSET Nat), s \in SUBSET Nat : gs = h.groups /\ s = l.common
  BY <1>4
<1>6. /\ gs2 \in Seq(SUBSET Nat) /\ UNION Range(gs2) = (UNION Range(gs)) \cup s
      /\ \A i, j \in 1 .. Len(gs2) : i < j /\ gs2[i] \cap gs2[j] # {} =>
             \/ i \in 1 .. Len(gs) /\ j \in 1 .. Len(gs) /\ gs[i] \cap gs[j] # {}
             \/ s \cap UNION Range(gs) # {}
  <2>1. gs2 = IF s = {} THEN gs ELSE Append(gs, s)
    BY <1>2, <1>5a
  <2> QED
    BY <2>1, SeenGroups
<1>7. h2 \in Histories /\ h2.asked = h.asked /\ h2.stable = h.stable /\ h2.ever = h.ever
      /\ h2.keys = h.keys \o l.contents /\ h2.groups = gs2
  BY <1>1, <1>3, <1>5, <1>6 DEF Histories
<1>8. GroupsApart(h2)
  <2> SUFFICES ASSUME h.asked.kind = "objects", NEW i \in 1 .. Len(gs2), NEW j \in 1 .. Len(gs2), i < j,
                      gs2[i] \cap gs2[j] # {}
               PROVE  FALSE
    BY <1>7 DEF GroupsApart
  <2>1. \/ i \in 1 .. Len(gs) /\ j \in 1 .. Len(gs) /\ gs[i] \cap gs[j] # {}
        \/ s \cap UNION Range(gs) # {}
    BY <1>6, Zenon
  <2>2. l.common \cap UNION Range(h.groups) = {}
    BY <1>1 DEF Filling, Filled
  <2> QED
    BY <1>1, <1>5a, <2>1, <2>2 DEF GroupsApart
<1> QED
  BY <1>1, <1>5a, <1>6, <1>7, <1>8 DEF HistoryOK, Disturbed, Told, ToldGroups

\* Answer: the last page.
LEMMA FillAnswers ==
    ASSUME ListingsWellFormed, NEW c \in BOOLEAN, NEW h, NEW l, NEW p \in Nat, Filling(h, l, p), ~l.reading,
           c /\ l.max # 0 => AllTold(h, Told(h, l), ToldGroups(h, l))
    PROVE  PageInv(c, SeenBy(h, Answer(l)), Answer(l))
<1>1. CASE l.down
  <2>1. Answer(l) = [l EXCEPT !.pc = "failed"]
    BY <1>1 DEF Answer, Fail
  <2>2. PICK x \in {"failed", "gone"} : x = "failed"
    OBVIOUS
  <2>3. PageInv(c, SeenBy(h, [l EXCEPT !.pc = x]), [l EXCEPT !.pc = x])
    BY FillFails, Zenon
  <2> QED
    BY <2>1, <2>2, <2>3
<1>2. CASE ~l.down
  <2>1. PICK q : q = [l EXCEPT !.pc = "answered"]
    OBVIOUS
  <2>2. Answer(l) = q
    BY <1>2, <2>1 DEF Answer
  <2>3. l \in Pages
    BY DEF Filling, Filled, Base
  <2>4. /\ q \in Pages /\ q.pc = "answered" /\ q.reading = l.reading /\ q.kind = l.kind /\ q.view = l.view
        /\ q.max = l.max /\ q.fetch = l.fetch /\ q.truncated = l.truncated /\ q.marker = l.marker
        /\ q.contents = l.contents /\ q.common = l.common /\ q.size = l.size
    BY <2>1, <2>3 DEF Pages, PagePcs
  <2>5. PICK h2 : h2 = SeenBy(h, q)
    OBVIOUS
  <2>6. /\ h2 \in Histories /\ HistoryOK(h2) /\ Disturbed(h, h2) /\ GroupsApart(h2)
        /\ h2.keys = Told(h, l) /\ UNION Range(h2.groups) = ToldGroups(h, l)
    BY <2>4, <2>5, SeenTold
  <2>7. Base(h2, q)
    BY <2>4, <2>6 DEF Filling, Filled, Base, Fits, Paged, Listed, Disturbed
  <2>8. Sound(h, Told(h, l), ToldGroups(h, l), l.marker, p) /\ ~q.truncated
    BY <2>4 DEF Filling, Filled
  <2>8a. PICK ks, gs : ks = Told(h, l) /\ gs = ToldGroups(h, l)
    OBVIOUS
  <2>8b. Disturbed(h, h2) /\ ks = h2.keys /\ gs = UNION Range(h2.groups)
    BY <2>6, <2>8a
  <2>9. Sound(h2, ks, gs, l.marker, p)
    BY <2>8, <2>8a, <2>8b, DisturbedStays, Zenon
  <2>10. c /\ l.max # 0 => AllTold(h2, ks, gs)
    BY <2>8a, <2>8b, DisturbedStays, Zenon
  <2>11. PageEnded(c, h2, q)
    BY <2>4, <2>8, <2>8b, <2>9, <2>10 DEF PageEnded
  <2>12. PageInv(c, h2, q)
    BY <2>4, <2>7, <2>11 DEF PageInv
  <2> QED
    BY <2>2, <2>5, <2>12
<1> QED
  BY <1>1, <1>2

\* Truncate: the next page begins at a name all is told up to.
LEMMA FillTruncates ==
    ASSUME ListingsWellFormed, NEW c \in BOOLEAN, NEW h, NEW l, NEW p \in Nat, Filling(h, l, p), ~l.reading,
           NEW m \in Nat, l.kind = "objects" => m # 0,
           Sound(h, Told(h, l), ToldGroups(h, l), m, m), c => Upto(h, Told(h, l), ToldGroups(h, l), m)
    PROVE  PageInv(c, SeenBy(h, Truncate(l, m)), Truncate(l, m))
<1>0. l \in Pages
  BY DEF Filling, Filled, Base
<1>1. CASE l.down
  <2>1. PICK t : t = [l EXCEPT !.truncated = TRUE, !.next = m]
    OBVIOUS
  <2>2. /\ t \in Pages /\ t.pc = l.pc /\ t.down = l.down /\ t.reading = l.reading /\ t.kind = l.kind
        /\ t.view = l.view /\ t.max = l.max /\ t.fetch = l.fetch /\ t.marker = l.marker
        /\ t.contents = l.contents /\ t.common = l.common /\ t.size = l.size
    BY <1>0, <2>1 DEF Pages
  <2>3. PICK q : q = [t EXCEPT !.pc = "failed"]
    OBVIOUS
  <2>4. Truncate(l, m) = q
    BY <1>1, <2>1, <2>2, <2>3 DEF Truncate, Answer, Fail
  <2>5. /\ q \in Pages /\ q.pc = "failed" /\ q.reading = l.reading /\ q.kind = l.kind
        /\ q.view = l.view /\ q.max = l.max /\ q.fetch = l.fetch /\ q.marker = l.marker
        /\ q.contents = l.contents /\ q.common = l.common /\ q.size = l.size
    BY <2>2, <2>3 DEF Pages, PagePcs
  <2>6. Filled(h, q, p)
    BY <2>5 DEF Filling, Filled, Base, Fits, Paged, Listed, Told, ToldGroups
  <2>7. SeenBy(h, q) = h
    BY <2>5 DEF SeenBy
  <2>8. PageInv(c, h, q)
    BY <2>5, <2>6 DEF PageInv, Filled
  <2> QED
    BY <2>4, <2>7, <2>8
<1>2. CASE ~l.down
  <2>1. PICK q : q = [l EXCEPT !.truncated = TRUE, !.next = m, !.pc = "answered"]
    OBVIOUS
  <2>2. Truncate(l, m) = q
    BY <1>0, <1>2, <2>1 DEF Truncate, Answer, Pages
  <2>4. /\ q \in Pages /\ q.pc = "answered" /\ q.reading = l.reading /\ q.kind = l.kind /\ q.view = l.view
        /\ q.max = l.max /\ q.fetch = l.fetch /\ q.truncated /\ q.marker = l.marker /\ q.next = m
        /\ q.contents = l.contents /\ q.common = l.common /\ q.size = l.size
    BY <1>0, <2>1 DEF Pages, PagePcs
  <2>5. PICK h2 : h2 = SeenBy(h, q)
    OBVIOUS
  <2>6. /\ h2 \in Histories /\ HistoryOK(h2) /\ Disturbed(h, h2) /\ GroupsApart(h2)
        /\ h2.keys = Told(h, l) /\ UNION Range(h2.groups) = ToldGroups(h, l)
    BY <2>4, <2>5, SeenTold
  <2>7. Base(h2, q)
    BY <2>4, <2>6 DEF Filling, Filled, Base, Fits, Paged, Listed, Disturbed
  <2>8. Sound(h, Told(h, l), ToldGroups(h, l), l.marker, p)
    BY DEF Filling, Filled
  <2>8a. PICK ks, gs : ks = Told(h, l) /\ gs = ToldGroups(h, l)
    OBVIOUS
  <2>8b. Disturbed(h, h2) /\ ks = h2.keys /\ gs = UNION Range(h2.groups)
    BY <2>6, <2>8a
  <2>9. Sound(h2, ks, gs, l.marker, p)
    BY <2>8, <2>8a, <2>8b, DisturbedStays, Zenon
  <2>10. Sound(h2, ks, gs, m, m) /\ (c => Upto(h2, ks, gs, m))
    BY <2>8a, <2>8b, DisturbedStays, Zenon
  <2>11. PageEnded(c, h2, q)
    BY <2>4, <2>8b, <2>9, <2>10 DEF PageEnded
  <2>12. PageInv(c, h2, q)
    BY <2>4, <2>7, <2>11 DEF PageInv
  <2> QED
    BY <2>2, <2>5, <2>12
<1> QED
  BY <1>1, <1>2

\* The next keys are asked for.
LEMMA ReadyLaunches ==
    ASSUME ListingsWellFormed, NEW c \in BOOLEAN, NEW h, NEW l, Ready(c, h, l), l.max # 0 \/ ~Paged(l)
    PROVE  PageInv(c, SeenBy(h, Launch(l)), Launch(l))
<1>1. /\ l \in Pages /\ h \in Histories /\ HistoryOK(h) /\ Base(h, l) /\ l.view = h.asked.view
      /\ l.kind = h.asked.kind
  BY DEF Ready, Going, Filling, Filled, Base
<1>2. RecordCount(l) \in Nat /\ RecordCount(l) > 0
  <2>1. l.count \in Nat /\ l.fetch \in Nat \ {0} /\ l.retries \in Nat /\ l.big \in BOOLEAN
    BY <1>1 DEF Pages
  <2>2. l.big => l.count > 1
    BY DEF Ready
  <2>3. l.count > 1 => l.count \div 2 \in Nat /\ l.count \div 2 > 0
    BY <2>1
  <2>4. CASE l.big /\ l.retries > MaxRetryCount
    BY <2>1, <2>4 DEF RecordCount, MaxRetryCount
  <2>5. CASE l.big /\ l.retries <= MaxRetryCount
    BY <2>1, <2>2, <2>3, <2>5 DEF RecordCount, MaxRetryCount
  <2>6. CASE ~l.big
    BY <2>1, <2>6 DEF RecordCount
  <2> QED
    BY <2>1, <2>4, <2>5, <2>6 DEF MaxRetryCount
<1>3. ViewOK(l.view) /\ l.view.lo \in Nat
  BY <1>1 DEF HistoryOK, ListingsWellFormed, ViewOK
<1>4. PICK n \in Nat : n = RecordCount(l) /\ n > 0
  BY <1>2
<1>5. PICK b \in BOOLEAN : b = FromPrefix(l)
  BY DEF FromPrefix
<1>6. PICK x \in Nat : x = IF b THEN l.view.lo ELSE l.last
  BY <1>1, <1>3 DEF Pages
<1>7. PICK q : q = Launch(l)
  OBVIOUS
<1>7a. PICK f \in BOOLEAN : f = (l.first /\ ~b)
  OBVIOUS
<1>8. q = [l EXCEPT !.pc = "fetch", !.reading = TRUE, !.count = n, !.first = f,
                    !.included = b, !.last = x]
  BY <1>4, <1>5, <1>6, <1>7, <1>7a, Zenon DEF Launch
<1>9. /\ q \in Pages /\ q.pc = "fetch" /\ q.reading /\ q.kind = l.kind /\ q.view = l.view
      /\ q.max = l.max /\ q.fetch = l.fetch /\ q.truncated = l.truncated /\ q.marker = l.marker
      /\ q.contents = l.contents /\ q.common = l.common /\ q.size = l.size /\ q.count = n
      /\ q.first = f /\ q.included = b /\ q.last = x /\ q.checkMore = l.checkMore
      /\ q.saved = l.saved
  BY <1>1, <1>8 DEF Pages, PagePcs
<1>10. Base(h, q)
  BY <1>1, <1>9 DEF Base, Fits, Paged, Listed
<1>11. Told(h, q) = Told(h, l) /\ ToldGroups(h, q) = ToldGroups(h, l) /\ (Room(l) => Room(q)) /\ ~FromPrefix(q)
  BY <1>5, <1>7a, <1>9 DEF Told, ToldGroups, Room, Paged, Used, Listed, FromPrefix
<1>12. CASE ~b
  <2>1. From(q) = l.last /\ l.last \in Nat /\ x = l.last
    BY <1>1, <1>6, <1>9, <1>12 DEF From, Pages
  <2>2. Going(c, h, q, From(q))
    BY <1>9, <1>10, <1>11, <2>1 DEF Ready, Going, Filling, Filled
  <2>3. IF q.checkMore THEN Checking(q) /\ ~q.included ELSE Room(q)
    BY <1>9, <1>11, <1>12, <2>1 DEF Ready, Checking
  <2>4. Fetching(c, h, q)
    BY <1>4, <1>9, <1>11, <1>12, <2>1, <2>2, <2>3 DEF Fetching, Paged
  <2> QED
    BY <1>7, <1>9, <1>10, <2>4 DEF PageInv, SeenBy
<1>13. CASE b
  <2>0. l.kind = "objects" /\ l.view.lo # 0 /\ l.marker = 0 /\ ~l.checkMore /\ Room(l)
        /\ Told(h, l) = <<>> /\ ToldGroups(h, l) = {}
    BY <1>5, <1>13 DEF Ready, FromPrefix
  <2>1. PICK y \in Nat : y = l.view.lo - 1 /\ x = l.view.lo
    BY <1>3, <1>6, <1>13, <2>0
  <2>1a. From(q) = y
    BY <1>9, <1>13, <2>1 DEF From
  <2>2. Sound(h, <<>>, {}, 0, l.last) /\ ~l.truncated
        /\ (l.kind = "objects" => l.common \cap UNION Range(h.groups) = {})
    BY <2>0 DEF Ready, Going, Filling, Filled
  <2>3. Sound(h, <<>>, {}, 0, y)
    BY <1>1, <2>0, <2>1, <2>2 DEF Sound
  <2>4. Upto(h, <<>>, {}, y)
    <3> SUFFICES ASSUME NEW k \in h.stable, Wanted(h, k), k <= y PROVE FALSE
      BY DEF Upto
    <3>1. k \in Nat /\ Starts(l.view, k)
      BY <1>1, ListingAssumption DEF HistoryOK, Wanted
    <3> QED
      BY <1>3, <2>0, <2>1, <3>1 DEF Starts
  <2>5. Going(c, h, q, y)
    BY <1>9, <1>10, <1>11, <2>0, <2>2, <2>3, <2>4 DEF Going, Filling, Filled
  <2>6. Fetching(c, h, q)
    BY <1>4, <1>9, <1>11, <1>13, <2>0, <2>1, <2>1a, <2>5 DEF Fetching, Paged
  <2> QED
    BY <1>7, <1>9, <1>10, <2>6 DEF PageInv, SeenBy
<1> QED
  BY <1>12, <1>13

LEMMA ReadyReads ==
    ASSUME ListingsWellFormed, NEW c \in BOOLEAN, NEW h, NEW l, Ready(c, h, l), ~l.reading
    PROVE  /\ l.kind = "objects" => PageInv(c, SeenBy(h, GetNextObjects(l)), GetNextObjects(l))
           /\ l.kind = "uploads" => PageInv(c, SeenBy(h, GetNextUploads(l)), GetNextUploads(l))
           /\ l.kind = "parts" => PageInv(c, SeenBy(h, GetNextParts(l)), GetNextParts(l))
           /\ l.kind = "buckets" => PageInv(c, SeenBy(h, GetNextBuckets(l)), GetNextBuckets(l))
           /\ l.kind = "kvs" => PageInv(c, SeenBy(h, GetNextKeyValue(l)), GetNextKeyValue(l))
<1>1. Filling(h, l, l.last) /\ l \in Pages /\ HistoryOK(h) /\ l.kind = h.asked.kind /\ l.max = h.asked.max
  BY DEF Ready, Going, Filling, Filled, Base
<1>2. PICK p \in Nat : p = l.last
  BY <1>1 DEF Pages
<1>3. Filling(h, l, p)
  BY <1>1, <1>2
<1>4. PICK x \in {"failed", "gone"}, y \in {"failed", "gone"} : x = "failed" /\ y = "gone"
  OBVIOUS
<1>5. PageInv(c, SeenBy(h, Fail(l)), Fail(l)) /\ PageInv(c, SeenBy(h, Leave(l)), Leave(l))
  <2>1. PageInv(c, SeenBy(h, [l EXCEPT !.pc = x]), [l EXCEPT !.pc = x])
    BY <1>3, FillFails, Zenon
  <2>2. PageInv(c, SeenBy(h, [l EXCEPT !.pc = y]), [l EXCEPT !.pc = y])
    BY <1>3, FillFails, Zenon
  <2> QED
    BY <1>4, <2>1, <2>2 DEF Fail, Leave
<1>6. l.max = 0 => PageInv(c, SeenBy(h, Answer(l)), Answer(l))
  BY <1>3, FillAnswers
<1>7. l.max # 0 \/ ~Paged(l) => PageInv(c, SeenBy(h, Launch(l)), Launch(l))
  BY ReadyLaunches
<1>8. l.kind \in {"uploads", "parts"} => l.max # 0
  BY <1>1 DEF HistoryOK, ListingsWellFormed
<1>9. l.kind = "objects" => PageInv(c, SeenBy(h, GetNextObjects(l)), GetNextObjects(l))
  BY <1>5, <1>6, <1>7 DEF GetNextObjects
<1>10. l.kind = "kvs" => PageInv(c, SeenBy(h, GetNextKeyValue(l)), GetNextKeyValue(l))
  BY <1>6, <1>7 DEF GetNextKeyValue
<1>11. l.kind = "buckets" => ~Paged(l)
  BY DEF Paged
<1> QED
  BY <1>5, <1>7, <1>8, <1>9, <1>10, <1>11 DEF GetNextUploads, GetNextParts, GetNextBuckets

-----------------------------------------------------------------------------
(* Listings: one key of the loop.                                          *)

Same(l, q) ==
    /\ l.kind = q.kind /\ l.view = q.view /\ l.max = q.max /\ l.fetch = q.fetch
    /\ l.marker = q.marker /\ l.pc = q.pc /\ l.first = q.first /\ l.included = q.included
    /\ l.checkMore = q.checkMore /\ l.count = q.count /\ l.big = q.big
    /\ l.truncated = q.truncated /\ l.reading = q.reading

\* The page when the keys of a read are looked at.
ReadingKeys(c, h, q, keys) ==
    /\ From(q) \in Nat /\ Going(c, h, q, From(q)) /\ Room(q) /\ (q.max # 0 \/ ~Paged(q))
    /\ ~q.checkMore /\ ~q.reading /\ ~q.big /\ ~FromPrefix(q)
    /\ keys \in Seq(Keys) /\ Len(keys) # 0 /\ Len(keys) <= q.count
    /\ \A i, j \in 1 .. Len(keys) : i < j => keys[i] < keys[j]
    /\ \A i \in 1 .. Len(keys) : keys[i] > From(q) /\ keys[i] \in h.ever
    /\ \A k \in h.stable :
          k > From(q) /\ (Len(keys) < q.count \/ \E i \in 1 .. Len(keys) : k <= keys[i])
          => \E i \in 1 .. Len(keys) : keys[i] = k

Pos(q, keys, i) == IF i = 0 THEN From(q) ELSE keys[i]

\* The loop after i keys: going on, past the prefix, at a common prefix to
\* skip, or at the end of the read or of the page.
WalkOn(c, h, q, keys, i, a) ==
    /\ a.left = Len(keys) - i /\ ~a.skip /\ ~a.past
    /\ Going(c, h, a.l, Pos(q, keys, i)) /\ Room(a.l)
    /\ i # 0 /\ i = Len(keys) =>
          IF q.kind = "buckets" THEN a.l.last = keys[i] ELSE q.kind = "uploads" /\ keys[i] \in Corrupt
WalkPast(c, h, q, a) ==
    /\ \E p \in Nat : Filling(h, a.l, p)
    /\ c => AllTold(h, Told(h, a.l), ToldGroups(h, a.l))
    /\ q.kind = "buckets" \/ (q.kind = "objects" /\ a.left = 0 /\ ~a.skip)
WalkSkips(c, h, q, a) ==
    /\ q.kind = "objects" /\ Going(c, h, a.l, a.l.last) /\ a.left # 0
    /\ Full(a.l) => a.l.saved \in a.l.common /\ a.l.last = a.l.view.end[a.l.saved]
WalkEnds(c, h, q, keys, a) ==
    /\ q.kind # "buckets" /\ Going(c, h, a.l, a.l.last)
    /\ a.left = 0 => a.l.last = keys[Len(keys)]
    /\ a.left # 0 => Used(a.l) = a.l.max
    /\ Used(a.l) = a.l.max => a.l.last # 0 /\ Sound(h, Told(h, a.l), ToldGroups(h, a.l), a.l.last, a.l.last)

Loops == [l : Pages, left : Nat, stop : BOOLEAN, skip : BOOLEAN, past : BOOLEAN]
LoopInv(c, h, q, keys, i, a) ==
    /\ a \in Loops /\ Same(a.l, q)
    /\ ~a.stop => WalkOn(c, h, q, keys, i, a)
    /\ a.stop /\ a.past => WalkPast(c, h, q, a)
    /\ a.stop /\ ~a.past /\ a.skip => WalkSkips(c, h, q, a)
    /\ a.stop /\ ~a.past /\ ~a.skip => WalkEnds(c, h, q, keys, a)

\* Nothing that stays lies between a key that was found and the one before.
LEMMA NoGap ==
    ASSUME NEW c, NEW h, NEW q, NEW keys, ReadingKeys(c, h, q, keys), HistoryOK(h), NEW i \in 1 .. Len(keys)
    PROVE  /\ keys[i] \in Keys /\ keys[i] \in Nat /\ keys[i] \in h.ever
           /\ Pos(q, keys, i - 1) \in Nat /\ Pos(q, keys, i - 1) < keys[i] /\ Pos(q, keys, i) = keys[i]
           /\ Clear(h, Pos(q, keys, i - 1), keys[i])
<1>0. Len(keys) \in Nat /\ From(q) \in Nat
  BY DEF ReadingKeys
<1>1. \A j \in 1 .. Len(keys) : keys[j] \in Keys /\ keys[j] \in Nat /\ keys[j] \in h.ever /\ keys[j] > From(q)
  <2>1. \A j \in 1 .. Len(keys) : keys[j] \in h.ever /\ keys[j] > From(q)
    BY DEF ReadingKeys
  <2> QED
    BY <2>1, ListingAssumption DEF HistoryOK
<1>2. i # 1 => i - 1 \in 1 .. Len(keys)
  BY <1>0
<1>3. /\ Pos(q, keys, i - 1) \in Nat /\ Pos(q, keys, i - 1) < keys[i] /\ Pos(q, keys, i) = keys[i]
      /\ From(q) <= Pos(q, keys, i - 1)
  <2>1. CASE i = 1
    BY <1>0, <1>1, <2>1 DEF Pos
  <2>2. CASE i # 1
    <3>1. keys[i - 1] < keys[i]
      BY <1>0, <1>2, <2>2 DEF ReadingKeys
    <3> QED
      BY <1>0, <1>1, <1>2, <2>2, <3>1 DEF Pos
  <2> QED
    BY <2>1, <2>2
<1>4. ASSUME NEW k \in h.stable, Pos(q, keys, i - 1) < k, k < keys[i] PROVE FALSE
  <2>1. k \in Nat
    BY ListingAssumption DEF HistoryOK
  <2>2. k > From(q) /\ k <= keys[i]
    BY <1>0, <1>1, <1>3, <1>4, <2>1
  <2>3. PICK j \in 1 .. Len(keys) : keys[j] = k
    BY <2>2 DEF ReadingKeys
  <2>4. CASE j < i
    <3>1. keys[j] <= keys[i - 1] /\ i # 1
      <4>1. i # 1 /\ (j = i - 1 \/ j < i - 1)
        BY <1>0, <2>4
      <4>2. j < i - 1 => keys[j] < keys[i - 1]
        BY <1>2, <4>1 DEF ReadingKeys
      <4> QED
        BY <1>1, <1>2, <4>1, <4>2
    <3> QED
      BY <1>1, <1>2, <1>3, <1>4, <2>1, <2>3, <3>1 DEF Pos
  <2>5. CASE ~(j < i)
    <3>1. i = j \/ i < j
      BY <1>0, <2>5
    <3>2. i < j => keys[i] < keys[j]
      BY DEF ReadingKeys
    <3> QED
      BY <1>1, <1>4, <2>1, <2>3, <3>1, <3>2
  <2> QED
    BY <2>4, <2>5
<1> QED
  BY <1>1, <1>3, <1>4 DEF Clear

\* A read that found fewer keys than it asked for has found the last one.
LEMMA LastKey ==
    ASSUME NEW c, NEW h, NEW q, NEW keys, ReadingKeys(c, h, q, keys), HistoryOK(h), q.count \in Nat,
           Len(keys) # q.count
    PROVE  \A k \in h.stable : k <= keys[Len(keys)]
<1>0. Len(keys) \in Nat /\ Len(keys) \in 1 .. Len(keys) /\ From(q) \in Nat /\ Len(keys) < q.count
  BY DEF ReadingKeys
<1>1. \A j \in 1 .. Len(keys) : keys[j] \in Nat /\ keys[j] > From(q)
  <2>1. \A j \in 1 .. Len(keys) : keys[j] \in h.ever /\ keys[j] > From(q)
    BY DEF ReadingKeys
  <2> QED
    BY <2>1, ListingAssumption DEF HistoryOK
<1> SUFFICES ASSUME NEW k \in h.stable, k > From(q) PROVE k <= keys[Len(keys)]
  <2>1. \A k \in h.stable : k \in Nat
    BY ListingAssumption DEF HistoryOK
  <2> QED
    BY <1>0, <1>1, <2>1
<1>2. PICK j \in 1 .. Len(keys) : keys[j] = k
  BY <1>0 DEF ReadingKeys
<1>3. j = Len(keys) \/ j < Len(keys)
  BY <1>0
<1>4. j < Len(keys) => keys[j] < keys[Len(keys)]
  BY <1>0 DEF ReadingKeys
<1> QED
  BY <1>0, <1>1, <1>2, <1>3, <1>4

\* Nothing on the page but its last key, its count or its saved name changes.
LEMMA GoingStays ==
    ASSUME NEW c, NEW h, NEW l, NEW p, Going(c, h, l, p), NEW t \in Pages, Same(t, l), Fits(t),
           t.contents = l.contents, t.common = l.common
    PROVE  Going(c, h, t, p)
BY DEF Going, Filling, Filled, Base, Told, ToldGroups, Same

\* A key is passed over.
LEMMA GoingPasses ==
    ASSUME ListingsWellFormed, NEW c \in BOOLEAN, NEW h, NEW l, NEW p \in Nat, NEW k \in Nat, Going(c, h, l, p), p < k,
           Clear(h, p, k), c => ~Wanted(h, k)
    PROVE  Going(c, h, l, k)
<1>1. HistoryOK(h) /\ l \in Pages /\ Base(h, l)
  BY DEF Going, Filling, Filled, Base
<1>2a. PICK ks, gs : ks = Told(h, l) /\ gs = ToldGroups(h, l)
  OBVIOUS
<1>2b. PICK m \in Nat : m = l.marker
  BY <1>1 DEF Pages
<1>2. ks = Told(h, l) /\ gs = ToldGroups(h, l) /\ m = l.marker
  BY <1>2a, <1>2b
<1>3. Sound(h, ks, gs, m, p) /\ (c => Upto(h, ks, gs, p))
  BY <1>2 DEF Going, Filling, Filled
<1>4. Sound(h, ks, gs, m, k)
  BY <1>1, <1>3, SoundFurther
<1>5. Extends(ks, gs, ks, gs)
  BY DEF Extends
<1>6. c => Upto(h, ks, gs, k)
  BY <1>1, <1>3, <1>5, UptoNext
<1> QED
  BY <1>2, <1>4, <1>6 DEF Going, Filling, Filled

\* A key is listed.
LEMMA GoingAdds ==
    ASSUME ListingsWellFormed, NEW c \in BOOLEAN, NEW h, NEW l, NEW p \in Nat, NEW k \in h.ever, Going(c, h, l, p), p < k,
           Clear(h, p, k), Holds(h.asked.view, k), h.asked.view.group[k] = 0,
           h.asked.kind = "objects" => Starts(h.asked.view, k),
           NEW t \in Pages, Same(t, l), Fits(t),
           t.contents = Append(l.contents, k), t.common = l.common
    PROVE  Going(c, h, t, k)
<1>1. HistoryOK(h) /\ l \in Pages /\ Base(h, l) /\ h \in Histories /\ k \in Keys /\ k \in Nat
  BY ListingAssumption DEF Going, Filling, Filled, Base, HistoryOK
<1>2a. PICK ks, gs : ks = Told(h, l) /\ gs = ToldGroups(h, l)
  OBVIOUS
<1>2b. PICK m \in Nat : m = l.marker
  BY <1>1 DEF Pages
<1>2. ks = Told(h, l) /\ gs = ToldGroups(h, l) /\ m = l.marker
  BY <1>2a, <1>2b
<1>3. Sound(h, ks, gs, m, p) /\ (c => Upto(h, ks, gs, p)) /\ ks \in Seq(Keys)
  BY <1>2 DEF Going, Filling, Filled, Sound
<1>4. Sound(h, Append(ks, k), gs, m, k)
  BY <1>1, <1>3, SoundKey
<1>5. Extends(ks, gs, Append(ks, k), gs) /\ \E i \in 1 .. Len(Append(ks, k)) : Append(ks, k)[i] = k
  BY <1>1, <1>3, AppendExtends
<1>5a. IsTold(h, Append(ks, k), gs, k)
  BY <1>5 DEF IsTold
<1>6. c => Upto(h, Append(ks, k), gs, k)
  BY <1>1, <1>3, <1>5, <1>5a, UptoNext
<1>7. Told(h, t) = Append(ks, k) /\ ToldGroups(h, t) = gs
  <2>1. l.contents \in Seq(Keys) /\ h.keys \in Seq(Keys)
    BY <1>1 DEF Pages, Histories
  <2>2. h.keys \o Append(l.contents, k) = Append(h.keys \o l.contents, k)
    <3>0. <<k>> \in Seq(Keys)
      BY <1>1
    <3>1. PICK s \in Seq(Keys), t1 \in Seq(Keys), u \in Seq(Keys) : s = h.keys /\ t1 = l.contents /\ u = <<k>>
      BY <2>1, <3>0, Zenon
    <3>2. s \o t1 \in Seq(Keys)
      BY ConcatProperties
    <3>3. Append(t1, k) = t1 \o u /\ Append(s \o t1, k) = (s \o t1) \o u
      BY <1>1, <3>1, <3>2, AppendIsConcat
    <3>4. (s \o t1) \o u = s \o (t1 \o u)
      BY ConcatAssociative
    <3> QED
      BY <3>1, <3>3, <3>4
  <2> QED
    BY <1>2, <2>2 DEF Told, ToldGroups
<1>8. Base(h, t)
  BY <1>1 DEF Base, Same
<1> QED
  BY <1>2, <1>4, <1>6, <1>7, <1>8 DEF Going, Filling, Filled, Same

\* A common prefix is listed with its key, the rest of its keys is not
\* skipped.
LEMMA GoingGroups ==
    ASSUME ListingsWellFormed, NEW c \in BOOLEAN, NEW h, NEW l, NEW p \in Nat, NEW k \in h.ever, Going(c, h, l, p), p < k,
           Clear(h, p, k), h.asked.kind # "objects", Starts(h.asked.view, k), h.asked.view.group[k] # 0,
           NEW t \in Pages, Same(t, l), Fits(t),
           t.contents = l.contents, t.common = l.common \cup {h.asked.view.group[k]}
    PROVE  Going(c, h, t, k)
<1>1. HistoryOK(h) /\ l \in Pages /\ Base(h, l) /\ h \in Histories /\ k \in Keys /\ k \in Nat
  BY ListingAssumption DEF Going, Filling, Filled, Base, HistoryOK
<1>2a. PICK ks, gs : ks = Told(h, l) /\ gs = ToldGroups(h, l)
  OBVIOUS
<1>2b. PICK m \in Nat : m = l.marker
  BY <1>1 DEF Pages
<1>2. ks = Told(h, l) /\ gs = ToldGroups(h, l) /\ m = l.marker
  BY <1>2a, <1>2b
<1>3. Sound(h, ks, gs, m, p) /\ (c => Upto(h, ks, gs, p))
  BY <1>2 DEF Going, Filling, Filled
<1>3a. PICK gs2 : gs2 = gs \cup {h.asked.view.group[k]}
  OBVIOUS
<1>4. Sound(h, ks, gs2, m, k)
  BY <1>1, <1>3, <1>3a, SoundGroup
<1>5. Extends(ks, gs, ks, gs2)
  BY <1>3a DEF Extends
<1>5a. IsTold(h, ks, gs2, k)
  BY <1>3a DEF IsTold
<1>6. c => Upto(h, ks, gs2, k)
  BY <1>1, <1>3, <1>5, <1>5a, UptoNext
<1>7. Told(h, t) = ks /\ ToldGroups(h, t) = gs2
  BY <1>2, <1>3a DEF Told, ToldGroups
<1>8. Base(h, t)
  BY <1>1 DEF Base, Same
<1> QED
  BY <1>1, <1>2, <1>4, <1>6, <1>7, <1>8 DEF Going, Filling, Filled, Same, Base

\* A common prefix is listed and its keys are skipped.
LEMMA GoingRollsUp ==
    ASSUME ListingsWellFormed, NEW c \in BOOLEAN, NEW h, NEW l, NEW p \in Nat, NEW k \in h.ever, Going(c, h, l, p), p < k,
           Clear(h, p, k), h.asked.kind = "objects", Starts(h.asked.view, k),
           NEW g, g = h.asked.view.group[k], g # 0,
           NEW t \in Pages, Same(t, l), Fits(t),
           t.contents = l.contents, t.common = IF g = l.marker THEN l.common ELSE l.common \cup {g}
    PROVE  Going(c, h, t, h.asked.view.end[g])
<1>1. HistoryOK(h) /\ l \in Pages /\ Base(h, l) /\ h \in Histories /\ k \in Keys /\ k \in Nat /\ l.kind = h.asked.kind
  BY ListingAssumption DEF Going, Filling, Filled, Base, HistoryOK
<1>2a. PICK ks, gs : ks = Told(h, l) /\ gs = ToldGroups(h, l)
  OBVIOUS
<1>2b. PICK m \in Nat : m = l.marker
  BY <1>1 DEF Pages
<1>2. ks = Told(h, l) /\ gs = ToldGroups(h, l) /\ m = l.marker
  BY <1>2a, <1>2b
<1>3. Sound(h, ks, gs, m, p) /\ (c => Upto(h, ks, gs, p))
  BY <1>2 DEF Going, Filling, Filled
<1>3a. PICK gs2 : gs2 = IF g = m THEN gs ELSE gs \cup {g}
  OBVIOUS
<1>4. Sound(h, ks, gs2, m, h.asked.view.end[g]) /\ (g # m => g \notin gs)
  BY <1>1, <1>3, <1>3a, SoundRollUp
<1>6. c => Upto(h, ks, gs2, h.asked.view.end[g])
  BY <1>1, <1>3, <1>3a, UptoRollUp
<1>7. Told(h, t) = ks /\ ToldGroups(h, t) = gs2
  BY <1>2, <1>3a DEF Told, ToldGroups
<1>8. Base(h, t)
  BY <1>1 DEF Base, Same
<1>9. t.common \cap UNION Range(h.groups) = {}
  <2>1. l.common \cap UNION Range(h.groups) = {}
    BY <1>1 DEF Going, Filling, Filled
  <2>2. g # m => g \notin UNION Range(h.groups)
    BY <1>2, <1>4 DEF ToldGroups
  <2> QED
    BY <1>2, <2>1, <2>2
<1> QED
  BY <1>2, <1>4, <1>6, <1>7, <1>8, <1>9 DEF Going, Filling, Filled, Same

LEMMA UsedType ==
    ASSUME NEW l \in Pages
    PROVE  Listed(l) \in Nat /\ Used(l) \in Nat /\ Len(l.contents) \in Nat /\ Cardinality(l.common) \in Nat
           /\ l.size \in Nat /\ l.max \in Nat
<1>1. l.contents \in Seq(Keys) /\ IsFiniteSet(l.common) /\ l.size \in Nat /\ l.max \in Nat
  BY DEF Pages, FinSets
<1>2. Len(l.contents) \in Nat /\ Cardinality(l.common) \in Nat
  BY <1>1, FS_CardinalityType, LenProperties
<1> QED
  BY <1>1, <1>2 DEF Listed, Used

\* The end of a key, of a read or of a page.
LEMMA KeyEnds ==
    ASSUME ListingsWellFormed, NEW c \in BOOLEAN, NEW h, NEW q, NEW keys, ReadingKeys(c, h, q, keys), NEW i \in 1 .. Len(keys),
           NEW a, LoopInv(c, h, q, keys, i - 1, a), ~a.stop, q.kind # "buckets",
           NEW l \in Pages, Same(l, q), Going(c, h, l, keys[i]),
           Used(l) = l.max => Sound(h, Told(h, l), ToldGroups(h, l), keys[i], keys[i]),
           NEW ends \in BOOLEAN, ends <=> a.left = 1 \/ Used(l) = l.max,
           NEW b, b = [a EXCEPT !.left = @ - 1, !.stop = ends,
                                !.l = IF ends THEN [l EXCEPT !.last = keys[i]] ELSE l]
    PROVE  LoopInv(c, h, q, keys, i, b)
<1>0. HistoryOK(h) /\ Fits(l) /\ l.kind = q.kind
  BY DEF Going, Filling, Filled, Base, Same
<1>1. PICK k \in Keys : k = keys[i] /\ k \in Nat /\ k # 0 /\ Pos(q, keys, i) = k
  BY <1>0, NoGap, ListingAssumption
<1>2. a \in Loops /\ a.left = Len(keys) - (i - 1) /\ ~a.skip /\ ~a.past /\ Len(keys) \in Nat
  BY DEF LoopInv, WalkOn, ReadingKeys
<1>3. PICK n \in Nat : n = a.left - 1 /\ n = Len(keys) - i
  BY <1>2
<1>4. Used(l) \in Nat /\ Listed(l) \in Nat /\ l.max \in Nat /\ l.size \in Nat
  BY UsedType
<1>5. CASE ~ends
  <2>1. b = [a EXCEPT !.left = n, !.stop = FALSE, !.l = l]
    BY <1>3, <1>5
  <2>2. b \in Loops /\ b.left = n /\ ~b.stop /\ b.l = l /\ ~b.skip /\ ~b.past
    BY <1>2, <2>1 DEF Loops
  <2>3. Room(l)
    BY <1>0, <1>4, <1>5 DEF Room, Fits, Used
  <2>4. i # Len(keys)
    BY <1>2, <1>5
  <2> QED
    BY <1>1, <1>3, <2>2, <2>3, <2>4 DEF LoopInv, WalkOn
<1>6. CASE ends
  <2>1. PICK t : t = [l EXCEPT !.last = k]
    OBVIOUS
  <2>2. /\ t \in Pages /\ Same(t, l) /\ t.contents = l.contents /\ t.common = l.common /\ t.last = k
        /\ t.size = l.size /\ t.max = l.max /\ t.kind = l.kind
    BY <1>1, <2>1, ListingAssumption DEF Pages, Same
  <2>3. Fits(t) /\ Used(t) = Used(l) /\ Told(h, t) = Told(h, l) /\ ToldGroups(h, t) = ToldGroups(h, l)
    BY <1>0, <2>2 DEF Fits, Used, Listed, Paged, Told, ToldGroups
  <2>4. Going(c, h, t, k)
    BY <1>1, <2>2, <2>3, GoingStays
  <2>5. b = [a EXCEPT !.left = n, !.stop = TRUE, !.l = t]
    BY <1>1, <1>3, <1>6, <2>1
  <2>6. b \in Loops /\ b.left = n /\ b.stop /\ b.l = t /\ ~b.skip /\ ~b.past
    BY <1>2, <2>2, <2>5 DEF Loops
  <2>7. n = 0 => k = keys[Len(keys)]
    BY <1>1, <1>2, <1>3
  <2>8. n # 0 => Used(t) = t.max
    BY <1>2, <1>3, <1>6, <2>2, <2>3
  <2>9. Same(t, q)
    BY <2>2 DEF Same
  <2>10. Used(t) = t.max => Sound(h, Told(h, t), ToldGroups(h, t), k, k)
    BY <1>1, <2>2, <2>3
  <2>11. WalkEnds(c, h, q, keys, b)
    BY <1>1, <2>2, <2>4, <2>6, <2>7, <2>8, <2>10 DEF WalkEnds
  <2> QED
    BY <2>6, <2>9, <2>11 DEF LoopInv
<1> QED
  BY <1>5, <1>6

\* A key that is not listed.
LEMMA KeyPasses ==
    ASSUME ListingsWellFormed, NEW c \in BOOLEAN, NEW h, NEW q, NEW keys, ReadingKeys(c, h, q, keys), NEW i \in 1 .. Len(keys),
           NEW a, LoopInv(c, h, q, keys, i - 1, a), ~a.stop, ~Wanted(h, keys[i])
    PROVE  a.l \in Pages /\ Same(a.l, q) /\ Going(c, h, a.l, keys[i])
<1>0. HistoryOK(h)
  BY DEF ReadingKeys, Going, Filling, Filled, Base
<1>1. a.l \in Pages /\ Same(a.l, q) /\ Going(c, h, a.l, Pos(q, keys, i - 1))
  BY DEF LoopInv, WalkOn, Loops
<1>2. PICK k \in Nat : k = keys[i]
  BY <1>0, NoGap
<1>3. PICK p \in Nat : p = Pos(q, keys, i - 1)
  BY <1>0, NoGap
<1>4. p < k /\ Clear(h, p, k)
  BY <1>0, <1>2, <1>3, NoGap
<1> QED
  BY <1>1, <1>2, <1>3, <1>4, GoingPasses

\* A key that is listed.
LEMMA KeyAdds ==
    ASSUME ListingsWellFormed, NEW c \in BOOLEAN, NEW h, NEW q, NEW keys, ReadingKeys(c, h, q, keys), NEW i \in 1 .. Len(keys),
           NEW a, LoopInv(c, h, q, keys, i - 1, a), ~a.stop,
           Holds(h.asked.view, keys[i]), h.asked.view.group[keys[i]] = 0,
           h.asked.kind = "objects" => Starts(h.asked.view, keys[i]),
           NEW t \in Pages, Same(t, a.l), Fits(t),
           t.contents = Append(a.l.contents, keys[i]), t.common = a.l.common
    PROVE  Same(t, q) /\ Going(c, h, t, keys[i])
           /\ (h.asked.kind = "objects" => Sound(h, Told(h, t), ToldGroups(h, t), keys[i], keys[i]))
<1>0. HistoryOK(h)
  BY DEF ReadingKeys, Going, Filling, Filled, Base
<1>1. a.l \in Pages /\ Same(a.l, q) /\ Going(c, h, a.l, Pos(q, keys, i - 1))
  BY DEF LoopInv, WalkOn, Loops
<1>2. PICK k \in h.ever : k = keys[i]
  BY <1>0, NoGap
<1>3. PICK p \in Nat : p = Pos(q, keys, i - 1)
  BY <1>0, NoGap
<1>4. p < k /\ Clear(h, p, k) /\ k \in Nat /\ k \in Keys
  BY <1>0, <1>2, <1>3, NoGap
<1>5. PICK l \in Pages : l = a.l
  BY <1>1
<1>6. Going(c, h, l, p) /\ Same(t, l) /\ t.contents = Append(l.contents, k) /\ t.common = l.common
  BY <1>1, <1>2, <1>3, <1>5
<1>7. Going(c, h, t, k)
  BY <1>2, <1>4, <1>6, GoingAdds
<1>8. h.asked.kind = "objects" => Sound(h, Told(h, t), ToldGroups(h, t), k, k)
  <2> SUFFICES ASSUME h.asked.kind = "objects" PROVE Sound(h, Told(h, t), ToldGroups(h, t), k, k)
    OBVIOUS
  <2>1. PICK ks, gs : ks = Told(h, t) /\ gs = ToldGroups(h, t)
    OBVIOUS
  <2>2. PICK m \in Nat : m = t.marker
    BY DEF Pages
  <2>3. Sound(h, ks, gs, m, k)
    BY <1>7, <2>1, <2>2 DEF Going, Filling, Filled
  <2>4. m <= p
    <3>1. t.marker = l.marker
      BY <1>6 DEF Same
    <3>2. l.marker <= p
      BY <1>6 DEF Going, Filling, Filled, Sound
    <3> QED
      BY <2>2, <3>1, <3>2
  <2>5. m < k
    BY <1>4, <2>4
  <2> QED
    BY <1>0, <1>2, <1>4, <2>1, <2>3, <2>5, SoundTurnKey
<1>9. Same(t, q)
  BY <1>1 DEF Same
<1> QED
  BY <1>2, <1>7, <1>8, <1>9

LEMMA GoingTurns ==
    ASSUME NEW c, NEW h, NEW l, NEW p, Going(c, h, l, p), h.asked.kind # "objects"
    PROVE  Sound(h, Told(h, l), ToldGroups(h, l), p, p)
BY DEF Going, Filling, Filled, Sound

\* What is known of the page before a key is looked at.
LEMMA BeforeKey ==
    ASSUME ListingsWellFormed, NEW c \in BOOLEAN, NEW h, NEW q, NEW keys, ReadingKeys(c, h, q, keys), NEW i \in 1 .. Len(keys),
           NEW a, LoopInv(c, h, q, keys, i - 1, a), ~a.stop
    PROVE  /\ HistoryOK(h) /\ ViewOK(h.asked.view) /\ a.l \in Pages /\ a \in Loops /\ Same(a.l, q)
           /\ a.l.view = h.asked.view /\ a.l.kind = h.asked.kind /\ a.l.kind = q.kind
           /\ Fits(a.l) /\ (Paged(a.l) => Used(a.l) < a.l.max) /\ a.left \in Nat
           /\ keys[i] \in Keys /\ keys[i] \in Nat /\ h.asked.view.group[keys[i]] \in Nat
<1>1. Base(h, q)
  BY DEF ReadingKeys, Going, Filling, Filled
<1>2. HistoryOK(h) /\ ViewOK(h.asked.view) /\ q.view = h.asked.view /\ q.kind = h.asked.kind
  BY <1>1 DEF Base, HistoryOK, ListingsWellFormed
<1>3. a.l \in Pages /\ a \in Loops /\ Same(a.l, q) /\ a.left \in Nat /\ Room(a.l) /\ Fits(a.l)
  BY DEF LoopInv, WalkOn, Loops, Going, Filling, Filled, Base
<1>4. keys[i] \in Keys /\ keys[i] \in Nat
  BY <1>2, NoGap
<1>5. h.asked.view.group[keys[i]] \in Nat
  BY <1>2, <1>4 DEF ViewOK
<1>6. Paged(a.l) => a.l.max # 0
  BY <1>3 DEF ReadingKeys, Same, Paged
<1> QED
  BY <1>2, <1>3, <1>4, <1>5, <1>6 DEF Same, Room

\* The next key of uploads or of an index.
LEMMA FilteredKeyWalks ==
    ASSUME ListingsWellFormed, NEW c \in BOOLEAN, NEW h, NEW q, NEW keys, ReadingKeys(c, h, q, keys), NEW i \in 1 .. Len(keys),
           NEW a, LoopInv(c, h, q, keys, i - 1, a), ~a.stop, q.kind \in {"uploads", "kvs"}
    PROVE  LoopInv(c, h, q, keys, i, FilteredKey(a, keys[i]))
<1> DEFINE v == h.asked.view
<1>0. PICK k : k = keys[i]
  OBVIOUS
<1>1. /\ HistoryOK(h) /\ ViewOK(v) /\ a.l \in Pages /\ a \in Loops /\ Same(a.l, q)
      /\ a.l.view = v /\ a.l.kind = h.asked.kind /\ a.l.kind = q.kind
      /\ Fits(a.l) /\ Used(a.l) < a.l.max /\ k \in Keys /\ k \in Nat /\ v.group[k] \in Nat
  BY <1>0, BeforeKey DEF Paged
<1>2. PICK l : l = CASE Starts(v, k) /\ v.group[k] # 0 -> [a.l EXCEPT !.common = @ \cup {v.group[k]}]
                     [] Starts(v, k) /\ v.group[k] = 0 -> [a.l EXCEPT !.contents = Append(@, k)]
                     [] OTHER -> a.l
  OBVIOUS
<1>3. Used(a.l) = Len(a.l.contents) /\ Len(a.l.contents) \in Nat /\ a.l.max \in Nat /\ a.l.contents \in Seq(Keys)
  <2>1. Len(a.l.contents) \in Nat /\ a.l.max \in Nat
    BY <1>1, UsedType, Zenon
  <2>2. a.l.contents \in Seq(Keys)
    BY <1>1 DEF Pages
  <2> QED
    BY <1>1, <2>1, <2>2 DEF Used, Listed
<1>4. l \in Pages /\ Same(l, q) /\ Going(c, h, l, k)
  <2>1. CASE Starts(v, k) /\ v.group[k] # 0
    <3>1. l = [a.l EXCEPT !.common = @ \cup {v.group[k]}]
      BY <1>2, <2>1
    <3>2. a.l.common \cup {v.group[k]} \in FinSets
      <4>1. a.l.common \in SUBSET Nat /\ IsFiniteSet(a.l.common)
        BY <1>1 DEF Pages, FinSets
      <4>1a. PICK s, g : s = a.l.common /\ g = v.group[k]
        OBVIOUS
      <4>1b. IsFiniteSet(s)
        BY <4>1, <4>1a
      <4>1c. IsFiniteSet(s \cup {g})
        BY <4>1b, FS_AddElement
      <4>2. IsFiniteSet(a.l.common \cup {v.group[k]})
        BY <4>1a, <4>1c
      <4> QED
        BY <1>1, <4>1, <4>2 DEF FinSets
    <3>3. /\ l \in Pages /\ Same(l, a.l) /\ l.contents = a.l.contents /\ l.common = a.l.common \cup {v.group[k]}
          /\ l.kind = a.l.kind /\ l.max = a.l.max
      BY <1>1, <3>1, <3>2 DEF Pages, Same
    <3>4. Fits(l)
      BY <1>1, <1>3, <3>3 DEF Fits, Listed, Used
    <3>5a. /\ k \in h.ever /\ Pos(q, keys, i - 1) \in Nat /\ Pos(q, keys, i - 1) < k
           /\ Clear(h, Pos(q, keys, i - 1), k)
      BY <1>0, <1>1, NoGap
    <3>5. PICK j \in h.ever, p \in Nat : j = k /\ p = Pos(q, keys, i - 1) /\ p < j /\ Clear(h, p, j)
      BY <3>5a
    <3>6. Going(c, h, a.l, p)
      BY <3>5 DEF LoopInv, WalkOn
    <3>7. Going(c, h, l, j)
      BY <1>1, <2>1, <3>3, <3>4, <3>5, <3>6, GoingGroups
    <3> QED
      BY <1>1, <3>3, <3>5, <3>7 DEF Same
  <2>2. CASE Starts(v, k) /\ v.group[k] = 0
    <3>1. l = [a.l EXCEPT !.contents = Append(@, k)]
      BY <1>2, <2>2
    <3>2. Append(a.l.contents, k) \in Seq(Keys) /\ Len(Append(a.l.contents, k)) = Len(a.l.contents) + 1
      BY <1>1, <1>3, AppendProperties
    <3>3. /\ l \in Pages /\ Same(l, a.l) /\ l.contents = Append(a.l.contents, k) /\ l.common = a.l.common
          /\ l.kind = a.l.kind /\ l.max = a.l.max
      BY <1>1, <3>1, <3>2 DEF Pages, Same
    <3>4. Fits(l)
      BY <1>1, <1>3, <3>2, <3>3 DEF Fits, Listed, Used
    <3>5. Holds(v, k)
      BY <1>1, <2>2 DEF ViewOK
    <3> QED
      BY <1>0, <1>1, <2>2, <3>3, <3>4, <3>5, KeyAdds
  <2>3. CASE ~Starts(v, k)
    <3>1. l = a.l
      BY <1>2, <2>3
    <3>2. ~Wanted(h, k)
      BY <2>3 DEF Wanted
    <3> QED
      BY <1>0, <3>1, <3>2, KeyPasses
  <2> QED
    BY <2>1, <2>2, <2>3
<1>5. Sound(h, Told(h, l), ToldGroups(h, l), k, k)
  BY <1>1, <1>4, GoingTurns
<1>6. Used(l) = Listed(l)
  BY <1>1, <1>4 DEF Used, Same
<1>7. PICK ends \in BOOLEAN : ends <=> a.left = 1 \/ Listed(l) = l.max
  OBVIOUS
<1>8. PICK b : b = [a EXCEPT !.left = @ - 1, !.stop = ends, !.l = IF ends THEN [l EXCEPT !.last = k] ELSE l]
  OBVIOUS
<1>9. FilteredKey(a, k) = b
  BY <1>1, <1>2, <1>7, <1>8 DEF FilteredKey, EndOfKey
<1>10. LoopInv(c, h, q, keys, i, b)
  <2>1. q.kind # "buckets" /\ (ends <=> a.left = 1 \/ Used(l) = l.max)
    BY <1>6, <1>7
  <2>2. l \in Pages /\ Same(l, q) /\ Going(c, h, l, keys[i])
        /\ Sound(h, Told(h, l), ToldGroups(h, l), keys[i], keys[i])
    BY <1>0, <1>4, <1>5
  <2>3. b = [a EXCEPT !.left = @ - 1, !.stop = ends, !.l = IF ends THEN [l EXCEPT !.last = keys[i]] ELSE l]
    BY <1>0, <1>8
  <2> QED
    BY <2>1, <2>2, <2>3, KeyEnds
<1> QED
  BY <1>0, <1>9, <1>10

\* The next upload.
LEMMA UploadKeyWalks ==
    ASSUME ListingsWellFormed, NEW c \in BOOLEAN, NEW h, NEW q, NEW keys, ReadingKeys(c, h, q, keys), NEW i \in 1 .. Len(keys),
           NEW a, LoopInv(c, h, q, keys, i - 1, a), ~a.stop, q.kind = "uploads"
    PROVE  LoopInv(c, h, q, keys, i, UploadKey(a, keys[i]))
<1>1. CASE keys[i] \notin Corrupt
  <2>1. UploadKey(a, keys[i]) = FilteredKey(a, keys[i])
    BY <1>1 DEF UploadKey
  <2>2. LoopInv(c, h, q, keys, i, FilteredKey(a, keys[i]))
    BY FilteredKeyWalks
  <2> QED
    BY <2>1, <2>2
<1>2. CASE keys[i] \in Corrupt
  <2>1. ~Wanted(h, keys[i])
    BY <1>2 DEF Wanted
  <2>2. a.l \in Pages /\ Same(a.l, q) /\ Going(c, h, a.l, keys[i])
    BY <2>1, KeyPasses
  <2>3. a \in Loops /\ a.left = Len(keys) - (i - 1) /\ ~a.skip /\ ~a.past /\ Len(keys) \in Nat /\ Room(a.l)
    BY DEF LoopInv, WalkOn, ReadingKeys
  <2>3a. Len(keys) - i \in Nat /\ a.left - 1 = Len(keys) - i
    BY <2>3
  <2>4. PICK n \in Nat : n = a.left - 1 /\ n = Len(keys) - i
    BY <2>3a
  <2>5. PICK b : b = [a EXCEPT !.left = n]
    OBVIOUS
  <2>6. UploadKey(a, keys[i]) = b
    BY <1>2, <2>4, <2>5 DEF UploadKey
  <2>7. b \in Loops /\ b.left = n /\ ~b.stop /\ b.l = a.l /\ ~b.skip /\ ~b.past
    BY <2>3, <2>5 DEF Loops
  <2>8. Pos(q, keys, i) = keys[i]
    BY <2>3 DEF Pos
  <2> QED
    BY <1>2, <2>2, <2>3, <2>4, <2>6, <2>7, <2>8 DEF LoopInv, WalkOn
<1> QED
  BY <1>1, <1>2

\* The next part.
LEMMA PartKeyWalks ==
    ASSUME ListingsWellFormed, NEW c \in BOOLEAN, NEW h, NEW q, NEW keys, ReadingKeys(c, h, q, keys), NEW i \in 1 .. Len(keys),
           NEW a, LoopInv(c, h, q, keys, i - 1, a), ~a.stop, q.kind = "parts"
    PROVE  LoopInv(c, h, q, keys, i, PartKey(a, keys[i]))
<1> DEFINE v == h.asked.view
<1>0. PICK k : k = keys[i]
  OBVIOUS
<1>1. /\ HistoryOK(h) /\ ViewOK(v) /\ a.l \in Pages /\ a \in Loops /\ Same(a.l, q)
      /\ a.l.view = v /\ a.l.kind = h.asked.kind /\ a.l.kind = q.kind
      /\ Fits(a.l) /\ Used(a.l) < a.l.max /\ k \in Keys /\ k \in Nat /\ v.group[k] \in Nat
  BY <1>0, BeforeKey DEF Paged
<1>2. PICK l : l = [Add(a.l, k) EXCEPT !.size = @ + IF k \in Corrupt THEN 0 ELSE 1]
  OBVIOUS
<1>3. a.l.contents \in Seq(Keys) /\ Len(a.l.contents) \in Nat /\ a.l.size \in Nat /\ a.l.max \in Nat
      /\ a.l.size < a.l.max /\ Len(a.l.contents) <= a.l.size
  <2>1. Len(a.l.contents) \in Nat /\ a.l.max \in Nat /\ a.l.size \in Nat
    BY <1>1, UsedType, Zenon
  <2>2. a.l.contents \in Seq(Keys)
    BY <1>1 DEF Pages
  <2> QED
    BY <1>1, <2>1, <2>2 DEF Used, Fits
<1>4. l \in Pages /\ Same(l, q) /\ Going(c, h, l, k)
  <2>1. CASE k \notin Corrupt
    <3>1. PICK t : t = [a.l EXCEPT !.contents = Append(a.l.contents, k)]
      OBVIOUS
    <3>2. Append(a.l.contents, k) \in Seq(Keys) /\ Len(Append(a.l.contents, k)) = Len(a.l.contents) + 1
      BY <1>1, <1>3, AppendProperties
    <3>3. t \in Pages /\ Same(t, a.l) /\ t.contents = Append(a.l.contents, k) /\ t.common = a.l.common
          /\ t.kind = a.l.kind /\ t.max = a.l.max /\ t.size = a.l.size
      BY <1>1, <3>1, <3>2 DEF Pages, Same
    <3>3a. PICK z \in Nat : z = a.l.size + 1
      BY <1>3
    <3>4. l = [t EXCEPT !.size = z]
      BY <1>2, <2>1, <3>1, <3>3, <3>3a DEF Add
    <3>5. l \in Pages /\ Same(l, t) /\ l.contents = Append(a.l.contents, k) /\ l.common = a.l.common
          /\ l.kind = a.l.kind /\ l.max = a.l.max /\ l.size = z
      BY <3>3, <3>4 DEF Pages, Same
    <3>6. Same(l, a.l)
      BY <3>3, <3>5 DEF Same
    <3>7. Fits(l)
      <4>1. l.kind = "parts" /\ Listed(l) = Len(a.l.contents) + 1 /\ Len(l.contents) = Len(a.l.contents) + 1
        BY <1>1, <1>3, <3>2, <3>5 DEF Listed
      <4>2. Len(a.l.contents) + 1 <= z /\ z <= a.l.max /\ Len(a.l.contents) + 1 <= a.l.max
        BY <1>3, <3>3a
      <4>3. l.max = a.l.max /\ l.size = z
        BY <3>5
      <4> QED
        BY <4>1, <4>2, <4>3 DEF Fits
    <3>8. Holds(v, k) /\ v.group[k] = 0 /\ h.asked.kind # "objects"
      BY <1>1 DEF HistoryOK, ListingsWellFormed, Holds
    <3>9. /\ Holds(v, keys[i]) /\ v.group[keys[i]] = 0 /\ l \in Pages
          /\ l.contents = Append(a.l.contents, keys[i]) /\ l.common = a.l.common
      BY <1>0, <3>5, <3>8
    <3> QED
      BY <1>0, <3>6, <3>7, <3>8, <3>9, KeyAdds
  <2>2. CASE k \in Corrupt
    <3>0. a.l.size + 0 = a.l.size
      BY <1>3
    <3>1. l = [a.l EXCEPT !.size = a.l.size]
      BY <1>2, <2>2, <3>0 DEF Add
    <3>2. l \in Pages /\ Same(l, a.l) /\ l.contents = a.l.contents /\ l.common = a.l.common
          /\ l.kind = a.l.kind /\ l.max = a.l.max /\ l.size = a.l.size
      BY <1>1, <1>3, <3>1 DEF Pages, Same
    <3>3. Fits(l)
      BY <1>1, <3>2 DEF Fits, Listed, Paged
    <3>4. ~Wanted(h, k)
      BY <2>2 DEF Wanted
    <3>5. Going(c, h, a.l, k)
      BY <1>0, <3>4, KeyPasses
    <3>6. Going(c, h, l, k)
      BY <3>2, <3>3, <3>5, GoingStays
    <3> QED
      BY <1>1, <3>2, <3>6 DEF Same
  <2> QED
    BY <2>1, <2>2
<1>5. Sound(h, Told(h, l), ToldGroups(h, l), k, k)
  BY <1>1, <1>4, GoingTurns
<1>6. Used(l) = l.size
  BY <1>1, <1>4 DEF Used, Same
<1>7. PICK ends \in BOOLEAN : ends <=> a.left = 1 \/ l.size = l.max
  OBVIOUS
<1>8. PICK b : b = [a EXCEPT !.left = @ - 1, !.stop = ends, !.l = IF ends THEN [l EXCEPT !.last = k] ELSE l]
  OBVIOUS
<1>9. PartKey(a, k) = b
  BY <1>2, <1>7, <1>8 DEF PartKey
<1>10. LoopInv(c, h, q, keys, i, b)
  <2>1. q.kind # "buckets" /\ (ends <=> a.left = 1 \/ Used(l) = l.max)
    BY <1>6, <1>7
  <2>2. l \in Pages /\ Same(l, q) /\ Going(c, h, l, keys[i])
        /\ Sound(h, Told(h, l), ToldGroups(h, l), keys[i], keys[i])
    BY <1>0, <1>4, <1>5
  <2>3. b = [a EXCEPT !.left = @ - 1, !.stop = ends, !.l = IF ends THEN [l EXCEPT !.last = keys[i]] ELSE l]
    BY <1>0, <1>8
  <2> QED
    BY <2>1, <2>2, <2>3, KeyEnds
<1> QED
  BY <1>0, <1>9, <1>10

\* The keys of the prefix are at an end: all that is wanted has been told.
LEMMA PastEnd ==
    ASSUME ListingsWellFormed, NEW c \in BOOLEAN, NEW h, NEW q, NEW keys, ReadingKeys(c, h, q, keys), NEW i \in 1 .. Len(keys),
           NEW a, LoopInv(c, h, q, keys, i - 1, a), ~a.stop,
           \A k \in Keys : Starts(h.asked.view, k) /\ k > h.asked.start => k < keys[i]
    PROVE  /\ \E p \in Nat : Filling(h, a.l, p)
           /\ c => AllTold(h, Told(h, a.l), ToldGroups(h, a.l))
<1>0. HistoryOK(h)
  BY BeforeKey
<1>1. PICK p \in Nat : p = Pos(q, keys, i - 1)
  BY <1>0, NoGap
<1>2. Going(c, h, a.l, p)
  BY <1>1 DEF LoopInv, WalkOn
<1>3. Clear(h, p, keys[i]) /\ keys[i] \in Nat
  BY <1>0, <1>1, NoGap
<1>4. \A k \in h.stable : Wanted(h, k) => k <= p
  <2> SUFFICES ASSUME NEW k \in h.stable, Wanted(h, k) PROVE k <= p
    OBVIOUS
  <2>1. k \in Keys /\ k \in Nat
    BY <1>0, ListingAssumption DEF HistoryOK
  <2>2. k < keys[i]
    BY <2>1 DEF Wanted
  <2> QED
    BY <1>3, <2>1, <2>2 DEF Clear
<1>5. c => AllTold(h, Told(h, a.l), ToldGroups(h, a.l))
  BY <1>0, <1>2, <1>4, UptoEnd DEF Going
<1> QED
  BY <1>2, <1>5 DEF Going

\* The next bucket.
LEMMA BucketKeyWalks ==
    ASSUME ListingsWellFormed, NEW c \in BOOLEAN, NEW h, NEW q, NEW keys, ReadingKeys(c, h, q, keys), NEW i \in 1 .. Len(keys),
           NEW a, LoopInv(c, h, q, keys, i - 1, a), ~a.stop, q.kind = "buckets"
    PROVE  LoopInv(c, h, q, keys, i, BucketKey(a, keys[i]))
<1> DEFINE v == h.asked.view
<1>0. PICK k : k = keys[i]
  OBVIOUS
<1>1. /\ HistoryOK(h) /\ ViewOK(v) /\ a.l \in Pages /\ a \in Loops /\ Same(a.l, q)
      /\ a.l.view = v /\ a.l.kind = h.asked.kind /\ a.l.kind = q.kind
      /\ Fits(a.l) /\ k \in Keys /\ k \in Nat
  BY <1>0, BeforeKey
<1>1a. a.left = Len(keys) - (i - 1) /\ ~a.skip /\ ~a.past /\ Len(keys) \in Nat /\ Room(a.l)
  BY DEF LoopInv, WalkOn, ReadingKeys
<1>2. CASE ~Holds(v, k)
  <2>1. PICK b : b = [a EXCEPT !.stop = TRUE, !.past = TRUE]
    OBVIOUS
  <2>2. BucketKey(a, k) = b
    BY <1>1, <1>2, <2>1 DEF BucketKey
  <2>3. b \in Loops /\ b.stop /\ b.past /\ b.l = a.l /\ b.left = a.left
    BY <1>1, <2>1 DEF Loops
  <2>4. h.asked.start < k
    <3>1. PICK p \in Nat : p = Pos(q, keys, i - 1) /\ p < k
      BY <1>0, <1>1, NoGap
    <3>2. Going(c, h, a.l, p)
      BY <3>1 DEF LoopInv, WalkOn
    <3>3. h.asked.start <= p /\ h.asked.start \in Nat
      BY <1>1, <3>2 DEF Going, Filling, Filled, Sound, HistoryOK, ListingsWellFormed
    <3> QED
      BY <1>1, <3>1, <3>3
  <2>5. v.lo # 0 /\ v.lo \in Nat /\ v.hi \in Nat /\ v.lo <= h.asked.start /\ h.asked.start \in Nat /\ ~Starts(v, k)
    BY <1>1, <1>2 DEF Holds, ViewOK, HistoryOK, ListingsWellFormed
  <2>6. k > v.hi
    BY <1>1, <2>4, <2>5 DEF Starts
  <2>7. \A j \in Keys : Starts(v, j) /\ j > h.asked.start => j < k
    <3> SUFFICES ASSUME NEW j \in Keys, Starts(v, j) PROVE j < k
      OBVIOUS
    <3>1. j \in v.lo .. v.hi
      BY <2>5 DEF Starts
    <3> QED
      BY <1>1, <2>5, <2>6, <3>1
  <2>8. WalkPast(c, h, q, b)
    BY <1>0, <2>3, <2>7, PastEnd DEF WalkPast
  <2> QED
    BY <1>0, <1>1, <2>2, <2>3, <2>8 DEF LoopInv
<1>3. CASE Holds(v, k)
  <2>1. PICK t : t = Add(a.l, k)
    OBVIOUS
  <2>2. t \in Pages /\ Same(t, q) /\ Going(c, h, t, k)
    <3>1. CASE k \in Corrupt
      <4>1. t = a.l /\ ~Wanted(h, k)
        BY <2>1, <3>1 DEF Add, Wanted
      <4> QED
        BY <1>0, <4>1, KeyPasses
    <3>2. CASE k \notin Corrupt
      <4>1. t = [a.l EXCEPT !.contents = Append(@, k)]
        BY <2>1, <3>2 DEF Add
      <4>2. a.l.contents \in Seq(Keys)
        BY <1>1 DEF Pages
      <4>3. Append(a.l.contents, k) \in Seq(Keys)
        BY <1>1, <4>2, AppendProperties
      <4>4. t \in Pages /\ Same(t, a.l) /\ t.contents = Append(a.l.contents, k) /\ t.common = a.l.common
            /\ t.kind = a.l.kind
        BY <1>1, <4>1, <4>3 DEF Pages, Same
      <4>5. Fits(t)
        BY <1>1, <4>4 DEF Fits, Paged
      <4>6. v.group[k] = 0 /\ h.asked.kind # "objects"
        BY <1>1 DEF HistoryOK, ListingsWellFormed
      <4>7. /\ Holds(v, keys[i]) /\ v.group[keys[i]] = 0 /\ t \in Pages
            /\ t.contents = Append(a.l.contents, keys[i]) /\ t.common = a.l.common
        BY <1>0, <1>3, <4>4, <4>6
      <4> QED
        BY <1>0, <4>4, <4>5, <4>6, <4>7, KeyAdds
    <3> QED
      BY <3>1, <3>2
  <2>2a. Len(keys) - i \in Nat /\ a.left - 1 = Len(keys) - i
    BY <1>1a
  <2>3. PICK n \in Nat : n = a.left - 1 /\ n = Len(keys) - i
    BY <2>2a
  <2>4. PICK u : u = IF a.left = 1 THEN [t EXCEPT !.last = k] ELSE t
    OBVIOUS
  <2>5. PICK b : b = [a EXCEPT !.left = n, !.l = u]
    OBVIOUS
  <2>6. BucketKey(a, k) = b
    BY <1>1, <1>3, <2>1, <2>3, <2>4, <2>5 DEF BucketKey
  <2>7. u \in Pages /\ Same(u, t) /\ u.contents = t.contents /\ u.common = t.common /\ u.kind = t.kind
        /\ (a.left = 1 => u.last = k)
    BY <1>1, <2>2, <2>4 DEF Pages, Same
  <2>8. Fits(u) /\ Room(u)
    BY <1>1, <2>2, <2>7 DEF Fits, Room, Paged, Same
  <2>9. Going(c, h, u, k)
    BY <2>2, <2>7, <2>8, GoingStays
  <2>10. b \in Loops /\ b.left = n /\ ~b.stop /\ b.l = u /\ ~b.skip /\ ~b.past
    BY <1>1, <1>1a, <2>5, <2>7 DEF Loops
  <2>11. Same(u, q) /\ Pos(q, keys, i) = k
    BY <1>0, <1>1a, <2>2, <2>7 DEF Same, Pos
  <2>12. i = Len(keys) => u.last = keys[i]
    BY <1>0, <1>1a, <2>7
  <2> QED
    BY <1>0, <2>3, <2>6, <2>8, <2>9, <2>10, <2>11, <2>12 DEF LoopInv, WalkOn
<1> QED
  BY <1>2, <1>3

\* A common prefix of objects.
LEMMA RollUpWalks ==
    ASSUME ListingsWellFormed, NEW c \in BOOLEAN, NEW h, NEW q, NEW keys, ReadingKeys(c, h, q, keys), NEW i \in 1 .. Len(keys),
           NEW a, LoopInv(c, h, q, keys, i - 1, a), ~a.stop, q.kind = "objects",
           Starts(h.asked.view, keys[i]), NEW g, g = h.asked.view.group[keys[i]], g # 0
    PROVE  LoopInv(c, h, q, keys, i, RollUp(a, g))
<1> DEFINE v == h.asked.view
<1>1. /\ HistoryOK(h) /\ ViewOK(v) /\ a.l \in Pages /\ a \in Loops /\ Same(a.l, q)
      /\ a.l.view = v /\ a.l.kind = h.asked.kind /\ a.l.kind = q.kind
      /\ Fits(a.l) /\ Used(a.l) < a.l.max /\ keys[i] \in Keys /\ keys[i] \in Nat /\ g \in Nat
  BY BeforeKey DEF Paged
<1>2. a.left = Len(keys) - (i - 1) /\ ~a.skip /\ ~a.past /\ Len(keys) \in Nat
  BY DEF LoopInv, WalkOn, ReadingKeys
<1>3. a.left # 0
  BY <1>2
<1>4. /\ keys[i] \in h.ever /\ Pos(q, keys, i - 1) \in Nat /\ Pos(q, keys, i - 1) < keys[i]
      /\ Clear(h, Pos(q, keys, i - 1), keys[i])
  BY <1>1, NoGap
<1>5. PICK k \in h.ever, p \in Nat : k = keys[i] /\ p = Pos(q, keys, i - 1) /\ p < k /\ Clear(h, p, k)
  BY <1>4
<1>6. Going(c, h, a.l, p)
  BY <1>5 DEF LoopInv, WalkOn
<1>7. PICK m \in Nat : m = a.l.marker
  BY <1>1 DEF Pages
<1>8. v.end[g] \in Nat /\ (g # m => g \notin a.l.common)
  <2>1. PICK ks, gs : ks = Told(h, a.l) /\ gs = ToldGroups(h, a.l)
    OBVIOUS
  <2>2. Sound(h, ks, gs, m, p)
    BY <1>6, <1>7, <2>1 DEF Going, Filling, Filled
  <2>2a. h.asked.kind = "objects" /\ Starts(h.asked.view, k) /\ g = h.asked.view.group[k] /\ p < k
    BY <1>1, <1>5
  <2>3. v.end[g] \in Nat /\ (g # m => g \notin gs)
    <3>1. v.end[g] \in Nat /\ k <= v.end[g] /\ k \in Nat
      BY <1>1, <1>5 DEF ViewOK
    <3>2. p < v.end[g]
      BY <2>2a, <3>1
    <3> QED
      BY <2>2, <2>2a, <3>1, <3>2 DEF Sound
  <2> QED
    BY <2>1, <2>3 DEF ToldGroups
<1>9. PICK s : s = IF g = m THEN a.l.common ELSE a.l.common \cup {g}
  OBVIOUS
<1>10. s \in FinSets /\ Cardinality(s) \in Nat
       /\ Cardinality(s) = Cardinality(a.l.common) + IF g = m THEN 0 ELSE 1
  <2>1. PICK r : r = a.l.common
    OBVIOUS
  <2>2. r \in SUBSET Nat /\ IsFiniteSet(r)
    BY <1>1, <2>1 DEF Pages, FinSets
  <2>3. Cardinality(r) \in Nat
    BY <2>2, FS_CardinalityType
  <2>3a. IsFiniteSet(r)
    BY <2>2
  <2>4. IsFiniteSet(r \cup {g}) /\ Cardinality(r \cup {g}) = IF g \in r THEN Cardinality(r) ELSE Cardinality(r) + 1
    BY <2>3a, FS_AddElement
  <2>5. CASE g = m
    BY <1>9, <2>1, <2>2, <2>3, <2>5 DEF FinSets
  <2>6. CASE g # m
    BY <1>1, <1>8, <1>9, <2>1, <2>2, <2>3, <2>4, <2>6 DEF FinSets
  <2> QED
    BY <2>5, <2>6
<1>11. PICK x \in Nat : x = IF g = m THEN a.l.saved ELSE g
  BY <1>1 DEF Pages
<1>12. PICK y \in Nat : y = v.end[g]
  BY <1>8
<1>13. PICK t : t = [a.l EXCEPT !.common = s, !.saved = x, !.last = y]
  OBVIOUS
<1>14. t \in Pages /\ Same(t, a.l) /\ t.contents = a.l.contents /\ t.common = s /\ t.saved = x /\ t.last = y
       /\ t.kind = "objects" /\ t.max = a.l.max /\ t.view = v
  BY <1>1, <1>10, <1>13 DEF Pages, Same
<1>15. PICK b : b = [a EXCEPT !.stop = TRUE, !.skip = TRUE, !.l = t]
  OBVIOUS
<1>16. RollUp(a, g) = b
  BY <1>1, <1>7, <1>9, <1>11, <1>12, <1>13, <1>15, Zenon DEF RollUp
<1>17. b \in Loops /\ b.stop /\ b.skip /\ ~b.past /\ b.l = t /\ b.left = a.left
  BY <1>1, <1>2, <1>14, <1>15 DEF Loops
<1>18. /\ Listed(a.l) = Len(a.l.contents) + Cardinality(a.l.common)
       /\ Listed(t) = Len(a.l.contents) + Cardinality(s) /\ Used(a.l) = Listed(a.l)
  BY <1>1, <1>14 DEF Listed, Used
<1>19. Len(a.l.contents) \in Nat /\ Cardinality(a.l.common) \in Nat /\ a.l.max \in Nat
  BY <1>1, UsedType, Zenon
<1>20. Listed(t) <= t.max /\ (Listed(t) = t.max => g # m)
  <2>1. PICK n1 \in Nat, n2 \in Nat, n3 \in Nat :
           n1 = Len(a.l.contents) /\ n2 = Cardinality(a.l.common) /\ n3 = a.l.max
    BY <1>19
  <2>2. n1 + n2 < n3 /\ t.max = n3
    BY <1>1, <1>14, <1>18, <2>1
  <2>3. CASE g = m
    <3>1. Listed(t) = n1 + n2
      BY <1>9, <1>18, <2>1, <2>3
    <3> QED
      BY <2>2, <3>1
  <2>4. CASE g # m
    <3>1. Listed(t) = n1 + (n2 + 1)
      BY <1>10, <1>18, <2>1, <2>4
    <3> QED
      BY <2>2, <2>4, <3>1
  <2> QED
    BY <2>3, <2>4
<1>21. Fits(t)
  BY <1>14, <1>20 DEF Fits
<1>22. Going(c, h, t, y)
  <2>1. PICK l \in Pages : l = a.l
    BY <1>1
  <2>2. Going(c, h, l, p) /\ Same(t, l) /\ t.contents = l.contents
        /\ t.common = IF g = l.marker THEN l.common ELSE l.common \cup {g}
    BY <1>6, <1>7, <1>9, <1>14, <2>1
  <2>3. h.asked.kind = "objects" /\ Starts(h.asked.view, k) /\ g = h.asked.view.group[k]
    BY <1>1, <1>5
  <2>4. p < k /\ Clear(h, p, k) /\ g # 0 /\ t \in Pages
    BY <1>5, <1>14
  <2>5. Going(c, h, t, h.asked.view.end[g])
    BY <1>21, <2>2, <2>3, <2>4, GoingRollsUp
  <2> QED
    BY <1>12, <2>5
<1>23. Full(t) => t.saved \in t.common /\ t.last = t.view.end[t.saved]
  BY <1>9, <1>11, <1>12, <1>14, <1>20 DEF Full
<1>24. Same(t, q)
  BY <1>1, <1>14 DEF Same
<1>25. WalkSkips(c, h, q, b)
  BY <1>3, <1>14, <1>17, <1>22, <1>23 DEF WalkSkips
<1> QED
  BY <1>16, <1>17, <1>24, <1>25 DEF LoopInv

\* The next object.
LEMMA ObjectKeyWalks ==
    ASSUME ListingsWellFormed, NEW c \in BOOLEAN, NEW h, NEW q, NEW keys, ReadingKeys(c, h, q, keys), NEW i \in 1 .. Len(keys),
           NEW a, LoopInv(c, h, q, keys, i - 1, a), ~a.stop, q.kind = "objects"
    PROVE  LoopInv(c, h, q, keys, i, ObjectKey(a, keys[i]))
<1> DEFINE v == h.asked.view
<1>0. PICK k : k = keys[i]
  OBVIOUS
<1>1. /\ HistoryOK(h) /\ ViewOK(v) /\ a.l \in Pages /\ a \in Loops /\ Same(a.l, q)
      /\ a.l.view = v /\ a.l.kind = h.asked.kind /\ a.l.kind = q.kind
      /\ Fits(a.l) /\ Used(a.l) < a.l.max /\ k \in Keys /\ k \in Nat
  BY <1>0, BeforeKey DEF Paged
<1>2. a.left = Len(keys) - (i - 1) /\ ~a.skip /\ ~a.past /\ Len(keys) \in Nat
  BY DEF LoopInv, WalkOn, ReadingKeys
<1>3. v.lo \in Nat /\ v.hi \in Nat
  BY <1>1 DEF ViewOK
<1>4. CASE PastPrefix(v, k)
  <2>1. PICK b : b = [a EXCEPT !.stop = TRUE, !.past = TRUE, !.left = 0]
    OBVIOUS
  <2>2. ObjectKey(a, k) = b
    <3>1. ~Starts(v, k)
      BY <1>1, <1>3, <1>4 DEF Starts, PastPrefix
    <3> QED
      BY <1>1, <1>4, <2>1, <3>1 DEF ObjectKey
  <2>3. b \in Loops /\ b.stop /\ b.past /\ b.l = a.l /\ b.left = 0 /\ ~b.skip
    BY <1>1, <1>2, <2>1 DEF Loops
  <2>4. \A j \in Keys : Starts(v, j) /\ j > h.asked.start => j < k
    <3> SUFFICES ASSUME NEW j \in Keys, Starts(v, j) PROVE j < k
      OBVIOUS
    <3>1. j \in v.lo .. v.hi /\ k > v.hi
      BY <1>4 DEF Starts, PastPrefix
    <3> QED
      BY <1>1, <1>3, <3>1
  <2>5. WalkPast(c, h, q, b)
    BY <1>0, <2>3, <2>4, PastEnd DEF WalkPast
  <2> QED
    BY <1>0, <1>1, <2>2, <2>3, <2>5 DEF LoopInv
<1>5. CASE ~PastPrefix(v, k) /\ Starts(v, k) /\ v.group[k] # 0
  <2>1. ObjectKey(a, k) = RollUp(a, v.group[k])
    BY <1>1, <1>5 DEF ObjectKey
  <2>2. LoopInv(c, h, q, keys, i, RollUp(a, v.group[k]))
    BY <1>0, <1>5, RollUpWalks
  <2> QED
    BY <1>0, <2>1, <2>2
<1>6. CASE ~PastPrefix(v, k) /\ ~(Starts(v, k) /\ v.group[k] # 0)
  <2>1. PICK l : l = IF Starts(v, k) THEN Add(a.l, k) ELSE a.l
    OBVIOUS
  <2>2. ObjectKey(a, k) = EndOfKey(a, l, k)
    BY <1>1, <1>6, <2>1 DEF ObjectKey
  <2>3. Used(a.l) = Listed(a.l) /\ Len(a.l.contents) \in Nat /\ Cardinality(a.l.common) \in Nat /\ a.l.max \in Nat
    <3>1. Len(a.l.contents) \in Nat /\ Cardinality(a.l.common) \in Nat /\ a.l.max \in Nat
      BY <1>1, UsedType, Zenon
    <3> QED
      BY <1>1, <3>1 DEF Used
  <2>4. l \in Pages /\ Same(l, q) /\ Going(c, h, l, k)
        /\ (Used(l) = l.max => Sound(h, Told(h, l), ToldGroups(h, l), k, k))
    <3>1. CASE ~Starts(v, k) \/ k \in Corrupt
      <4>1. l = a.l /\ ~Wanted(h, k)
        BY <2>1, <3>1 DEF Add, Wanted
      <4>2. l \in Pages /\ Same(l, q) /\ Going(c, h, l, k)
        BY <1>0, <4>1, KeyPasses
      <4>3. Used(l) # l.max
        <5>1. Used(a.l) \in Nat
          BY <1>1, UsedType, Zenon
        <5> QED
          BY <1>1, <2>3, <4>1, <5>1
      <4> QED
        BY <4>2, <4>3
    <3>2. CASE Starts(v, k) /\ k \notin Corrupt
      <4>1. l = [a.l EXCEPT !.contents = Append(@, k)]
        BY <2>1, <3>2 DEF Add
      <4>2. a.l.contents \in Seq(Keys)
        BY <1>1 DEF Pages
      <4>3. Append(a.l.contents, k) \in Seq(Keys) /\ Len(Append(a.l.contents, k)) = Len(a.l.contents) + 1
        BY <1>1, <4>2, AppendProperties
      <4>4. l \in Pages /\ Same(l, a.l) /\ l.contents = Append(a.l.contents, k) /\ l.common = a.l.common
            /\ l.kind = a.l.kind /\ l.max = a.l.max
        BY <1>1, <4>1, <4>3 DEF Pages, Same
      <4>5. Fits(l)
        <5>1. Listed(l) = Len(a.l.contents) + 1 + Cardinality(a.l.common)
              /\ Listed(a.l) = Len(a.l.contents) + Cardinality(a.l.common)
          BY <1>1, <4>3, <4>4 DEF Listed
        <5>2. Listed(l) <= l.max
          BY <1>1, <2>3, <4>4, <5>1
        <5> QED
          BY <1>1, <4>4, <5>2 DEF Fits
      <4>6. v.group[k] = 0 /\ Holds(v, k)
        BY <1>1, <1>6, <3>2 DEF ViewOK
      <4>7. /\ Holds(v, keys[i]) /\ v.group[keys[i]] = 0 /\ Starts(v, keys[i])
            /\ l.contents = Append(a.l.contents, keys[i])
        BY <1>0, <3>2, <4>4, <4>6
      <4>8. Same(l, q) /\ Going(c, h, l, keys[i])
            /\ (h.asked.kind = "objects" => Sound(h, Told(h, l), ToldGroups(h, l), keys[i], keys[i]))
        BY <4>4, <4>5, <4>7, KeyAdds
      <4> QED
        BY <1>0, <1>1, <4>4, <4>8
    <3> QED
      BY <3>1, <3>2
  <2>5. Used(l) = Listed(l)
    BY <1>1, <2>4 DEF Used, Same
  <2>6. PICK ends \in BOOLEAN : ends <=> a.left = 1 \/ Listed(l) = l.max
    OBVIOUS
  <2>7. PICK b : b = [a EXCEPT !.left = @ - 1, !.stop = ends, !.l = IF ends THEN [l EXCEPT !.last = k] ELSE l]
    OBVIOUS
  <2>8. EndOfKey(a, l, k) = b
    BY <2>6, <2>7 DEF EndOfKey
  <2>9. LoopInv(c, h, q, keys, i, b)
    <3>1. q.kind # "buckets" /\ (ends <=> a.left = 1 \/ Used(l) = l.max)
      BY <2>5, <2>6
    <3>2. l \in Pages /\ Same(l, q) /\ Going(c, h, l, keys[i])
          /\ (Used(l) = l.max => Sound(h, Told(h, l), ToldGroups(h, l), keys[i], keys[i]))
      BY <1>0, <2>4
    <3>3. b = [a EXCEPT !.left = @ - 1, !.stop = ends, !.l = IF ends THEN [l EXCEPT !.last = keys[i]] ELSE l]
      BY <1>0, <2>7
    <3> QED
      BY <3>1, <3>2, <3>3, KeyEnds
  <2> QED
    BY <1>0, <2>2, <2>8, <2>9
<1> QED
  BY <1>4, <1>5, <1>6

\* The next key, if the loop has not ended.
LEMMA KeyWalks ==
    ASSUME ListingsWellFormed, NEW c \in BOOLEAN, NEW h, NEW q, NEW keys, ReadingKeys(c, h, q, keys), NEW i \in 1 .. Len(keys),
           NEW a, LoopInv(c, h, q, keys, i - 1, a)
    PROVE  LoopInv(c, h, q, keys, i, VisitKey(a, keys[i]))
<1>1. CASE a.stop
  <2>1. VisitKey(a, keys[i]) = a
    BY <1>1 DEF VisitKey
  <2>2. LoopInv(c, h, q, keys, i, a)
    BY <1>1 DEF LoopInv
  <2> QED
    BY <2>1, <2>2
<1>2. CASE ~a.stop
  <2>1. a.l.kind = q.kind
    BY DEF LoopInv, Same
  <2>2. q.kind \in ListKinds
    BY DEF ReadingKeys, Going, Filling, Filled, Base, Pages
  <2>3. CASE q.kind = "objects"
    <3>1. VisitKey(a, keys[i]) = ObjectKey(a, keys[i])
      BY <1>2, <2>1, <2>3 DEF VisitKey
    <3>2. LoopInv(c, h, q, keys, i, ObjectKey(a, keys[i]))
      BY <1>2, <2>3, ObjectKeyWalks
    <3> QED
      BY <3>1, <3>2
  <2>4. CASE q.kind = "uploads"
    <3>1. VisitKey(a, keys[i]) = UploadKey(a, keys[i])
      BY <1>2, <2>1, <2>4 DEF VisitKey
    <3>2. LoopInv(c, h, q, keys, i, UploadKey(a, keys[i]))
      BY <1>2, <2>4, UploadKeyWalks
    <3> QED
      BY <3>1, <3>2
  <2>5. CASE q.kind = "kvs"
    <3>1. VisitKey(a, keys[i]) = FilteredKey(a, keys[i])
      BY <1>2, <2>1, <2>5 DEF VisitKey
    <3>2. LoopInv(c, h, q, keys, i, FilteredKey(a, keys[i]))
      BY <1>2, <2>5, FilteredKeyWalks
    <3> QED
      BY <3>1, <3>2
  <2>6. CASE q.kind = "parts"
    <3>1. VisitKey(a, keys[i]) = PartKey(a, keys[i])
      BY <1>2, <2>1, <2>6 DEF VisitKey
    <3>2. LoopInv(c, h, q, keys, i, PartKey(a, keys[i]))
      BY <1>2, <2>6, PartKeyWalks
    <3> QED
      BY <3>1, <3>2
  <2>7. CASE q.kind = "buckets"
    <3>1. VisitKey(a, keys[i]) = BucketKey(a, keys[i])
      BY <1>2, <2>1, <2>7 DEF VisitKey
    <3>2. LoopInv(c, h, q, keys, i, BucketKey(a, keys[i]))
      BY <1>2, <2>7, BucketKeyWalks
    <3> QED
      BY <3>1, <3>2
  <2> QED
    BY <2>2, <2>3, <2>4, <2>5, <2>6, <2>7 DEF ListKinds
<1> QED
  BY <1>1, <1>2

\* All the keys of a read.
LEMMA LoopWalks ==
    ASSUME ListingsWellFormed, NEW c \in BOOLEAN, NEW h, NEW q, NEW keys, ReadingKeys(c, h, q, keys)
    PROVE  LoopInv(c, h, q, keys, Len(keys), Visited(q, keys))
<1>1. keys \in Seq(Keys) /\ Len(keys) \in Nat
  BY DEF ReadingKeys
<1>2. PICK a : /\ a[0] = Loop(q, keys)
               /\ \A i \in 1 .. Len(keys) : a[i] = VisitKey(a[i - 1], keys[i])
               /\ Visited(q, keys) = a[Len(keys)]
  BY <1>1, VisitedSteps
<1> DEFINE Bad == {i \in 0 .. Len(keys) : ~LoopInv(c, h, q, keys, i, a[i])}
<1>3. LoopInv(c, h, q, keys, 0, a[0])
  <2>1. PICK b : b = a[0]
    OBVIOUS
  <2>2. b = [l |-> q, left |-> Len(keys), stop |-> FALSE, skip |-> FALSE, past |-> FALSE]
    BY <1>2, <2>1 DEF Loop
  <2>3. q \in Pages
    BY DEF ReadingKeys, Going, Filling, Filled, Base
  <2>4. b \in Loops /\ b.l = q /\ b.left = Len(keys) /\ ~b.stop /\ ~b.skip /\ ~b.past
    BY <1>1, <2>2, <2>3 DEF Loops
  <2>5. Going(c, h, q, Pos(q, keys, 0)) /\ Room(q)
    BY DEF ReadingKeys, Pos
  <2>6. Len(keys) = Len(keys) - 0
    BY <1>1
  <2>7. Same(q, q)
    BY DEF Same
  <2>8. LoopInv(c, h, q, keys, 0, b)
    BY <2>4, <2>5, <2>6, <2>7 DEF LoopInv, WalkOn
  <2> QED
    BY <2>1, <2>8
<1>4. ASSUME NEW i \in 1 .. Len(keys), LoopInv(c, h, q, keys, i - 1, a[i - 1])
      PROVE  LoopInv(c, h, q, keys, i, a[i])
  <2>1. PICK b : b = a[i - 1]
    OBVIOUS
  <2>2. LoopInv(c, h, q, keys, i - 1, b)
    BY <1>4, <2>1
  <2>3. LoopInv(c, h, q, keys, i, VisitKey(b, keys[i]))
    BY <2>2, KeyWalks
  <2> QED
    BY <1>2, <2>1, <2>3
<1>5. Bad = {}
  <2>0. SUFFICES ASSUME Bad # {} PROVE FALSE
    OBVIOUS
  <2>1. Bad \in SUBSET Nat
    BY <1>1
  <2>2. PICK i \in Bad : \A j \in Bad : i <= j
    <3> HIDE DEF Bad
    <3> QED
      BY <2>0, <2>1, LeastNumber
  <2>3. i \in 0 .. Len(keys) /\ ~LoopInv(c, h, q, keys, i, a[i]) /\ i \in Nat
    BY <1>1
  <2>4. i # 0
    BY <1>3, <2>3
  <2>5. i - 1 \in 0 .. Len(keys) /\ i \in 1 .. Len(keys) /\ ~(i <= i - 1)
    BY <1>1, <2>3, <2>4
  <2>6. i - 1 \notin Bad
    BY <2>2, <2>5
  <2>7. LoopInv(c, h, q, keys, i - 1, a[i - 1])
    BY <2>5, <2>6
  <2> QED
    BY <1>4, <2>3, <2>5, <2>7
<1>6. Len(keys) \in 0 .. Len(keys)
  BY <1>1
<1>7. LoopInv(c, h, q, keys, Len(keys), a[Len(keys)])
  BY <1>5, <1>6
<1> QED
  BY <1>2, <1>7

-----------------------------------------------------------------------------
(* Listings: the end of a read.                                            *)

Leads(c, h, x) == PageInv(c, SeenBy(h, x), x)

\* What the theorems assume of a read that found as many keys as it asked
\* for: the last upload can be read, and the page of objects is not full with
\* the last key.
EndsWell(c, q, keys, a) ==
    Len(keys) = q.count =>
        /\ q.kind = "uploads" => keys[Len(keys)] \notin Corrupt
        /\ c /\ q.kind = "objects" => ~(Full(a.l) /\ a.left = 0)

LEMMA SameReads ==
    ASSUME NEW c \in BOOLEAN, NEW h, NEW q, NEW keys, ReadingKeys(c, h, q, keys),
           NEW l \in Pages, Same(l, q), NEW p \in Nat, Going(c, h, l, p)
    PROVE  /\ ~l.reading /\ ~l.checkMore /\ ~l.big /\ ~FromPrefix(l) /\ HistoryOK(h) /\ Filling(h, l, p)
           /\ l.last \in Nat /\ l.kind = q.kind /\ l.count = q.count /\ l.count \in Nat
           /\ (Paged(l) => l.max # 0) /\ Fits(l)
           /\ p = l.last /\ Room(l) => Ready(c, h, l)
<1>1. /\ ~l.reading /\ ~l.checkMore /\ ~l.big /\ ~FromPrefix(l) /\ l.kind = q.kind /\ l.count = q.count
      /\ (Paged(l) => l.max # 0)
  BY DEF ReadingKeys, Same, FromPrefix, Paged
<1>2. HistoryOK(h) /\ Filling(h, l, p) /\ Fits(l)
  BY DEF Going, Filling, Filled, Base
<1>3. l.last \in Nat /\ l.count \in Nat
  BY DEF Pages
<1>4. p = l.last /\ Room(l) => Ready(c, h, l)
  BY <1>1 DEF Ready
<1> QED
  BY <1>1, <1>2, <1>3, <1>4

\* The last page is answered when the read found the last key.
LEMMA LastAnswers ==
    ASSUME ListingsWellFormed, NEW c \in BOOLEAN, NEW h, NEW q, NEW keys, ReadingKeys(c, h, q, keys),
           NEW l \in Pages, Same(l, q), NEW p \in Nat, Going(c, h, l, p), p = keys[Len(keys)],
           c => Len(keys) # q.count
    PROVE  Leads(c, h, Answer(l))
<1>1. HistoryOK(h) /\ Filling(h, l, p) /\ ~l.reading /\ q.count \in Nat
  BY SameReads
<1>2. c => AllTold(h, Told(h, l), ToldGroups(h, l))
  <2> SUFFICES ASSUME c PROVE AllTold(h, Told(h, l), ToldGroups(h, l))
    OBVIOUS
  <2>1. \A k \in h.stable : k <= p
    BY <1>1, LastKey
  <2>2. Upto(h, Told(h, l), ToldGroups(h, l), p)
    BY DEF Going
  <2>3. PICK ks, gs : ks = Told(h, l) /\ gs = ToldGroups(h, l)
    OBVIOUS
  <2>4. Upto(h, ks, gs, p)
    BY <2>2, <2>3
  <2>5. AllTold(h, ks, gs)
    BY <1>1, <2>1, <2>4, UptoEnd
  <2> QED
    BY <2>3, <2>5
<1>3. PageInv(c, SeenBy(h, Answer(l)), Answer(l))
  BY <1>1, <1>2, FillAnswers
<1> QED
  BY <1>3 DEF Leads

\* A full page, whose last entry is a key, is truncated there.
LEMMA FullTruncates ==
    ASSUME ListingsWellFormed, NEW c \in BOOLEAN, NEW h, NEW q, NEW keys, ReadingKeys(c, h, q, keys),
           NEW a, a \in Loops, Same(a.l, q), WalkEnds(c, h, q, keys, a), Used(a.l) = a.l.max
    PROVE  Leads(c, h, Truncate(a.l, a.l.last))
<1>1. PICK l \in Pages : l = a.l
  BY DEF Loops
<1>2. PICK p \in Nat : p = l.last
  BY DEF Pages
<1>3. Same(l, q) /\ Going(c, h, l, p) /\ p # 0 /\ Sound(h, Told(h, l), ToldGroups(h, l), p, p)
  BY <1>1, <1>2 DEF WalkEnds
<1>4. Filling(h, l, p) /\ ~l.reading
  BY <1>3, SameReads
<1>5. c => Upto(h, Told(h, l), ToldGroups(h, l), p)
  BY <1>3 DEF Going
<1>6. PageInv(c, SeenBy(h, Truncate(l, p)), Truncate(l, p))
  BY <1>3, <1>4, <1>5, FillTruncates
<1> QED
  BY <1>1, <1>2, <1>6 DEF Leads

\* A page with room left, at the end of a read: the next keys are read, or
\* this was the last of them.
LEMMA RoomGoesOn ==
    ASSUME ListingsWellFormed, NEW c \in BOOLEAN, NEW h, NEW q, NEW keys, ReadingKeys(c, h, q, keys),
           NEW a, a \in Loops, Same(a.l, q), WalkEnds(c, h, q, keys, a), Used(a.l) # a.l.max
    PROVE  /\ Ready(c, h, a.l) /\ ~a.l.reading
           /\ Len(keys) # q.count => Leads(c, h, Answer(a.l))
<1>1. PICK l \in Pages : l = a.l
  BY DEF Loops
<1>2. PICK p \in Nat : p = l.last
  BY DEF Pages
<1>3. Same(l, q) /\ Going(c, h, l, p) /\ p = keys[Len(keys)]
  BY <1>1, <1>2 DEF WalkEnds
<1>4. ~l.reading /\ Fits(l) /\ (p = l.last /\ Room(l) => Ready(c, h, l))
  BY <1>3, SameReads
<1>5. Room(l)
  <2>1. Used(l) \in Nat /\ Listed(l) \in Nat /\ l.max \in Nat /\ l.size \in Nat
    BY UsedType
  <2>2. Used(l) # l.max
    BY <1>1
  <2> QED
    BY <1>4, <2>1, <2>2 DEF Room, Fits, Used
<1>6. Len(keys) # q.count => Leads(c, h, Answer(l))
  BY <1>3, LastAnswers
<1> QED
  BY <1>1, <1>2, <1>4, <1>5, <1>6

\* What the loop leaves: past the prefix, at a common prefix, at an end, or
\* behind a last key that it does not stop at.
LEMMA LoopEnds ==
    ASSUME ListingsWellFormed, NEW c \in BOOLEAN, NEW h, NEW q, NEW keys, ReadingKeys(c, h, q, keys),
           NEW a, LoopInv(c, h, q, keys, Len(keys), a)
    PROVE  /\ a \in Loops /\ a.l \in Pages /\ Same(a.l, q) /\ a.l.kind = q.kind /\ a.l.count = q.count
           /\ \/ a.past /\ WalkPast(c, h, q, a)
              \/ ~a.past /\ a.skip /\ WalkSkips(c, h, q, a)
              \/ ~a.past /\ ~a.skip /\ WalkEnds(c, h, q, keys, a)
              \/ /\ ~a.past /\ ~a.skip /\ Room(a.l) /\ keys[Len(keys)] \in Nat
                 /\ Going(c, h, a.l, keys[Len(keys)])
                 /\ IF q.kind = "buckets" THEN a.l.last = keys[Len(keys)]
                    ELSE q.kind = "uploads" /\ keys[Len(keys)] \in Corrupt
<1>0. Len(keys) \in 1 .. Len(keys) /\ Len(keys) # 0
  BY DEF ReadingKeys
<1>1. a \in Loops /\ a.l \in Pages /\ Same(a.l, q) /\ a.l.kind = q.kind /\ a.l.count = q.count
  BY DEF LoopInv, Loops, Same
<1>2. CASE a.stop
  BY <1>1, <1>2 DEF LoopInv, Loops
<1>3. CASE ~a.stop
  <2>1. WalkOn(c, h, q, keys, Len(keys), a)
    BY <1>3 DEF LoopInv
  <2>2. HistoryOK(h)
    BY DEF ReadingKeys, Going, Filling, Filled, Base
  <2>3. Pos(q, keys, Len(keys)) = keys[Len(keys)] /\ keys[Len(keys)] \in Nat
    BY <1>0, <2>2, NoGap
  <2> QED
    BY <1>0, <1>1, <2>1, <2>3 DEF WalkOn
<1> QED
  BY <1>1, <1>2, <1>3

LEMMA PastAnswers ==
    ASSUME ListingsWellFormed, NEW c \in BOOLEAN, NEW h, NEW q, NEW keys, ReadingKeys(c, h, q, keys),
           NEW a, a.l \in Pages, Same(a.l, q), WalkPast(c, h, q, a)
    PROVE  Leads(c, h, Answer(a.l))
<1>1. PICK l \in Pages : l = a.l
  OBVIOUS
<1>2. PICK p \in Nat : Filling(h, l, p)
  BY <1>1 DEF WalkPast
<1>3. ~l.reading /\ (c => AllTold(h, Told(h, l), ToldGroups(h, l)))
  BY <1>1 DEF WalkPast, Same, ReadingKeys
<1>4. PageInv(c, SeenBy(h, Answer(l)), Answer(l))
  BY <1>2, <1>3, FillAnswers
<1> QED
  BY <1>1, <1>4 DEF Leads

LEMMA BucketsPageLeads ==
    ASSUME ListingsWellFormed, NEW c \in BOOLEAN, NEW h, NEW q, NEW keys, ReadingKeys(c, h, q, keys),
           NEW a, LoopInv(c, h, q, keys, Len(keys), a), q.kind = "buckets"
    PROVE  Leads(c, h, BucketsPage(a, Len(keys)))
<1>1. a \in Loops /\ a.l \in Pages /\ Same(a.l, q) /\ a.l.kind = q.kind /\ a.l.count = q.count
  BY LoopEnds
<1>2. CASE a.past /\ WalkPast(c, h, q, a)
  <2>1. BucketsPage(a, Len(keys)) = Answer(a.l)
    BY <1>2 DEF BucketsPage
  <2>2. Leads(c, h, Answer(a.l))
    BY <1>1, <1>2, PastAnswers
  <2> QED
    BY <2>1, <2>2
<1>3. CASE /\ ~a.past /\ Room(a.l) /\ keys[Len(keys)] \in Nat
           /\ Going(c, h, a.l, keys[Len(keys)]) /\ a.l.last = keys[Len(keys)]
  <2>1. PICK l \in Pages : l = a.l
    BY <1>1
  <2>2. PICK p \in Nat : p = l.last
    BY DEF Pages
  <2>3. Same(l, q) /\ Going(c, h, l, p) /\ p = keys[Len(keys)] /\ Room(l)
    BY <1>1, <1>3, <2>1, <2>2
  <2>4. CASE Len(keys) = q.count
    <3>1. Ready(c, h, l) /\ ~l.reading /\ l.kind = "buckets"
      BY <2>2, <2>3, SameReads
    <3>2. Leads(c, h, GetNextBuckets(l))
      BY <3>1, ReadyReads DEF Leads
    <3> QED
      BY <1>1, <1>3, <2>1, <2>4, <3>2 DEF BucketsPage
  <2>5. CASE Len(keys) # q.count
    <3>1. Leads(c, h, Answer(l))
      BY <2>3, <2>5, LastAnswers
    <3> QED
      BY <1>1, <2>1, <2>5, <3>1 DEF BucketsPage
  <2> QED
    BY <2>4, <2>5
<1>4. ~WalkSkips(c, h, q, a) /\ ~WalkEnds(c, h, q, keys, a)
  BY DEF WalkSkips, WalkEnds
<1> QED
  BY <1>2, <1>3, <1>4, LoopEnds

\* Uploads, parts and the keys of an index.
LEMMA PlainPageLeads ==
    ASSUME ListingsWellFormed, NEW c \in BOOLEAN, NEW h, NEW q, NEW keys, ReadingKeys(c, h, q, keys),
           NEW a, LoopInv(c, h, q, keys, Len(keys), a), q.kind \in {"uploads", "parts", "kvs"},
           EndsWell(c, q, keys, a)
    PROVE  /\ a.l.kind = q.kind /\ a.l.count = q.count
           /\ Used(a.l) = a.l.max => Leads(c, h, Truncate(a.l, a.l.last))
           /\ Used(a.l) # a.l.max /\ Len(keys) = q.count => Ready(c, h, a.l) /\ ~a.l.reading
           /\ Used(a.l) # a.l.max /\ Len(keys) # q.count => Leads(c, h, Answer(a.l))
<1>1. a \in Loops /\ a.l \in Pages /\ Same(a.l, q) /\ a.l.kind = q.kind /\ a.l.count = q.count
  BY LoopEnds
<1>2. CASE WalkEnds(c, h, q, keys, a)
  <2>1. Used(a.l) = a.l.max => Leads(c, h, Truncate(a.l, a.l.last))
    BY <1>1, <1>2, FullTruncates
  <2>2. Used(a.l) # a.l.max => /\ Ready(c, h, a.l) /\ ~a.l.reading
                               /\ Len(keys) # q.count => Leads(c, h, Answer(a.l))
    BY <1>1, <1>2, RoomGoesOn
  <2> QED
    BY <1>1, <2>1, <2>2
<1>3. CASE /\ Room(a.l) /\ keys[Len(keys)] \in Nat /\ Going(c, h, a.l, keys[Len(keys)])
           /\ q.kind = "uploads" /\ keys[Len(keys)] \in Corrupt
  <2>1. Len(keys) # q.count
    BY <1>3 DEF EndsWell
  <2>2. PICK l \in Pages : l = a.l
    BY <1>1
  <2>3. PICK p \in Nat : p = keys[Len(keys)]
    BY <1>3
  <2>4. Same(l, q) /\ Going(c, h, l, p)
    BY <1>1, <1>3, <2>2, <2>3
  <2>5. Leads(c, h, Answer(l))
    BY <2>1, <2>3, <2>4, LastAnswers
  <2>6. Used(l) # l.max
    <3>1. Paged(l) /\ l.max # 0
      BY <1>1, <1>3, <2>2, <2>4, SameReads DEF Paged
    <3>2. Used(l) \in Nat /\ l.max \in Nat
      BY UsedType
    <3> QED
      BY <1>3, <2>2, <3>1, <3>2 DEF Room
  <2> QED
    BY <1>1, <2>1, <2>2, <2>5, <2>6
<1>4. ~WalkSkips(c, h, q, a) /\ ~WalkPast(c, h, q, a)
  BY DEF WalkSkips, WalkPast
<1> QED
  BY <1>2, <1>3, <1>4, LoopEnds

LEMMA PlainPagesLead ==
    ASSUME ListingsWellFormed, NEW c \in BOOLEAN, NEW h, NEW q, NEW keys, ReadingKeys(c, h, q, keys),
           NEW a, LoopInv(c, h, q, keys, Len(keys), a), EndsWell(c, q, keys, a)
    PROVE  /\ q.kind = "uploads" => Leads(c, h, UploadsPage(a, Len(keys)))
           /\ q.kind = "parts" => Leads(c, h, PartsPage(a, Len(keys)))
           /\ q.kind = "kvs" => Leads(c, h, KeysPage(a, Len(keys)))
<1>1. q.kind \in {"uploads", "parts", "kvs"} =>
        /\ a.l.kind = q.kind /\ a.l.count = q.count
        /\ Used(a.l) = a.l.max => Leads(c, h, Truncate(a.l, a.l.last))
        /\ Used(a.l) # a.l.max /\ Len(keys) = q.count => Ready(c, h, a.l) /\ ~a.l.reading
        /\ Used(a.l) # a.l.max /\ Len(keys) # q.count => Leads(c, h, Answer(a.l))
  BY PlainPageLeads
<1>2. PICK l : l = a.l
  OBVIOUS
<1>3. Ready(c, h, l) /\ ~l.reading =>
        /\ l.kind = "uploads" => Leads(c, h, GetNextUploads(l))
        /\ l.kind = "parts" => Leads(c, h, GetNextParts(l))
        /\ l.kind = "kvs" => Leads(c, h, GetNextKeyValue(l))
  BY ReadyReads DEF Leads
<1>4. q.kind \in {"uploads", "kvs"} => (Used(l) = l.max <=> Full(l))
  BY <1>1, <1>2 DEF Used, Full
<1>5. q.kind = "parts" => Used(l) = l.size
  BY <1>1, <1>2 DEF Used
<1>6. q.kind = "uploads" => Leads(c, h, UploadsPage(a, Len(keys)))
  BY <1>1, <1>2, <1>3, <1>4 DEF UploadsPage
<1>7. q.kind = "parts" => Leads(c, h, PartsPage(a, Len(keys)))
  BY <1>1, <1>2, <1>3, <1>5 DEF PartsPage
<1>8. q.kind = "kvs" => Leads(c, h, KeysPage(a, Len(keys)))
  BY <1>1, <1>2, <1>3, <1>4 DEF KeysPage
<1> QED
  BY <1>6, <1>7, <1>8

\* A full page that ends with a common prefix: one more read.
LEMMA CheckMoreLeads ==
    ASSUME ListingsWellFormed, NEW c \in BOOLEAN, NEW h, NEW q, NEW keys, ReadingKeys(c, h, q, keys),
           NEW a, a.l \in Pages, Same(a.l, q), WalkSkips(c, h, q, a), Full(a.l)
    PROVE  Leads(c, h, CheckMore(a.l))
<1>1. PICK l \in Pages : l = a.l
  OBVIOUS
<1>2. PICK p \in Nat : p = l.last
  BY DEF Pages
<1>3. Same(l, q) /\ Going(c, h, l, p) /\ q.kind = "objects" /\ l.saved \in l.common /\ l.last = l.view.end[l.saved]
  BY <1>1, <1>2 DEF WalkSkips
<1>4. /\ ~l.reading /\ ~l.big /\ ~FromPrefix(l) /\ l.kind = "objects" /\ l.max # 0 /\ Fits(l)
  BY <1>3, SameReads DEF Paged
<1>5. PICK t : t = [l EXCEPT !.checkMore = TRUE]
  OBVIOUS
<1>6. /\ t \in Pages /\ t.checkMore /\ t.contents = l.contents /\ t.common = l.common /\ t.last = l.last
      /\ t.saved = l.saved /\ t.view = l.view /\ t.kind = l.kind /\ t.max = l.max /\ t.fetch = l.fetch
      /\ t.marker = l.marker /\ t.pc = l.pc /\ t.truncated = l.truncated /\ t.reading = l.reading
      /\ t.big = l.big /\ t.first = l.first /\ t.size = l.size
  BY <1>5 DEF Pages
<1>7. Going(c, h, t, t.last)
  <2>1. Told(h, t) = Told(h, l) /\ ToldGroups(h, t) = ToldGroups(h, l) /\ Fits(t)
    BY <1>4, <1>6 DEF Told, ToldGroups, Fits, Paged, Listed
  <2> QED
    BY <1>2, <1>3, <1>6, <2>1 DEF Going, Filling, Filled, Base
<1>8. Checking(t) /\ ~FromPrefix(t) /\ ~t.reading
  BY <1>3, <1>4, <1>6 DEF Checking, FromPrefix
<1>9. Ready(c, h, t)
  BY <1>4, <1>6, <1>7, <1>8 DEF Ready
<1>10. Leads(c, h, GetNextObjects(t))
  BY <1>4, <1>6, <1>8, <1>9, ReadyReads DEF Leads
<1> QED
  BY <1>1, <1>5, <1>10 DEF CheckMore

LEMMA ObjectsPageLeads ==
    ASSUME ListingsWellFormed, NEW c \in BOOLEAN, NEW h, NEW q, NEW keys, ReadingKeys(c, h, q, keys),
           NEW a, LoopInv(c, h, q, keys, Len(keys), a), q.kind = "objects", EndsWell(c, q, keys, a)
    PROVE  Leads(c, h, ObjectsPage(a, Len(keys)))
<1>1. a \in Loops /\ a.l \in Pages /\ Same(a.l, q) /\ a.l.kind = q.kind /\ a.l.count = q.count
  BY LoopEnds
<1>1a. Full(a.l) <=> Used(a.l) = a.l.max
  BY <1>1 DEF Full, Used
<1>2. CASE a.past /\ WalkPast(c, h, q, a)
  <2>1. a.left = 0
    BY <1>2 DEF WalkPast
  <2>2. ObjectsPage(a, Len(keys)) = Answer(a.l)
    BY <1>2, <2>1 DEF ObjectsPage
  <2>3. Leads(c, h, Answer(a.l))
    BY <1>1, <1>2, PastAnswers
  <2> QED
    BY <2>2, <2>3
<1>3. CASE ~a.past /\ a.skip /\ WalkSkips(c, h, q, a)
  <2>1. a.left # 0
    BY <1>3 DEF WalkSkips
  <2>2. CASE Full(a.l)
    <3>1. ObjectsPage(a, Len(keys)) = CheckMore(a.l)
      BY <1>3, <2>1, <2>2 DEF ObjectsPage
    <3>2. Leads(c, h, CheckMore(a.l))
      BY <1>1, <1>3, <2>2, CheckMoreLeads
    <3> QED
      BY <3>1, <3>2
  <2>3. CASE ~Full(a.l)
    <3>1. ObjectsPage(a, Len(keys)) = GetNextObjects(a.l)
      BY <1>3, <2>1, <2>3 DEF ObjectsPage
    <3>2. PICK l \in Pages : l = a.l
      BY <1>1
    <3>3. PICK p \in Nat : p = l.last
      BY DEF Pages
    <3>4. Same(l, q) /\ Going(c, h, l, p)
      BY <1>1, <1>3, <3>2, <3>3 DEF WalkSkips
    <3>5. ~l.reading /\ Fits(l) /\ l.kind = "objects" /\ (p = l.last /\ Room(l) => Ready(c, h, l))
      BY <3>4, SameReads
    <3>6. Room(l)
      <4>1. Used(l) \in Nat /\ Listed(l) \in Nat /\ l.max \in Nat
        BY UsedType
      <4>2. Used(l) # l.max
        BY <1>1a, <2>3, <3>2
      <4> QED
        BY <3>5, <4>1, <4>2 DEF Room, Fits, Used
    <3>7. Leads(c, h, GetNextObjects(l))
      BY <3>3, <3>5, <3>6, ReadyReads DEF Leads
    <3> QED
      BY <3>1, <3>2, <3>7
  <2> QED
    BY <2>2, <2>3
<1>4. CASE ~a.past /\ ~a.skip /\ WalkEnds(c, h, q, keys, a)
  <2>1. CASE Full(a.l) /\ a.left # 0
    <3>1. ObjectsPage(a, Len(keys)) = Truncate(a.l, a.l.last)
      BY <1>4, <2>1 DEF ObjectsPage
    <3>2. Leads(c, h, Truncate(a.l, a.l.last))
      BY <1>1, <1>1a, <1>4, <2>1, FullTruncates
    <3> QED
      BY <3>1, <3>2
  <2>2. CASE Full(a.l) /\ a.left = 0
    <3>1. ObjectsPage(a, Len(keys)) = Answer(a.l)
      BY <1>4, <2>2 DEF ObjectsPage
    <3>2. c => Len(keys) # q.count
      BY <2>2 DEF EndsWell
    <3>3. PICK l \in Pages : l = a.l
      BY <1>1
    <3>4. PICK p \in Nat : p = l.last
      BY DEF Pages
    <3>5. Same(l, q) /\ Going(c, h, l, p) /\ p = keys[Len(keys)]
      BY <1>1, <1>4, <2>2, <3>3, <3>4 DEF WalkEnds
    <3>6. Leads(c, h, Answer(l))
      BY <3>2, <3>5, LastAnswers
    <3> QED
      BY <3>1, <3>3, <3>6
  <2>3. CASE ~Full(a.l)
    <3>1. /\ Ready(c, h, a.l) /\ ~a.l.reading
          /\ Len(keys) # q.count => Leads(c, h, Answer(a.l))
      BY <1>1, <1>1a, <1>4, <2>3, RoomGoesOn
    <3>2. PICK l : l = a.l
      OBVIOUS
    <3>3. Leads(c, h, GetNextObjects(l))
      BY <1>1, <3>1, <3>2, ReadyReads DEF Leads
    <3> QED
      BY <1>1, <1>4, <2>3, <3>1, <3>2, <3>3 DEF ObjectsPage
  <2> QED
    BY <2>1, <2>2, <2>3
<1> QED
  BY <1>2, <1>3, <1>4, LoopEnds

\* The page after the keys of a read.
LEMMA PageLeads ==
    ASSUME ListingsWellFormed, NEW c \in BOOLEAN, NEW h, NEW q, NEW keys, ReadingKeys(c, h, q, keys),
           EndsWell(c, q, keys, Visited(q, keys))
    PROVE  Leads(c, h, Page(Visited(q, keys), Len(keys)))
<1>1. PICK a : a = Visited(q, keys)
  OBVIOUS
<1>2. LoopInv(c, h, q, keys, Len(keys), a) /\ EndsWell(c, q, keys, a)
  BY <1>1, LoopWalks
<1>3. a.l.kind = q.kind
  BY <1>2, LoopEnds
<1>4. q.kind \in ListKinds
  BY DEF ReadingKeys, Going, Filling, Filled, Base, Pages
<1>5. /\ q.kind = "uploads" => Leads(c, h, UploadsPage(a, Len(keys)))
      /\ q.kind = "parts" => Leads(c, h, PartsPage(a, Len(keys)))
      /\ q.kind = "kvs" => Leads(c, h, KeysPage(a, Len(keys)))
  BY <1>2, PlainPagesLead
<1>6. q.kind = "buckets" => Leads(c, h, BucketsPage(a, Len(keys)))
  BY <1>2, BucketsPageLeads
<1>7. q.kind = "objects" => Leads(c, h, ObjectsPage(a, Len(keys)))
  BY <1>2, ObjectsPageLeads
<1>8. Leads(c, h, Page(a, Len(keys)))
  BY <1>3, <1>4, <1>5, <1>6, <1>7 DEF Page, ListKinds
<1> QED
  BY <1>1, <1>8

-----------------------------------------------------------------------------
(* Listings: the call-backs of a read.                                     *)

\* The page when the call-back begins.
ReadEndsWell(c, l) ==
    l.pc = "fetched" /\ l.found # <<>> /\ ~l.checkMore =>
        EndsWell(c, Read(l), l.found, Visited(Read(l), l.found))

\* The page t that goes on from l's read.
Back(t, l) ==
    /\ t \in Pages /\ t.kind = l.kind /\ t.view = l.view /\ t.max = l.max /\ t.fetch = l.fetch
    /\ t.marker = l.marker /\ t.pc = l.pc /\ t.first = l.first /\ t.included = l.included
    /\ t.checkMore = l.checkMore /\ t.count = l.count /\ t.truncated = l.truncated /\ ~t.reading
    /\ t.last = l.last /\ t.saved = l.saved /\ t.contents = l.contents /\ t.common = l.common
    /\ t.size = l.size /\ t.down = l.down

LEMMA ReadGoesOn ==
    ASSUME NEW c \in BOOLEAN, NEW h, NEW l, PageInv(c, h, l), l.pc \in {"fetch", "fetched"},
           NEW t, Back(t, l)
    PROVE  /\ l \in Pages /\ HistoryOK(h) /\ h \in Histories /\ ~t.reading
           /\ From(t) \in Nat /\ From(t) = From(l) /\ Going(c, h, t, From(t)) /\ Filling(h, t, From(t))
           /\ IF t.checkMore THEN Checking(t) /\ ~t.included ELSE Room(t)
           /\ t.max # 0 \/ ~Paged(t)
           /\ t.count > 0 /\ ~FromPrefix(t)
           /\ t.included => t.kind = "objects" /\ t.last = t.view.lo
           /\ t.kind = h.asked.kind /\ t.view = h.asked.view
<1>1. /\ l \in Pages /\ HistoryOK(h) /\ h \in Histories /\ Base(h, l) /\ Fetching(c, h, l)
  BY DEF PageInv, Base
<1>2. /\ t.kind = l.kind /\ t.view = l.view /\ t.max = l.max /\ t.fetch = l.fetch
      /\ t.marker = l.marker /\ t.pc = l.pc /\ t.first = l.first /\ t.included = l.included
      /\ t.checkMore = l.checkMore /\ t.count = l.count /\ t.truncated = l.truncated /\ ~t.reading
  BY DEF Back
<1>2a. /\ t \in Pages /\ t.last = l.last /\ t.saved = l.saved
       /\ t.contents = l.contents /\ t.common = l.common /\ t.size = l.size
  BY DEF Back
<1>3. From(t) = From(l) /\ From(l) \in Nat
  BY <1>1, <1>2, <1>2a, <1>2a DEF From, Fetching
<1>4. Told(h, t) = Told(h, l) /\ ToldGroups(h, t) = ToldGroups(h, l) /\ Fits(t)
  BY <1>1, <1>2, <1>2a, <1>2a DEF Told, ToldGroups, Fits, Paged, Listed, Base
<1>5. Base(h, t)
  BY <1>1, <1>2, <1>2a, <1>4 DEF Base
<1>6. Going(c, h, t, From(t))
  BY <1>1, <1>2, <1>2a, <1>3, <1>4, <1>5 DEF Fetching, Going, Filling, Filled
<1>7. IF t.checkMore THEN Checking(t) /\ ~t.included ELSE Room(t)
  BY <1>1, <1>2, <1>2a, <1>2a DEF Fetching, Checking, Room, Paged, Used, Listed
<1>8. /\ t.max # 0 \/ ~Paged(t)
      /\ t.count > 0 /\ ~FromPrefix(t)
      /\ t.included => t.kind = "objects" /\ t.last = t.view.lo
  BY <1>1, <1>2, <1>2a, <1>2a DEF Fetching, Paged, FromPrefix
<1> QED
  BY <1>1, <1>2, <1>2a, <1>3, <1>5, <1>6, <1>7, <1>8 DEF Going, Base

LEMMA ReadIs ==
    ASSUME NEW c, NEW h, NEW l, PageInv(c, h, l), NEW t, t = Read(l)
    PROVE  Back(t, l) /\ ~t.big
<1>1. l \in Pages
  BY DEF PageInv, Base
<1>2. <<>> \in Seq(Keys) /\ 0 \in Nat
  OBVIOUS
<1>3. /\ t \in Pages /\ t.last = l.last /\ t.big = FALSE
      /\ t.saved = l.saved /\ t.contents = l.contents /\ t.common = l.common /\ t.size = l.size
      /\ t.kind = l.kind /\ t.view = l.view /\ t.max = l.max /\ t.fetch = l.fetch
      /\ t.marker = l.marker /\ t.pc = l.pc /\ t.first = l.first /\ t.included = l.included
      /\ t.checkMore = l.checkMore /\ t.count = l.count /\ t.truncated = l.truncated /\ t.reading = FALSE
      /\ t.down = l.down
  BY <1>1, <1>2 DEF Pages, Read
<1> QED
  BY <1>3 DEF Back

\* The look behind a full page that ends with a common prefix.
LEMMA MoreFoundLeads ==
    ASSUME ListingsWellFormed, NEW c \in BOOLEAN, NEW h, NEW l, PageInv(c, h, l), l.pc = "fetched",
           l.checkMore, l.found # <<>>
    PROVE  Leads(c, h, MoreFound(Read(l), l.found))
<1>1. PICK t : t = Read(l)
  OBVIOUS
<1>1a. Back(t, l)
  BY <1>1, ReadIs
<1>2. Back(t, l) /\ t.checkMore /\ t \in Pages
  BY <1>1a DEF Back
<1>3. /\ l \in Pages /\ HistoryOK(h) /\ h \in Histories /\ ~t.reading
      /\ From(t) \in Nat /\ From(t) = From(l) /\ Going(c, h, t, From(t)) /\ Filling(h, t, From(t))
      /\ Checking(t) /\ ~t.included /\ t.kind = h.asked.kind /\ t.view = h.asked.view
  BY <1>2, ReadGoesOn
<1>4. PICK p \in Nat : p = From(t)
  BY <1>3
<1>5. PICK g \in t.common : g = t.saved /\ p = t.view.end[g] /\ t.kind = "objects"
  BY <1>3, <1>4 DEF Checking, From
<1>6. PICK ks, gs : ks = Told(h, t) /\ gs = ToldGroups(h, t)
  OBVIOUS
<1>7. PICK m \in Nat : m = t.marker
  BY <1>2 DEF Pages
<1>8. g \in gs /\ Sound(h, ks, gs, m, p) /\ (c => Upto(h, ks, gs, p)) /\ h.asked.kind = "objects"
      /\ p = h.asked.view.end[g]
  BY <1>3, <1>4, <1>5, <1>6, <1>7 DEF ToldGroups, Going, Filling, Filled
<1>9. g \in Nat /\ g # 0 /\ g <= p /\ Sound(h, ks, gs, g, g)
  BY <1>3, <1>8, SoundTurnGroup
<1>10. CASE Holds(t.view, l.found[1])
  <2>1. MoreFound(t, l.found) = Truncate(t, g)
    BY <1>5, <1>10 DEF MoreFound
  <2>2. c => Upto(h, ks, gs, g)
    BY <1>3, <1>8, <1>9, UptoLess
  <2>3. Filling(h, t, p) /\ Sound(h, Told(h, t), ToldGroups(h, t), g, g)
        /\ (c => Upto(h, Told(h, t), ToldGroups(h, t), g))
    BY <1>3, <1>4, <1>6, <1>9, <2>2
  <2>4. PageInv(c, SeenBy(h, Truncate(t, g)), Truncate(t, g))
    BY <1>3, <1>9, <2>3, FillTruncates
  <2> QED
    BY <1>1, <2>1, <2>4 DEF Leads
<1>11. CASE ~Holds(t.view, l.found[1])
  <2>1. MoreFound(t, l.found) = Answer(t)
    BY <1>11 DEF MoreFound
  <2>2. FoundOK(h, l) /\ l.found \in Seq(Keys) /\ Len(l.found) \in Nat /\ 1 \in 1 .. Len(l.found)
    <3>1. l.found \in Seq(Keys)
      BY <1>3 DEF Pages
    <3>2. Len(l.found) \in Nat /\ Len(l.found) # 0
      BY <3>1, EmptySeq
    <3> QED
      BY <3>1, <3>2 DEF PageInv
  <2>3. PICK f \in Keys : f = l.found[1] /\ f \in Nat /\ f > p
    <3>1. l.found[1] \in Keys
      BY <2>2
    <3>2. l.found[1] > p
      BY <1>3, <1>4, <2>2 DEF FoundOK
    <3> QED
      BY <3>1, <3>2, ListingAssumption
  <2> DEFINE v == h.asked.view
  <2>4. ViewOK(v)
    BY <1>3 DEF HistoryOK, ListingsWellFormed
  <2>5. v.lo \in Nat /\ v.hi \in Nat /\ v.lo # 0 /\ f > v.hi
    <3>1. v.lo \in Nat /\ v.hi \in Nat
      BY <2>4 DEF ViewOK
    <3>2. ~Starts(v, f) /\ v.lo # 0
      BY <1>3, <1>11, <2>3, <2>4 DEF ViewOK, Holds
    <3>3. PICK k \in Keys : v.group[k] = g /\ Starts(v, k)
      BY <1>3, <1>8 DEF Sound, HistoryOK
    <3>4. k \in Nat /\ v.lo <= k /\ k <= p
      <4>1. k \in Nat
        BY <3>3, ListingAssumption
      <4>2. v.lo <= k
        BY <3>1, <3>2, <3>3, <4>1 DEF Starts
      <4>3. k <= p
        BY <1>8, <1>9, <2>4, <3>3 DEF ViewOK
      <4> QED
        BY <4>1, <4>2, <4>3
    <3> QED
      BY <2>3, <3>1, <3>2, <3>4 DEF Starts
  <2>6. \A k \in h.stable : Wanted(h, k) => k <= p
    <3> SUFFICES ASSUME NEW k \in h.stable, Wanted(h, k), ~(k <= p) PROVE FALSE
      OBVIOUS
    <3>1. k \in Nat /\ k <= v.hi
      <4>1. k \in Nat /\ Starts(v, k)
        BY <1>3, ListingAssumption DEF HistoryOK, Wanted
      <4> QED
        BY <2>5, <4>1 DEF Starts
    <3>2. k > From(l) /\ k < f
      BY <1>3, <1>4, <2>3, <2>5, <3>1
    <3>3. PICK j \in 1 .. Len(l.found) : l.found[j] = k
      BY <2>2, <2>3, <3>1, <3>2 DEF FoundOK
    <3>4. j = 1 \/ 1 < j
      BY <2>2
    <3>5. 1 < j => f < k
      BY <2>2, <2>3, <3>3 DEF FoundOK
    <3> QED
      BY <2>3, <3>1, <3>2, <3>3, <3>4, <3>5
  <2>7. c => AllTold(h, ks, gs)
    BY <1>3, <1>8, <2>6, UptoEnd
  <2>8. Filling(h, t, p) /\ (c /\ t.max # 0 => AllTold(h, Told(h, t), ToldGroups(h, t)))
    BY <1>3, <1>4, <1>6, <2>7
  <2>9. PageInv(c, SeenBy(h, Answer(t)), Answer(t))
    BY <1>3, <2>8, FillAnswers
  <2> QED
    BY <1>1, <2>1, <2>9 DEF Leads
<1> QED
  BY <1>10, <1>11

\* The keys of a read are called back with.
LEMMA FetchedLeads ==
    ASSUME ListingsWellFormed, NEW c \in BOOLEAN, NEW h, NEW l, PageInv(c, h, l), l.pc = "fetched", l.found # <<>>,
           ReadEndsWell(c, l)
    PROVE  Leads(c, h, Fetched(l, l.found))
<1>1. PICK t : t = Read(l)
  OBVIOUS
<1>2. Back(t, l) /\ t.checkMore = l.checkMore /\ ~t.big /\ t.count = l.count
  BY <1>1, ReadIs DEF Back
<1>3. /\ l \in Pages /\ HistoryOK(h) /\ h \in Histories /\ ~t.reading
      /\ From(t) \in Nat /\ From(t) = From(l) /\ Going(c, h, t, From(t)) /\ Filling(h, t, From(t))
      /\ IF t.checkMore THEN Checking(t) /\ ~t.included ELSE Room(t)
      /\ t.max # 0 \/ ~Paged(t)
      /\ ~FromPrefix(t)
  BY <1>2, ReadGoesOn
<1>4. Fetched(l, l.found) = CASE l.down -> Fail(t)
                              [] ~l.down /\ l.checkMore -> MoreFound(t, l.found)
                              [] ~l.down /\ ~l.checkMore -> Page(Visited(t, l.found), Len(l.found))
  BY <1>1 DEF Fetched, Read
<1>5. CASE l.down
  <2>1. Fetched(l, l.found) = Fail(t)
    BY <1>4, <1>5
  <2>2. PICK x \in {"failed", "gone"} : x = "failed"
    OBVIOUS
  <2>3. PICK p \in Nat : p = From(t)
    BY <1>3
  <2>4. Filling(h, t, p)
    BY <1>3, <2>3
  <2>5. PageInv(c, SeenBy(h, [t EXCEPT !.pc = x]), [t EXCEPT !.pc = x])
    BY <1>3, <2>4, FillFails, Zenon
  <2> QED
    BY <2>1, <2>2, <2>5 DEF Leads, Fail
<1>6. CASE ~l.down /\ l.checkMore
  <2>1. Fetched(l, l.found) = MoreFound(t, l.found)
    BY <1>4, <1>6
  <2>2. Leads(c, h, MoreFound(t, l.found))
    BY <1>1, <1>6, MoreFoundLeads
  <2> QED
    BY <2>1, <2>2
<1>7. CASE ~l.down /\ ~l.checkMore
  <2>1. PICK keys : keys = l.found
    OBVIOUS
  <2>2. Fetched(l, l.found) = Page(Visited(t, keys), Len(keys))
    BY <1>4, <1>7, <2>1
  <2>3. keys \in Seq(Keys) /\ Len(keys) # 0
    <3>1. keys \in Seq(Keys)
      BY <1>3, <2>1 DEF Pages
    <3> QED
      BY <2>1, <3>1, EmptySeq
  <2>4. FoundOK(h, l)
    BY DEF PageInv
  <2>5. ReadingKeys(c, h, t, keys)
    BY <1>2, <1>3, <1>7, <2>1, <2>3, <2>4 DEF ReadingKeys, FoundOK
  <2>6. EndsWell(c, t, keys, Visited(t, keys))
    BY <1>1, <1>7, <2>1 DEF ReadEndsWell
  <2>7. Leads(c, h, Page(Visited(t, keys), Len(keys)))
    BY <2>5, <2>6, PageLeads
  <2> QED
    BY <2>2, <2>7
<1> QED
  BY <1>5, <1>6, <1>7

\* A read found nothing, or failed.
LEMMA NothingLeads ==
    ASSUME ListingsWellFormed, NEW c \in BOOLEAN, NEW h, NEW l, PageInv(c, h, l)
    PROVE  /\ l.pc = "fetched" /\ l.found = <<>> => Leads(c, h, NothingLeft(l))
           /\ l.pc \in {"fetch", "fetched"} => Leads(c, h, FetchFails(l))
<1> SUFFICES ASSUME l.pc \in {"fetch", "fetched"}
             PROVE  /\ l.pc = "fetched" /\ l.found = <<>> => Leads(c, h, NothingLeft(l))
                    /\ Leads(c, h, FetchFails(l))
  OBVIOUS
<1>0. l \in Pages
  BY DEF PageInv, Base
<1>1. PICK t : t = [l EXCEPT !.reading = FALSE]
  OBVIOUS
<1>2. Back(t, l) /\ t.count = l.count
  BY <1>0, <1>1 DEF Pages, Back
<1>3. /\ HistoryOK(h) /\ ~t.reading
      /\ From(t) \in Nat /\ From(t) = From(l) /\ Going(c, h, t, From(t)) /\ Filling(h, t, From(t))
      /\ t.count > 0
  BY <1>2, ReadGoesOn
<1>4. PICK p \in Nat : p = From(t)
  BY <1>3
<1>5. Filling(h, t, p)
  BY <1>3, <1>4
<1>6. Leads(c, h, FetchFails(l))
  <2>1. PICK x \in {"failed", "gone"} : x = "failed"
    OBVIOUS
  <2>2. PageInv(c, SeenBy(h, [t EXCEPT !.pc = x]), [t EXCEPT !.pc = x])
    BY <1>3, <1>5, FillFails, Zenon
  <2> QED
    BY <1>1, <2>1, <2>2 DEF Leads, FetchFails, Fail
<1>7. ASSUME l.pc = "fetched", l.found = <<>> PROVE Leads(c, h, NothingLeft(l))
  <2>1. FoundOK(h, l) /\ Len(l.found) = 0
    BY <1>7, EmptySeq DEF PageInv
  <2>2. \A k \in h.stable : k <= p
    <3> SUFFICES ASSUME NEW k \in h.stable, ~(k <= p) PROVE FALSE
      OBVIOUS
    <3>1. k \in Nat
      BY <1>3, ListingAssumption DEF HistoryOK
    <3>2. k > From(l) /\ Len(l.found) < l.count /\ 1 .. Len(l.found) = {}
      BY <1>2, <1>3, <1>4, <2>1, <3>1
    <3> QED
      BY <2>1, <3>2 DEF FoundOK
  <2>3. PICK ks, gs : ks = Told(h, t) /\ gs = ToldGroups(h, t)
    OBVIOUS
  <2>4. c => Upto(h, ks, gs, p)
    BY <1>3, <1>4, <2>3 DEF Going
  <2>5. c => AllTold(h, ks, gs)
    BY <1>3, <2>2, <2>4, UptoEnd
  <2>6. c /\ t.max # 0 => AllTold(h, Told(h, t), ToldGroups(h, t))
    BY <2>3, <2>5
  <2>7. PageInv(c, SeenBy(h, Answer(t)), Answer(t))
    BY <1>3, <1>5, <2>6, FillAnswers
  <2> QED
    BY <1>1, <2>7 DEF Leads, NothingLeft
<1> QED
  BY <1>6, <1>7

\* Other requests change the index, and nothing that was told.
LEMMA PageStays ==
    ASSUME NEW c \in BOOLEAN, NEW h, NEW l, PageInv(c, h, l), NEW h2 \in Histories, HistoryOK(h2),
           Disturbed(h, h2), h2.keys = h.keys, h2.groups = h.groups
    PROVE  PageInv(c, h2, l)
<1>0. h2.asked = h.asked /\ h2.stable \subseteq h.stable /\ h.ever \subseteq h2.ever
  BY DEF Disturbed
<1>1. Base(h, l) => Base(h2, l)
  BY <1>0 DEF Base, GroupsApart
<1>2. \A ks, gs : /\ \A m, p : Sound(h, ks, gs, m, p) => Sound(h2, ks, gs, m, p)
                  /\ \A p : Upto(h, ks, gs, p) => Upto(h2, ks, gs, p)
                  /\ AllTold(h, ks, gs) => AllTold(h2, ks, gs)
  BY DisturbedStays
<1>3. Told(h2, l) = Told(h, l) /\ ToldGroups(h2, l) = ToldGroups(h, l)
  BY DEF Told, ToldGroups
<1>4. \A p : Filled(h, l, p) => Filled(h2, l, p)
  BY <1>1, <1>2, <1>3 DEF Filled
<1>5. \A p : Going(c, h, l, p) => Going(c, h2, l, p)
  BY <1>2, <1>3, <1>4 DEF Going, Filling
<1>6. Ready(c, h, l) => Ready(c, h2, l)
  BY <1>3, <1>5 DEF Ready
<1>7. Fetching(c, h, l) => Fetching(c, h2, l)
  BY <1>5 DEF Fetching
<1>8. FoundOK(h, l) => FoundOK(h2, l)
  BY <1>0 DEF FoundOK
<1>9. PageEnded(c, h, l) => PageEnded(c, h2, l)
  BY <1>2 DEF PageEnded
<1> QED
  BY <1>1, <1>4, <1>6, <1>7, <1>8, <1>9 DEF PageInv

\* The client leaves, or the server shuts down.
LEMMA PageIsDeaf ==
    ASSUME NEW c \in BOOLEAN, NEW h, NEW l, PageInv(c, h, l),
           NEW t, t \in {[l EXCEPT !.connected = FALSE], [l EXCEPT !.down = TRUE]}
    PROVE  PageInv(c, h, t)
<1>0. l \in Pages
  BY DEF PageInv, Base
<1>1. /\ t \in Pages /\ t.kind = l.kind /\ t.view = l.view /\ t.max = l.max /\ t.fetch = l.fetch
      /\ t.marker = l.marker /\ t.pc = l.pc /\ t.first = l.first /\ t.included = l.included
      /\ t.checkMore = l.checkMore /\ t.count = l.count /\ t.truncated = l.truncated
      /\ t.reading = l.reading /\ t.last = l.last /\ t.saved = l.saved /\ t.contents = l.contents
      /\ t.common = l.common /\ t.size = l.size /\ t.big = l.big /\ t.found = l.found /\ t.next = l.next
  <2>1. CASE t = [l EXCEPT !.connected = FALSE]
    BY <1>0, <2>1 DEF Pages
  <2>2. CASE t = [l EXCEPT !.down = TRUE]
    BY <1>0, <2>2 DEF Pages
  <2> QED
    BY <2>1, <2>2
<1>2. /\ Told(h, t) = Told(h, l) /\ ToldGroups(h, t) = ToldGroups(h, l) /\ From(t) = From(l)
      /\ Listed(t) = Listed(l) /\ (Paged(t) <=> Paged(l)) /\ Used(t) = Used(l)
  BY <1>1 DEF Told, ToldGroups, From, Listed, Paged, Used
<1>3. (Fits(l) => Fits(t)) /\ (Room(l) => Room(t)) /\ (FromPrefix(t) <=> FromPrefix(l))
      /\ (Checking(l) => Checking(t))
  <2>1. (Fits(l) => Fits(t)) /\ (Room(l) => Room(t))
    BY <1>1, <1>2 DEF Fits, Room
  <2>2. FromPrefix(t) <=> FromPrefix(l)
    BY <1>1 DEF FromPrefix
  <2>3. Checking(l) => Checking(t)
    BY <1>1 DEF Checking
  <2> QED
    BY <2>1, <2>2, <2>3
<1>4. Base(h, t)
  BY <1>1, <1>3 DEF PageInv, Base
<1>5. \A p : Filled(h, l, p) => Filled(h, t, p)
  BY <1>1, <1>2, <1>4 DEF Filled
<1>6. \A p : Going(c, h, l, p) => Going(c, h, t, p)
  BY <1>1, <1>2, <1>5 DEF Going, Filling
<1>7. Ready(c, h, l) => Ready(c, h, t)
  BY <1>1, <1>2, <1>3, <1>6 DEF Ready
<1>8. Fetching(c, h, l) => Fetching(c, h, t)
  BY <1>1, <1>2, <1>3, <1>6 DEF Fetching
<1>9. FoundOK(h, l) => FoundOK(h, t)
  BY <1>1, <1>2 DEF FoundOK
<1>10. PageEnded(c, h, l) => PageEnded(c, h, t)
  BY <1>1 DEF PageEnded
<1> QED
  BY <1>1, <1>4, <1>5, <1>7, <1>8, <1>9, <1>10 DEF PageInv

\* A read that is too big is repeated for fewer keys, or fails.
LEMMA TooBigLeads ==
    ASSUME ListingsWellFormed, NEW c \in BOOLEAN, c => PrefixIsNoKey, NEW h, NEW l, PageInv(c, h, l), l.pc = "fetch",
           l.kind \in BigKinds
    PROVE  Leads(c, h, TooBig(l)) /\ TooBig(l).pc # "answered"
<1>0. l \in Pages
  BY DEF PageInv, Base
<1>1. l.kind # "kvs"
  BY DEF ListingsWellFormed
<1>2. Leads(c, h, FetchFails(l)) /\ FetchFails(l).pc # "answered"
  <2>1. Leads(c, h, FetchFails(l))
    BY NothingLeads
  <2> QED
    BY <1>0, <2>1 DEF FetchFails, Fail, Pages
<1>3. CASE ~(l.kind = "objects" /\ l.count > 1)
  <2>1. l.count <= 1 \/ l.kind # "objects"
    BY <1>0, <1>3 DEF Pages
  <2>2. TooBig(l) = FetchFails(l)
    BY <1>1, <2>1 DEF TooBig, ObjectsTooBig
  <2> QED
    BY <1>2, <2>2
<1>4. CASE l.kind = "objects" /\ l.count > 1
  <2>1. PICK t : t = Again(l)
    OBVIOUS
  <2>2. TooBig(l) = GetNextObjects(t)
    <3>1. ~(l.count <= 1)
      BY <1>0, <1>4 DEF Pages
    <3> QED
      BY <1>4, <2>1, <3>1 DEF TooBig, ObjectsTooBig
  <2>3. Back(t, l) /\ t \in Pages /\ t.count > 1 /\ t.kind = "objects" /\ t.last \in Nat
    <3>1. PICK n \in Nat : n = l.retries + 1
      BY <1>0 DEF Pages
    <3>2. t = [l EXCEPT !.retries = n, !.big = TRUE, !.reading = FALSE]
      BY <2>1, <3>1 DEF Again
    <3>3. Back(t, l)
      BY <1>0, <3>2 DEF Pages, Back
    <3> QED
      BY <1>0, <1>4, <3>3 DEF Back, Pages
  <2>4. /\ HistoryOK(h) /\ ~t.reading
        /\ From(t) \in Nat /\ From(t) = From(l) /\ Going(c, h, t, From(t)) /\ Filling(h, t, From(t))
        /\ IF t.checkMore THEN Checking(t) /\ ~t.included ELSE Room(t)
        /\ t.max # 0 \/ ~Paged(t)
        /\ ~FromPrefix(t)
        /\ t.included => t.kind = "objects" /\ t.last = t.view.lo
        /\ t.kind = h.asked.kind /\ t.view = h.asked.view
    BY <2>3, ReadGoesOn
  <2>5. Going(c, h, t, t.last)
    <3>1. CASE ~t.included
      BY <2>4, <3>1 DEF From
    <3>2. CASE t.included
      <4>1. PICK k \in Nat, p \in Nat : k = t.last /\ p = From(t) /\ p < k /\ k = p + 1
        <5>1. From(t) = t.last - 1
          BY <3>2 DEF From
        <5>2. From(t) < t.last /\ t.last = From(t) + 1
          BY <2>3, <2>4, <5>1
        <5> QED
          BY <2>3, <2>4, <5>2
      <4>2. Clear(h, p, k)
        <5>1. \A j \in h.stable : j \in Nat
          BY <2>4, ListingAssumption DEF HistoryOK
        <5> QED
          BY <4>1, <5>1 DEF Clear
      <4>3. c => ~Wanted(h, k)
        <5>1. c => h.asked.view.lo \notin Keys
          BY <1>4, <2>3, <2>4 DEF PrefixIsNoKey, HistoryOK
        <5>2. k = h.asked.view.lo
          BY <2>4, <3>2, <4>1
        <5> QED
          BY <2>4, <5>1, <5>2 DEF Wanted, HistoryOK
      <4>4. Going(c, h, t, p)
        BY <2>4, <4>1
      <4>5. Going(c, h, t, k)
        BY <4>1, <4>2, <4>3, <4>4, GoingPasses
      <4> QED
        BY <4>1, <4>5
    <3> QED
      BY <3>1, <3>2
  <2>6. Ready(c, h, t)
    BY <2>3, <2>4, <2>5 DEF Ready
  <2>7. Leads(c, h, GetNextObjects(t))
    BY <2>3, <2>4, <2>6, ReadyReads DEF Leads
  <2>8. GetNextObjects(t).pc # "answered"
    <3>1. t.max # 0
      BY <2>3, <2>4 DEF Paged
    <3>2. Leave(t).pc = "gone" /\ Launch(t).pc = "fetch"
      BY <2>3 DEF Leave, Launch, Pages
    <3> QED
      BY <3>1, <3>2 DEF GetNextObjects
  <2> QED
    BY <2>2, <2>7, <2>8
<1> QED
  BY <1>3, <1>4

LEMMA ReadyFails ==
    ASSUME NEW c \in BOOLEAN, NEW h, NEW l, Ready(c, h, l)
    PROVE  Leads(c, h, FetchFails(l)) /\ (~l.reading => Leads(c, h, Fail(l)))
<1>1. l \in Pages /\ Filling(h, l, l.last)
  BY DEF Ready, Going, Filling, Filled, Base
<1>2. PICK p \in Nat : p = l.last
  BY <1>1 DEF Pages
<1>3. PICK x \in {"failed", "gone"} : x = "failed"
  OBVIOUS
<1>4. ASSUME ~l.reading PROVE Leads(c, h, Fail(l))
  <2>1. Filling(h, l, p)
    BY <1>1, <1>2
  <2>2. PageInv(c, SeenBy(h, [l EXCEPT !.pc = x]), [l EXCEPT !.pc = x])
    BY <1>4, <2>1, FillFails, Zenon
  <2> QED
    BY <1>3, <2>2 DEF Leads, Fail
<1>5. Leads(c, h, FetchFails(l))
  <2>1. PICK t : t = [l EXCEPT !.reading = FALSE]
    OBVIOUS
  <2>2. /\ t \in Pages /\ t.kind = l.kind /\ t.view = l.view /\ t.max = l.max /\ t.fetch = l.fetch
        /\ t.marker = l.marker /\ t.pc = l.pc /\ t.truncated = l.truncated /\ ~t.reading
        /\ t.contents = l.contents /\ t.common = l.common /\ t.size = l.size
    BY <1>1, <2>1 DEF Pages
  <2>3. Filling(h, t, p)
    BY <1>1, <1>2, <2>2 DEF Filling, Filled, Base, Fits, Paged, Listed, Told, ToldGroups
  <2>4. PageInv(c, SeenBy(h, [t EXCEPT !.pc = x]), [t EXCEPT !.pc = x])
    BY <2>2, <2>3, FillFails, Zenon
  <2> QED
    BY <1>3, <2>1, <2>4 DEF Leads, FetchFails, Fail
<1> QED
  BY <1>4, <1>5

Looked(c, h, l, n, t) ==
    /\ t \in Pages /\ ~t.reading /\ t.kind = "parts" /\ t.last = l.last /\ t.last \in Nat /\ t.size = n
    /\ t.max = l.max /\ t.down = l.down /\ Going(c, h, t, t.last)
    /\ h.asked.kind = "parts" /\ (t.size # t.max => Ready(c, h, t))

\* A page of parts, before its keys are read.
LEMMA LookupReady ==
    ASSUME ListingsWellFormed, NEW c \in BOOLEAN, NEW h, NEW l, PageInv(c, h, l), l.pc = "lookup",
           NEW n \in Nat, n <= 1, NEW t, t = [l EXCEPT !.reading = FALSE, !.size = n]
    PROVE  Looked(c, h, l, n, t)
<1>1. /\ Ready(c, h, l) /\ ~l.checkMore /\ ~l.big /\ l.kind = "parts" /\ l.contents = <<>>
      /\ Base(h, l) /\ l \in Pages
  BY DEF PageInv, Base
<1>2. n \in Nat
  OBVIOUS
<1>3. /\ t \in Pages /\ t.kind = l.kind /\ t.view = l.view /\ t.max = l.max /\ t.fetch = l.fetch
      /\ t.marker = l.marker /\ t.pc = l.pc /\ t.truncated = l.truncated /\ ~t.reading /\ t.last = l.last
      /\ t.contents = l.contents /\ t.common = l.common /\ t.size = n /\ t.checkMore = l.checkMore
      /\ t.big = l.big /\ t.first = l.first /\ t.down = l.down
  BY <1>1, <1>2 DEF Pages
<1>4. l.max # 0 /\ l.max \in Nat /\ h.asked.kind = "parts" /\ l.last \in Nat
  BY <1>1 DEF Base, HistoryOK, ListingsWellFormed, Pages
<1>5. Listed(t) = 0 /\ Len(t.contents) = 0 /\ Used(t) = n
  BY <1>1, <1>3 DEF Listed, Used
<1>6. Fits(t) /\ (n # t.max => Room(t))
  BY <1>3, <1>4, <1>5 DEF Fits, Room
<1>7. Going(c, h, t, t.last)
  BY <1>1, <1>3, <1>6 DEF Ready, Going, Filling, Filled, Base, Told, ToldGroups
<1>8. ~FromPrefix(t)
  BY <1>1, <1>3 DEF FromPrefix
<1>9. n # t.max => Ready(c, h, t)
  BY <1>1, <1>3, <1>6, <1>7, <1>8 DEF Ready
<1> QED
  BY <1>1, <1>3, <1>4, <1>7, <1>9 DEF Looked

LEMMA LookupLeads ==
    ASSUME ListingsWellFormed, NEW c \in BOOLEAN, NEW h, NEW l, PageInv(c, h, l), l.pc = "lookup"
    PROVE  Leads(c, h, FetchFails(l)) /\ Leads(c, h, MarkerFound(l)) /\ Leads(c, h, MarkerMissing(l))
<1>1. Ready(c, h, l)
  BY DEF PageInv
<1>2. Leads(c, h, FetchFails(l))
  BY <1>1, ReadyFails
<1>3. Leads(c, h, MarkerMissing(l))
  <2>1. l \in Pages /\ l.kind = "parts"
    BY DEF PageInv, Base
  <2>2. PICK t : t = [l EXCEPT !.reading = FALSE]
    OBVIOUS
  <2>3. /\ t \in Pages /\ t.kind = l.kind /\ t.view = l.view /\ t.max = l.max /\ t.fetch = l.fetch
        /\ t.marker = l.marker /\ t.pc = l.pc /\ t.truncated = l.truncated /\ ~t.reading /\ t.last = l.last
        /\ t.contents = l.contents /\ t.common = l.common /\ t.size = l.size /\ t.checkMore = l.checkMore
        /\ t.big = l.big /\ t.first = l.first /\ t.count = l.count
    BY <2>1, <2>2 DEF Pages
  <2>4. Told(h, t) = Told(h, l) /\ ToldGroups(h, t) = ToldGroups(h, l) /\ Listed(t) = Listed(l)
        /\ (Paged(t) <=> Paged(l)) /\ Used(t) = Used(l)
    BY <2>3 DEF Told, ToldGroups, Listed, Used, Paged
  <2>5. Going(c, h, t, t.last)
    BY <1>1, <2>3, <2>4 DEF Ready, Going, Filling, Filled, Base, Fits
  <2>6. ~t.checkMore /\ ~t.big /\ Room(t) /\ ~FromPrefix(t)
    BY <1>1, <2>1, <2>3, <2>4 DEF PageInv, Ready, Room, FromPrefix
  <2>7. Ready(c, h, t)
    BY <2>5, <2>6 DEF Ready
  <2>8. Leads(c, h, GetNextParts(t))
    BY <2>1, <2>3, <2>7, ReadyReads DEF Leads
  <2> QED
    BY <2>2, <2>8 DEF MarkerMissing
<1>4. Leads(c, h, MarkerFound(l))
  <2>1. PICK n \in Nat : n <= 1 /\ n = IF l.last \in Corrupt THEN 0 ELSE 1
    OBVIOUS
  <2>2. PICK t : t = [l EXCEPT !.reading = FALSE, !.size = n]
    OBVIOUS
  <2>3. /\ t \in Pages /\ ~t.reading /\ t.kind = "parts" /\ t.last = l.last /\ t.last \in Nat /\ t.size = n
        /\ t.max = l.max /\ t.down = l.down /\ Going(c, h, t, t.last)
        /\ h.asked.kind = "parts" /\ (t.size # t.max => Ready(c, h, t))
    <3>1. Looked(c, h, l, n, t)
      BY <2>1, <2>2, LookupReady
    <3> QED
      BY <3>1 DEF Looked
  <2>4. MarkerFound(l) = CASE t.down -> Fail(t)
                           [] ~t.down /\ t.size = t.max -> Truncate(t, t.last)
                           [] OTHER -> GetNextParts(t)
    BY <2>1, <2>2 DEF MarkerFound
  <2>5. PICK p \in Nat : p = t.last
    BY <2>3
  <2>6. Filling(h, t, p) /\ Going(c, h, t, p)
    BY <2>3, <2>5 DEF Going
  <2>7. CASE t.down
    <3>1. PICK x \in {"failed", "gone"} : x = "failed"
      OBVIOUS
    <3>2. PageInv(c, SeenBy(h, [t EXCEPT !.pc = x]), [t EXCEPT !.pc = x])
      BY <2>3, <2>6, FillFails, Zenon
    <3> QED
      BY <2>4, <2>7, <3>1, <3>2 DEF Leads, Fail
  <2>8. CASE ~t.down /\ t.size = t.max
    <3>1. Sound(h, Told(h, t), ToldGroups(h, t), p, p)
      BY <2>3, <2>6, GoingTurns
    <3>2. c => Upto(h, Told(h, t), ToldGroups(h, t), p)
      BY <2>6 DEF Going
    <3>3. PageInv(c, SeenBy(h, Truncate(t, p)), Truncate(t, p))
      BY <2>3, <2>6, <3>1, <3>2, FillTruncates
    <3> QED
      BY <2>4, <2>5, <2>8, <3>3 DEF Leads
  <2>9. CASE ~t.down /\ t.size # t.max
    <3>1. Leads(c, h, GetNextParts(t))
      BY <2>3, <2>9, ReadyReads DEF Leads
    <3> QED
      BY <2>4, <2>9, <3>1
  <2> QED
    BY <2>7, <2>8, <2>9
<1> QED
  BY <1>2, <1>3, <1>4

\* The request begins.
LEMMA StartLeads ==
    ASSUME ListingsWellFormed, NEW c \in BOOLEAN, NEW h, NEW l, PageInv(c, h, l), l.pc = "start"
    PROVE  Leads(c, h, BucketInfoFails(l)) /\ Leads(c, h, Begin(l))
<1>1. /\ Ready(c, h, l) /\ ~l.checkMore /\ ~l.big /\ l.contents = <<>> /\ ~l.reading
      /\ Base(h, l) /\ l \in Pages /\ l.kind \in ListKinds
  BY DEF PageInv, Base, Pages
<1>2. Leads(c, h, Fail(l))
  BY <1>1, ReadyFails
<1>3. /\ l.kind = "objects" => Leads(c, h, GetNextObjects(l))
      /\ l.kind = "uploads" => Leads(c, h, GetNextUploads(l))
      /\ l.kind = "buckets" => Leads(c, h, GetNextBuckets(l))
      /\ l.kind = "kvs" => Leads(c, h, GetNextKeyValue(l))
  BY <1>1, ReadyReads DEF Leads
<1>4. ASSUME l.kind = "parts" PROVE Leads(c, h, LoadUpload(l))
  <2>1. CASE l.down
    BY <1>2, <2>1 DEF LoadUpload
  <2>2. CASE ~l.down
    <3>1. PICK t : t = [l EXCEPT !.pc = "lookup", !.reading = TRUE]
      OBVIOUS
    <3>2. LoadUpload(l) = t
      BY <2>2, <3>1 DEF LoadUpload
    <3>3. /\ t \in Pages /\ t.kind = l.kind /\ t.view = l.view /\ t.max = l.max /\ t.fetch = l.fetch
          /\ t.marker = l.marker /\ t.pc = "lookup" /\ t.truncated = l.truncated /\ t.reading /\ t.last = l.last
          /\ t.contents = l.contents /\ t.common = l.common /\ t.size = l.size /\ t.checkMore = l.checkMore
          /\ t.big = l.big /\ t.first = l.first /\ t.count = l.count
      BY <1>1, <3>1 DEF Pages, PagePcs
    <3>4. Told(h, t) = Told(h, l) /\ ToldGroups(h, t) = ToldGroups(h, l) /\ Listed(t) = Listed(l)
          /\ (Paged(t) <=> Paged(l)) /\ Used(t) = Used(l)
      BY <3>3 DEF Told, ToldGroups, Listed, Used, Paged
    <3>5. Base(h, t)
      BY <1>1, <3>3, <3>4 DEF Base, Fits
    <3>6. Going(c, h, t, t.last)
      BY <1>1, <3>3, <3>4, <3>5 DEF Ready, Going, Filling, Filled
    <3>7. ~t.checkMore /\ ~t.big /\ Room(t) /\ ~FromPrefix(t)
      BY <1>1, <1>4, <3>3, <3>4 DEF Ready, Room, FromPrefix
    <3>8. Ready(c, h, t)
      BY <3>6, <3>7 DEF Ready
    <3>9. PageInv(c, h, t)
      BY <1>1, <1>4, <3>3, <3>5, <3>7, <3>8 DEF PageInv
    <3>10. SeenBy(h, t) = h
      BY <3>3 DEF SeenBy
    <3> QED
      BY <3>2, <3>9, <3>10 DEF Leads
  <2> QED
    BY <2>1, <2>2
<1> QED
  BY <1>1, <1>2, <1>3, <1>4 DEF BucketInfoFails, Begin, ListKinds

\* Motr reads the index.
LEMMA ReadLeads ==
    ASSUME NEW c \in BOOLEAN, NEW h, NEW l, PageInv(c, h, l), l.pc = "fetch", l.reading,
           index \subseteq Keys, h.stable \subseteq index, index \subseteq h.ever,
           NEW t, t = [l EXCEPT !.pc = "fetched", !.found = NextKeys(l.last, l.included, l.count)]
    PROVE  Leads(c, h, t)
<1>1. l \in Pages /\ Base(h, l) /\ Fetching(c, h, l) /\ HistoryOK(h)
  BY DEF PageInv, Base
<1>2. PICK from \in Nat : from = l.last
  BY <1>1 DEF Pages
<1>3. PICK included \in BOOLEAN : included = l.included
  BY <1>1 DEF Pages
<1>4. PICK n \in Nat : n = l.count
  BY <1>1 DEF Pages
<1>5. PICK found : found = NextKeys(from, included, n)
  OBVIOUS
<1>6. /\ found \in Seq(Keys) /\ Len(found) \in Nat /\ Len(found) <= n
      /\ \A i, j \in 1 .. Len(found) : i < j => found[i] < found[j]
      /\ \A i \in 1 .. Len(found) :
            found[i] \in index /\ (found[i] > from \/ (included /\ found[i] = from))
      /\ \A k \in index :
            /\ k > from \/ (included /\ k = from)
            /\ Len(found) < n \/ \E i \in 1 .. Len(found) : k <= found[i]
            => \E i \in 1 .. Len(found) : found[i] = k
  BY <1>5, NextKeysAreNext
<1>6a. found \in Seq(Keys)
  BY <1>6
<1>7. t = [l EXCEPT !.pc = "fetched", !.found = found]
  BY <1>2, <1>3, <1>4, <1>5
<1>8. /\ t \in Pages /\ t.kind = l.kind /\ t.view = l.view /\ t.max = l.max /\ t.fetch = l.fetch
      /\ t.marker = l.marker /\ t.pc = "fetched" /\ t.first = l.first /\ t.included = l.included
      /\ t.checkMore = l.checkMore /\ t.count = l.count /\ t.truncated = l.truncated
      /\ t.reading = l.reading /\ t.last = l.last /\ t.saved = l.saved /\ t.contents = l.contents
      /\ t.common = l.common /\ t.size = l.size /\ t.found = found
  BY <1>1, <1>6a, <1>7 DEF Pages, PagePcs
<1>9. /\ Told(h, t) = Told(h, l) /\ ToldGroups(h, t) = ToldGroups(h, l) /\ From(t) = From(l)
      /\ Listed(t) = Listed(l) /\ (Paged(t) <=> Paged(l)) /\ Used(t) = Used(l)
  <2>1. Told(h, t) = Told(h, l) /\ ToldGroups(h, t) = ToldGroups(h, l) /\ From(t) = From(l)
    <3>1. Told(h, t) = Told(h, l) /\ ToldGroups(h, t) = ToldGroups(h, l)
      BY <1>8 DEF Told, ToldGroups
    <3>2. From(t) = From(l)
      BY <1>8 DEF From
    <3> QED
      BY <3>1, <3>2
  <2>2. Listed(t) = Listed(l) /\ (Paged(t) <=> Paged(l))
    BY <1>8 DEF Listed, Paged
  <2>3. Used(t) = Used(l)
    BY <1>8, <2>2 DEF Used
  <2> QED
    BY <2>1, <2>2, <2>3
<1>10. Base(h, t)
  BY <1>1, <1>8, <1>9 DEF Base, Fits
<1>11. Going(c, h, t, From(t))
  BY <1>1, <1>8, <1>9, <1>10 DEF Fetching, Going, Filling, Filled
<1>12. IF t.checkMore THEN Checking(t) /\ ~t.included ELSE Room(t)
  <2>1. IF l.checkMore THEN Checking(l) /\ ~l.included ELSE Room(l)
    BY <1>1 DEF Fetching
  <2>2. (Checking(l) => Checking(t)) /\ (Room(l) => Room(t))
    BY <1>8, <1>9 DEF Checking, Room
  <2> QED
    BY <1>8, <2>1, <2>2
<1>13. Fetching(c, h, t)
  <2>1. /\ From(l) \in Nat /\ (l.max # 0 \/ ~Paged(l)) /\ l.count > 0 /\ ~FromPrefix(l)
        /\ l.included => l.kind = "objects" /\ l.last = l.view.lo
    BY <1>1 DEF Fetching
  <2>2. ~FromPrefix(t)
    BY <1>8, <2>1 DEF FromPrefix
  <2> QED
    BY <1>8, <1>9, <1>11, <1>12, <2>1, <2>2 DEF Fetching
<1>14. \A k \in Nat : k > From(t) <=> k > from \/ (included /\ k = from)
  BY <1>2, <1>3, <1>8 DEF From
<1>15. \A k \in index : k \in Nat
  BY ListingAssumption
<1>16. FoundOK(h, t)
  <2>1. Len(t.found) <= t.count
    BY <1>4, <1>6, <1>8
  <2>2. \A i, j \in 1 .. Len(t.found) : i < j => t.found[i] < t.found[j]
    BY <1>6, <1>8
  <2>3. \A i \in 1 .. Len(t.found) : t.found[i] > From(t) /\ t.found[i] \in h.ever
    BY <1>6, <1>8, <1>14, <1>15
  <2>4. \A k \in h.stable :
           /\ k > From(t)
           /\ Len(t.found) < t.count \/ \E i \in 1 .. Len(t.found) : k <= t.found[i]
           => \E i \in 1 .. Len(t.found) : t.found[i] = k
    BY <1>4, <1>6, <1>8, <1>14, <1>15
  <2> QED
    BY <2>1, <2>2, <2>3, <2>4 DEF FoundOK
<1>17. PageInv(c, h, t)
  BY <1>8, <1>10, <1>13, <1>16 DEF PageInv
<1> QED
  BY <1>8, <1>17 DEF Leads, SeenBy

\* A new page begins where everything has been told up to.
LEMMA NewPageLeads ==
    ASSUME ListingsWellFormed, NEW c \in BOOLEAN, NEW h \in Histories, HistoryOK(h), GroupsApart(h), NEW m \in Nat,
           Sound(h, h.keys, UNION Range(h.groups), m, m), c => Upto(h, h.keys, UNION Range(h.groups), m),
           h.asked.kind = "objects" /\ m = 0 => h.keys = <<>> /\ UNION Range(h.groups) = {}
    PROVE  PageInv(c, h, NewPage(h.asked, m))
<1>1. PICK r \in Requests : r = h.asked
  BY DEF HistoryOK
<1>2. r.kind \in ListKinds /\ r.max \in Nat /\ r.fetch \in Nat \ {0}
  BY ListingAssumption DEF ListingsWellFormed
<1>3. PICK t : t = NewPage(r, m)
  OBVIOUS
<1>4. {} \in FinSets /\ <<>> \in Seq(Keys) /\ r.view \in {x.view : x \in Requests} /\ 0 \in Nat
      /\ Cardinality({}) = 0
  BY FS_EmptySet DEF FinSets
<1>5. t \in Pages
  BY <1>2, <1>3, <1>4 DEF NewPage, Pages, PagePcs
<1>6. /\ t.kind = r.kind /\ t.view = r.view /\ t.max = r.max /\ t.fetch = r.fetch
      /\ t.marker = m /\ t.pc = "start" /\ ~t.truncated /\ ~t.reading /\ t.last = m
      /\ t.contents = <<>> /\ t.common = {} /\ t.size = 0 /\ ~t.checkMore
      /\ ~t.big
  BY <1>3 DEF NewPage
<1>7. Listed(t) = 0 /\ Used(t) = 0 /\ Len(t.contents) = 0
  BY <1>4, <1>6 DEF Listed, Used
<1>8. Fits(t) /\ Room(t)
  BY <1>2, <1>6, <1>7 DEF Fits, Room
<1>9. Base(h, t)
  BY <1>1, <1>5, <1>6, <1>8 DEF Base
<1>10. Told(h, t) = h.keys /\ ToldGroups(h, t) = UNION Range(h.groups)
  <2>1. h.keys \in Seq(Keys)
    BY DEF Histories
  <2>2. h.keys \o <<>> = h.keys
    BY <2>1, ConcatEmptySeq
  <2> QED
    BY <1>6, <2>2 DEF Told, ToldGroups
<1>11. Going(c, h, t, t.last)
  BY <1>6, <1>9, <1>10 DEF Going, Filling, Filled
<1>12. FromPrefix(t) => Told(h, t) = <<>> /\ ToldGroups(h, t) = {}
  BY <1>1, <1>6, <1>10 DEF FromPrefix
<1>13. Ready(c, h, t)
  BY <1>6, <1>8, <1>11, <1>12 DEF Ready
<1>14. PageInv(c, h, t)
  BY <1>6, <1>9, <1>13 DEF PageInv
<1> QED
  BY <1>1, <1>3, <1>14

-----------------------------------------------------------------------------
(* Listings: the theorems.                                                 *)

ListInv(c) ==
    /\ index \subseteq Keys /\ listing.stable \subseteq index /\ index \subseteq listing.ever
    /\ PageInv(c, listing, ls)

LEMMA BecomesKeeps ==
    ASSUME NEW c \in BOOLEAN, ListInv(c), NEW x, Becomes(x), Leads(c, listing, x)
    PROVE  ListInv(c)'
<1>1. ls' = x /\ listing' = SeenBy(listing, x) /\ index' = index
  BY DEF Becomes, Seen, SeenBy
<1>2. listing \in Histories
  BY DEF ListInv, PageInv, Base
<1>3. SeenBy(listing, x).stable = listing.stable /\ SeenBy(listing, x).ever = listing.ever
  BY <1>2 DEF SeenBy, Histories
<1>4. PageInv(c, listing', ls')
  BY <1>1 DEF Leads
<1> QED
  BY <1>1, <1>3, <1>4 DEF ListInv

LEMMA DisturbKeeps ==
    ASSUME NEW c \in BOOLEAN, ListInv(c), NEW i \in SUBSET Keys, Disturb(i),
           ls' \in {ls, [ls EXCEPT !.connected = FALSE], [ls EXCEPT !.down = TRUE]}
    PROVE  ListInv(c)'
<1>1. PICK h : h = listing
  OBVIOUS
<1>2. PICK h2 : h2 = listing'
  OBVIOUS
<1>3. h \in Histories /\ HistoryOK(h) /\ PageInv(c, h, ls)
  BY <1>1 DEF ListInv, PageInv, Base
<1>4. h2 = [h EXCEPT !.changes = @ + 1, !.stable = @ \cap i, !.ever = @ \cup i] /\ index' = i
  BY <1>1, <1>2 DEF Disturb
<1>5. PICK n \in Nat : n = h.changes + 1
  BY <1>3 DEF Histories
<1>6. h2 = [h EXCEPT !.changes = n, !.stable = h.stable \cap i, !.ever = h.ever \cup i]
  BY <1>4, <1>5
<1>7. h2 \in Histories /\ h2.asked = h.asked /\ h2.keys = h.keys /\ h2.groups = h.groups
      /\ h2.stable = h.stable \cap i /\ h2.ever = h.ever \cup i
  BY <1>3, <1>6 DEF Histories
<1>8. HistoryOK(h2) /\ Disturbed(h, h2)
  BY <1>3, <1>7 DEF HistoryOK, Disturbed
<1>9. PageInv(c, h2, ls)
  BY <1>3, <1>7, <1>8, PageStays
<1>10. PageInv(c, h2, ls')
  BY <1>9, PageIsDeaf
<1>11. h2.stable \subseteq i /\ i \subseteq h2.ever
  BY <1>7
<1> QED
  BY <1>2, <1>4, <1>10, <1>11 DEF ListInv

LEMMA ListInitOK ==
    ASSUME ListingsWellFormed, NEW c \in BOOLEAN, ListInit
    PROVE  ListInv(c)
<1>1. PICK r \in Requests : /\ ls = NewPage(r, r.start)
                            /\ listing = [asked |-> r, keys |-> <<>>, groups |-> <<>>, changes |-> 0,
                                          big |-> 0, stable |-> index, ever |-> index]
  BY DEF ListInit
<1>2. index \in SUBSET Keys
  BY DEF ListInit
<1>3. PICK h : h = listing
  OBVIOUS
<1>4. h \in Histories
  <2>1. <<>> \in Seq(Keys) /\ <<>> \in Seq(SUBSET Nat) /\ 0 \in Nat
    OBVIOUS
  <2> QED
    BY <1>1, <1>2, <1>3, <2>1 DEF Histories
<1>5. h.asked = r /\ h.keys = <<>> /\ h.groups = <<>> /\ h.stable = index /\ h.ever = index
  BY <1>1, <1>3
<1>6. HistoryOK(h) /\ GroupsApart(h)
  BY <1>2, <1>5 DEF HistoryOK, GroupsApart
<1>7. UNION Range(h.groups) = {}
  BY <1>5 DEF Range
<1>8. PICK m \in Nat : m = r.start
  BY DEF ListingsWellFormed
<1>9. Sound(h, <<>>, {}, m, m)
  BY <1>5, <1>8 DEF Sound
<1>10. Upto(h, <<>>, {}, m)
  <2>1. \A k \in h.stable : k \in Nat
    BY <1>2, <1>5, ListingAssumption
  <2>2. \A k \in h.stable : Wanted(h, k) => ~(k <= m)
    BY <1>5, <1>8, <2>1 DEF Wanted
  <2> QED
    BY <2>2 DEF Upto
<1>11. Sound(h, h.keys, UNION Range(h.groups), m, m) /\ Upto(h, h.keys, UNION Range(h.groups), m)
  BY <1>5, <1>7, <1>9, <1>10
<1>12. PageInv(c, h, NewPage(h.asked, m))
  BY <1>4, <1>5, <1>6, <1>7, <1>11, NewPageLeads
<1>13. PageInv(c, listing, ls)
  BY <1>1, <1>3, <1>5, <1>8, <1>12
<1> QED
  BY <1>2, <1>3, <1>5, <1>13 DEF ListInv

LEMMA ListFetchKeeps ==
    ASSUME ListingsWellFormed, NEW c \in BOOLEAN, c => PrefixIsNoKey, ListInv(c), ListFetch
    PROVE  ListInv(c)'
<1>1. PageInv(c, listing, ls) /\ ls.pc = "fetch" /\ ls.reading
  BY DEF ListInv, ListFetch
<1>2. CASE Becomes(FetchFails(ls))
  <2>1. Leads(c, listing, FetchFails(ls))
    BY <1>1, NothingLeads
  <2> QED
    BY <1>2, <2>1, BecomesKeeps
<1>3. CASE /\ ls.kind \in BigKinds /\ ls' = TooBig(ls) /\ UNCHANGED index
           /\ listing' = [listing EXCEPT !.big = @ + 1]
  <2>1. PICK h, h2 : h = listing /\ h2 = listing'
    OBVIOUS
  <2>2. h \in Histories /\ HistoryOK(h) /\ PageInv(c, h, ls)
    BY <1>1, <2>1 DEF PageInv, Base
  <2>3. PICK n \in Nat : n = h.big + 1
    BY <2>2 DEF Histories
  <2>4. h2 = [h EXCEPT !.big = n]
    BY <1>3, <2>1, <2>3
  <2>5. h2 \in Histories /\ h2.asked = h.asked /\ h2.keys = h.keys /\ h2.groups = h.groups
        /\ h2.stable = h.stable /\ h2.ever = h.ever
    BY <2>2, <2>4 DEF Histories
  <2>6. HistoryOK(h2) /\ Disturbed(h, h2)
    BY <2>2, <2>5 DEF HistoryOK, Disturbed
  <2>7. PageInv(c, h2, ls)
    BY <2>2, <2>5, <2>6, PageStays
  <2>8. Leads(c, h2, TooBig(ls)) /\ TooBig(ls).pc # "answered"
    BY <1>1, <1>3, <2>7, TooBigLeads
  <2>9. PageInv(c, h2, ls')
    BY <1>3, <2>8 DEF Leads, SeenBy
  <2> QED
    BY <1>3, <2>1, <2>5, <2>9 DEF ListInv
<1>4. CASE Becomes([ls EXCEPT !.pc = "fetched", !.found = NextKeys(ls.last, ls.included, ls.count)])
  <2>1. PICK t : t = [ls EXCEPT !.pc = "fetched", !.found = NextKeys(ls.last, ls.included, ls.count)]
    OBVIOUS
  <2>2. Becomes(t)
    BY <1>4, <2>1
  <2>3. Leads(c, listing, t)
    BY <1>1, <2>1, ReadLeads DEF ListInv
  <2> QED
    BY <2>2, <2>3, BecomesKeeps
<1> QED
  BY <1>2, <1>3, <1>4 DEF ListFetch

LEMMA ListNextKeeps ==
    ASSUME ListingsWellFormed, NEW c \in BOOLEAN, c => PrefixIsNoKey, ListInv(c),
           ListFetched => ReadEndsWell(c, ls), [ListNext]_listVars
    PROVE  ListInv(c)'
<1>0. PageInv(c, listing, ls)
  BY DEF ListInv
<1>1. CASE ListStart
  <2>1. Leads(c, listing, BucketInfoFails(ls)) /\ Leads(c, listing, Begin(ls))
    BY <1>0, <1>1, StartLeads DEF ListStart
  <2>2. CASE Becomes(BucketInfoFails(ls))
    BY <2>1, <2>2, BecomesKeeps
  <2>3. CASE Becomes(Begin(ls))
    BY <2>1, <2>3, BecomesKeeps
  <2> QED
    BY <1>1, <2>2, <2>3 DEF ListStart
<1>2. CASE LookupMarker
  <2>1. /\ Leads(c, listing, FetchFails(ls)) /\ Leads(c, listing, MarkerFound(ls))
        /\ Leads(c, listing, MarkerMissing(ls))
    BY <1>0, <1>2, LookupLeads DEF LookupMarker
  <2>2. CASE Becomes(FetchFails(ls))
    BY <2>1, <2>2, BecomesKeeps
  <2>3. CASE Becomes(IF ls.last \in index THEN MarkerFound(ls) ELSE MarkerMissing(ls))
    <3>1. Leads(c, listing, IF ls.last \in index THEN MarkerFound(ls) ELSE MarkerMissing(ls))
      BY <2>1
    <3>2. PICK x : x = IF ls.last \in index THEN MarkerFound(ls) ELSE MarkerMissing(ls)
      OBVIOUS
    <3> QED
      BY <2>3, <3>1, <3>2, BecomesKeeps
  <2> QED
    BY <1>2, <2>2, <2>3 DEF LookupMarker
<1>3. CASE ListFetch
  BY <1>3, ListFetchKeeps
<1>4. CASE ListFetched
  <2>1. ls.pc = "fetched"
    BY <1>4 DEF ListFetched
  <2>2. PICK x : x = IF ls.found = <<>> THEN NothingLeft(ls) ELSE Fetched(ls, ls.found)
    OBVIOUS
  <2>3. Becomes(x)
    BY <1>4, <2>2 DEF ListFetched
  <2>4. Leads(c, listing, x)
    <3>1. CASE ls.found = <<>>
      BY <1>0, <2>1, <2>2, <3>1, NothingLeads
    <3>2. CASE ls.found # <<>>
      BY <1>0, <1>4, <2>1, <2>2, <3>2, FetchedLeads
    <3> QED
      BY <3>1, <3>2
  <2> QED
    BY <2>3, <2>4, BecomesKeeps
<1>5. CASE NextPage
  <2>1. PICK h : h = listing
    OBVIOUS
  <2>2. PICK m : m = ls.next
    OBVIOUS
  <2>3. h \in Histories /\ HistoryOK(h) /\ GroupsApart(h) /\ PageEnded(c, h, ls) /\ ls.truncated
        /\ m \in Nat /\ ls.kind = h.asked.kind
    BY <1>0, <1>5, <2>1, <2>2 DEF NextPage, PageInv, Base, Pages
  <2>4. /\ Sound(h, h.keys, UNION Range(h.groups), m, m) /\ (c => Upto(h, h.keys, UNION Range(h.groups), m))
        /\ ~(h.asked.kind = "objects" /\ m = 0)
    BY <2>2, <2>3 DEF PageEnded
  <2>5. PageInv(c, h, NewPage(h.asked, m))
    BY <2>3, <2>4, NewPageLeads
  <2> QED
    BY <1>5, <2>1, <2>2, <2>5 DEF NextPage, ListInv
<1>6. CASE ChangeIndex
  <2>1. PICK k \in Keys : Disturb(IF k \in index THEN index \ {k} ELSE index \cup {k})
    BY <1>6 DEF ChangeIndex
  <2>2. PICK i \in SUBSET Keys : i = IF k \in index THEN index \ {k} ELSE index \cup {k}
    BY DEF ListInv
  <2>3. Disturb(i)
    BY <2>1, <2>2
  <2>4. ls' \in {ls, [ls EXCEPT !.connected = FALSE], [ls EXCEPT !.down = TRUE]}
    BY <1>6 DEF ChangeIndex
  <2> QED
    BY <2>3, <2>4, DisturbKeeps
<1>7. CASE ClientLeaves \/ ListShutdown
  <2>1. PICK i \in SUBSET Keys : i = index
    BY DEF ListInv
  <2>2. Disturb(i)
    BY <1>7, <2>1 DEF ClientLeaves, ListShutdown
  <2>3. ls' \in {ls, [ls EXCEPT !.connected = FALSE], [ls EXCEPT !.down = TRUE]}
    BY <1>7 DEF ClientLeaves, ListShutdown
  <2> QED
    BY <2>2, <2>3, DisturbKeeps
<1>8. CASE UNCHANGED listVars
  BY <1>8 DEF listVars, ListInv
<1> QED
  BY <1>1, <1>2, <1>3, <1>4, <1>5, <1>6, <1>7, <1>8 DEF ListNext

\* What the client has is in order, and was there, at any time.
LEMMA PageIsSound ==
    ASSUME NEW c \in BOOLEAN, NEW h, NEW l, PageInv(c, h, l)
    PROVE  /\ \A i, j \in 1 .. Len(h.keys) : i < j => h.keys[i] < h.keys[j]
           /\ \A i \in 1 .. Len(h.keys) : h.keys[i] \in h.ever /\ Holds(h.asked.view, h.keys[i])
           /\ \A g \in UNION Range(h.groups) :
                 \E k \in h.ever : h.asked.view.group[k] = g /\ Starts(h.asked.view, k)
<1>1. l \in Pages /\ h \in Histories
  BY DEF PageInv, Base
<1>2. l.contents \in Seq(Keys) /\ h.keys \in Seq(Keys) /\ l.pc \in PagePcs
  BY <1>1 DEF Pages, Histories
<1>3. \E p, m, s, gs : s \in Seq(Keys) /\ UNION Range(h.groups) \subseteq gs /\ Sound(h, h.keys \o s, gs, m, p)
  <2>1. ASSUME NEW p, Filled(h, l, p)
        PROVE  \E q, m, s, gs : s \in Seq(Keys) /\ UNION Range(h.groups) \subseteq gs
                                /\ Sound(h, h.keys \o s, gs, m, q)
    <3>1. PICK gs : gs = ToldGroups(h, l)
      OBVIOUS
    <3>2. UNION Range(h.groups) \subseteq gs /\ Sound(h, h.keys \o l.contents, gs, l.marker, p)
      BY <2>1, <3>1 DEF Filled, Told, ToldGroups
    <3> QED
      BY <1>2, <3>2
  <2>2. CASE l.pc = "answered"
    <3>1. PICK p \in Nat : Sound(h, h.keys, UNION Range(h.groups), l.marker, p)
      BY <2>2 DEF PageInv, PageEnded
    <3>2a. <<>> \in Seq(Keys)
      OBVIOUS
    <3>2. PICK s \in Seq(Keys) : s = <<>>
      BY <3>2a, Zenon
    <3>3. h.keys \o s = h.keys
      BY <1>2, <3>2, ConcatEmptySeq
    <3>4. PICK gs : gs = UNION Range(h.groups)
      OBVIOUS
    <3> QED
      BY <3>1, <3>3, <3>4
  <2>3. CASE l.pc # "answered"
    <3>1. \E p : Filled(h, l, p)
      <4>1. l.pc \in {"start", "lookup"} => Filled(h, l, l.last)
        BY DEF PageInv, Ready, Going, Filling
      <4>2. l.pc \in {"fetch", "fetched"} => Filled(h, l, From(l))
        BY DEF PageInv, Fetching, Going, Filling
      <4>3. l.pc \in {"failed", "gone"} => \E p : Filled(h, l, p)
        BY DEF PageInv
      <4> QED
        BY <1>2, <2>3, <4>1, <4>2, <4>3 DEF PagePcs
    <3> QED
      BY <2>1, <3>1
  <2> QED
    BY <2>2, <2>3
<1>4. PICK p, m, s, gs : s \in Seq(Keys) /\ UNION Range(h.groups) \subseteq gs /\ Sound(h, h.keys \o s, gs, m, p)
  BY <1>3
<1>5. PICK ks : ks = h.keys \o s
  OBVIOUS
<1>6. /\ Len(h.keys) \in Nat /\ Len(s) \in Nat /\ Len(ks) = Len(h.keys) + Len(s)
      /\ \A i \in 1 .. Len(h.keys) : ks[i] = h.keys[i]
  BY <1>2, <1>4, <1>5, ConcatProperties
<1>7. \A i \in 1 .. Len(h.keys) : i \in 1 .. Len(ks)
  BY <1>6
<1>8. /\ \A i, j \in 1 .. Len(ks) : i < j => ks[i] < ks[j]
      /\ \A i \in 1 .. Len(ks) : ks[i] \in h.ever /\ Holds(h.asked.view, ks[i])
      /\ \A g \in gs : \E k \in h.ever : h.asked.view.group[k] = g /\ Starts(h.asked.view, k)
  BY <1>4, <1>5 DEF Sound
<1> QED
  BY <1>4, <1>6, <1>7, <1>8

LEMMA ListingIsSound ==
    ASSUME NEW c \in BOOLEAN, ListInv(c)
    PROVE  EachListedOnce /\ ListedExists /\ PageIsBounded /\ AnsweredReadsNothing
<1>1. PICK h : h = listing
  OBVIOUS
<1>2. PageInv(c, h, ls) /\ Base(h, ls)
  BY <1>1 DEF ListInv, PageInv
<1>3. h.keys \in Seq(Keys) /\ h.groups \in Seq(SUBSET Nat) /\ ls.kind = h.asked.kind
  BY <1>2 DEF Base, Histories
<1>4. DOMAIN h.keys = 1 .. Len(h.keys) /\ DOMAIN h.groups = 1 .. Len(h.groups)
  BY <1>3
<1>5. /\ \A i, j \in 1 .. Len(h.keys) : i < j => h.keys[i] < h.keys[j]
      /\ \A i \in 1 .. Len(h.keys) : h.keys[i] \in h.ever /\ Holds(h.asked.view, h.keys[i])
      /\ \A g \in UNION Range(h.groups) :
            \E k \in h.ever : h.asked.view.group[k] = g /\ Starts(h.asked.view, k)
  BY <1>2, PageIsSound
<1>6. EachListedOnce
  BY <1>1, <1>2, <1>3, <1>4, <1>5 DEF EachListedOnce, Base, GroupsApart
<1>7. ListedExists
  <2>1. \A k \in Range(h.keys) : k \in h.ever /\ Holds(h.asked.view, k)
    BY <1>4, <1>5 DEF Range
  <2> QED
    BY <1>1, <1>5, <2>1 DEF ListedExists, View, ListedGroups
<1>8. PageIsBounded
  BY <1>2 DEF PageIsBounded, Base, Fits
<1>9. AnsweredReadsNothing
  BY <1>2 DEF AnsweredReadsNothing, PageInv
<1> QED
  BY <1>6, <1>7, <1>8, <1>9

LEMMA ListingIsAll ==
    ASSUME ListInv(TRUE)
    PROVE  ListingIsComplete
<1>1. PICK h : h = listing
  OBVIOUS
<1>2. PageInv(TRUE, h, ls) /\ h.keys \in Seq(Keys)
  BY <1>1 DEF ListInv, PageInv, Base, Histories
<1> SUFFICES ASSUME LastPage, ls.max # 0,
                    NEW k \in h.stable \ Corrupt, Starts(h.asked.view, k), k > h.asked.start
             PROVE  IF h.asked.view.group[k] = 0 THEN k \in Range(h.keys)
                    ELSE h.asked.view.group[k] \in (UNION Range(h.groups)) \cup {h.asked.start}
  BY <1>1 DEF ListingIsComplete, View, ListedGroups
<1>3. AllTold(h, h.keys, UNION Range(h.groups))
  BY <1>2 DEF PageInv, PageEnded, LastPage
<1>4. IsTold(h, h.keys, UNION Range(h.groups), k)
  BY <1>3 DEF AllTold, Wanted
<1>5. DOMAIN h.keys = 1 .. Len(h.keys)
  BY <1>2
<1>6. CASE h.asked.view.group[k] = 0
  <2>1. PICK i \in 1 .. Len(h.keys) : h.keys[i] = k
    BY <1>4, <1>6 DEF IsTold
  <2> QED
    BY <1>5, <1>6, <2>1 DEF Range
<1>7. CASE h.asked.view.group[k] # 0
  BY <1>4, <1>7 DEF IsTold
<1> QED
  BY <1>6, <1>7

\* As long as no read has ended where the code does not look for more.
LEMMA ReadsEndWell ==
    ASSUME NEW c \in BOOLEAN, ListInv(c), ~Stuck(ls), c => ~Cut(ls)
    PROVE  ReadEndsWell(c, ls)
<1>1. ls \in Pages
  BY DEF ListInv, PageInv, Base
<1>2. Read(ls).count = ls.count /\ Read(ls).kind = ls.kind
  BY <1>1 DEF Read, Pages
<1> QED
  BY <1>2 DEF Stuck, Cut, FullRead, ReadEndsWell, EndsWell

\* The history of slips: those of the reads so far.
LEMMA SlipsStay ==
    ASSUME [ListNext]_listVars
    PROVE  slips \subseteq slips' /\ (ListFetched => SlipsOf(ls) \subseteq slips')
BY DEF ListNext, ListFetched, listVars, Becomes, ListStart

\* A client that follows the markers is told nothing twice and nothing that
\* was not there, on pages that are never longer than it asked for, and once
\* its last page is answered it has been told of every key that was there all
\* the time, itself or by its common prefix, however its listing is cut into
\* pages and reads, whatever other requests do to the index meanwhile, and
\* although reads fail, are repeated, and the client or the server goes away
\* (s3_get_bucket_action.cc and the other listings); but for a listing of which
\* a read ended where the code does not look for more.
THEOREM ListingsAreRight ==
    ListingsWellFormed /\ PrefixIsNoKey /\ ListSpec => []ListingIsRight
<1> DEFINE ListingIInv == /\ "stuck" \notin slips => ListInv(FALSE)
                          /\ slips = {} => ListInv(TRUE)
                          /\ slips \subseteq {"stuck", "cut"}
<1> SUFFICES ASSUME ListingsWellFormed, PrefixIsNoKey
             PROVE  ListSpec => []ListingIsRight
  OBVIOUS
<1>1. ListInit => ListingIInv
  BY ListInitOK DEF ListInit
<1>2. ListingIInv /\ [ListNext]_listVars => ListingIInv'
  <2> SUFFICES ASSUME ListingIInv, [ListNext]_listVars
               PROVE  ListingIInv'
    OBVIOUS
  <2>1. slips' \subseteq {"stuck", "cut"}
    BY DEF ListNext, ListFetched, SlipsOf, listVars
  <2>2. ASSUME NEW c \in BOOLEAN, ListInv(c), IF c THEN slips' = {} ELSE "stuck" \notin slips'
        PROVE  ListInv(c)'
    <3>1. ASSUME ListFetched PROVE ReadEndsWell(c, ls)
      <4>1. SlipsOf(ls) \subseteq slips'
        BY <3>1, SlipsStay
      <4>2. ~Stuck(ls) /\ (c => ~Cut(ls))
        BY <2>2, <4>1 DEF SlipsOf
      <4> QED
        BY <2>2, <4>2, ReadsEndWell
    <3> QED
      BY <2>2, <3>1, ListNextKeeps
  <2> QED
    BY <2>1, <2>2, SlipsStay
<1>3. ListingIInv => ListingIsRight
  BY ListingIsSound, ListingIsAll DEF ListingIsRight
<1> QED
  BY <1>1, <1>2, <1>3, PTL DEF ListSpec
=============================================================================
