--------------------------- MODULE MetadataRequest ---------------------------
(***************************************************************************)
(* The requests that read or change the metadata of an object or a bucket: *)
(* HEAD, location, ACL, tags and policy.  All have one shape.  The action  *)
(* loads the metadata, asks the authentication server whether the client   *)
(* may, reads and checks the body, sets one field in its own copy of the   *)
(* metadata and saves the whole copy.  There is no lock: several requests  *)
(* may hold a copy at the same time.                                       *)
(***************************************************************************)
EXTENDS Naturals, FiniteSets, Sequences

CONSTANTS MetaRequests,   \* functions from request names to their kinds
          TagBodies,      \* bodies of requests that set tags: [valid, nodes]
          ObjectMaxTags,  \* OBJECT_MAX_TAGS
          BucketMaxTags,  \* BUCKET_MAX_TAGS
          MetaFault       \* subset of {"load", "denied", "refused", "save", "timeout",
                          \* "leave", "shutdown"}

ASSUME BodyAssumption ==
    \A b \in TagBodies : /\ b.valid \in BOOLEAN
                         /\ b.nodes \in Seq({"tag", "longTag", "badTag", "blank"})

VARIABLES mq,    \* the requests
          meta,  \* the metadata in the index: of the object and of the bucket
          mqShutdown

mqVars == <<mq, meta, mqShutdown>>

-----------------------------------------------------------------------------
(* The action classes: the resource, the steps in their order, the field   *)
(* that is set or deleted, and whether a shutdown stops the action.        *)

OfBucket(steps) ==
    [on |-> "bucket", steps |-> <<"bucket", "authorize">> \o steps, field |-> "", sets |-> FALSE,
     checks |-> TRUE]
OfObject(steps) ==
    [OfBucket(steps) EXCEPT !.on = "object", !.steps = <<"bucket", "object", "authorize">> \o steps]
Sets(c, field) == [c EXCEPT !.field = field, !.sets = TRUE]
Deletes(c, field) == [c EXCEPT !.field = field]
Unchecked(c) == [c EXCEPT !.checks = FALSE]

PutObjectAcl == Sets(OfObject(<<"body", "validateAcl", "change", "save">>), "acl")
PutBucketAcl == Sets(OfBucket(<<"body", "validateAcl", "change", "save">>), "acl")
PutObjectTags == Sets(OfObject(<<"tagBody", "validateTags", "change", "save">>), "tags")
PutBucketTags == Sets(OfBucket(<<"tagBody", "validateTags", "change", "save">>), "tags")
PutBucketPolicy == Sets(OfBucket(<<"body", "validatePolicy", "change", "save">>), "policy")
DeleteObjectTags == Deletes(OfObject(<<"change", "save">>), "tags")
DeleteBucketTags == Deletes(OfBucket(<<"change", "save">>), "tags")
\* Constructed with check_shutdown off, as is the one that reads the policy.
DeleteBucketPolicy == Unchecked(Deletes(OfBucket(<<"policy", "change", "save">>), "policy"))
GetBucketPolicy == Unchecked(OfBucket(<<"missing">>))
GetBucketTags == OfBucket(<<"missing">>)
GetObjectTags == OfObject(<<>>)
GetObjectAcl == OfObject(<<>>)
GetBucketAcl == OfBucket(<<>>)
HeadObject == OfObject(<<>>)
HeadBucket == OfBucket(<<>>)
\* The bucket is loaded once more.
GetBucketLocation == OfBucket(<<"bucket">>)

Class ==
    [putObjectAcl |-> PutObjectAcl, putBucketAcl |-> PutBucketAcl, putObjectTags |-> PutObjectTags,
     putBucketTags |-> PutBucketTags, putBucketPolicy |-> PutBucketPolicy,
     deleteObjectTags |-> DeleteObjectTags, deleteBucketTags |-> DeleteBucketTags,
     deleteBucketPolicy |-> DeleteBucketPolicy, getBucketPolicy |-> GetBucketPolicy,
     getBucketTags |-> GetBucketTags, getObjectTags |-> GetObjectTags,
     getObjectAcl |-> GetObjectAcl, getBucketAcl |-> GetBucketAcl, headObject |-> HeadObject,
     headBucket |-> HeadBucket, getBucketLocation |-> GetBucketLocation]
\* The names of requests stand for the values they set, so they are others than
\* the values that are there before.
ASSUME MetaAssumption ==
    \A f \in MetaRequests : /\ f \in [DOMAIN f -> DOMAIN Class]
                            /\ DOMAIN f \cap {"set", "none", "unread"} = {}
Reading == {k \in DOMAIN Class : Class[k].field = ""}
On(r) == Class[mq[r].kind].on
FieldOf(r) == Class[mq[r].kind].field

NewMetaRequest(k) ==
    [kind |-> k, todo |-> Class[k].steps, error |-> "ok",
     copy |-> [acl |-> "unread", tags |-> "unread", policy |-> "unread"], body |-> <<>>,
     checks |-> Class[k].checks, connected |-> TRUE, reply |-> "none",
     saved |-> FALSE]

-----------------------------------------------------------------------------
(* S3PutTagBody.                                                           *)

\* parse_and_validate comes to a node that is no Tag and stays there: only a
\* Tag moves the cursor on.
Parse(b) ==
    LET stops == {i \in 1..Len(b.nodes) : b.nodes[i] \in {"badTag", "blank"}}
        first == CHOOSE i \in stops : \A j \in stops : i <= j
    IN  IF stops = {} THEN IF b.valid \/ b.nodes # <<>> THEN "ok" ELSE "MalformedXML"
        ELSE IF b.nodes[first] = "blank" THEN "never" ELSE "MalformedXML"
Legal(nodes, max) == Len(nodes) <= max /\ \A i \in 1..Len(nodes) : nodes[i] # "longTag"
ValidateObjectXmlTags(nodes) == Legal(nodes, ObjectMaxTags)
ValidateBucketXmlTags(nodes) == Legal(nodes, BucketMaxTags)

-----------------------------------------------------------------------------
(* Action::next and send_response_to_s3_client.                            *)

\* The first answer is the one the client sees.
Ended(m, reply) ==
    [m EXCEPT !.todo = <<>>, !.reply = IF m.connected /\ @ = "none" THEN reply ELSE @]
GoesOn(m) ==
    IF mqShutdown /\ m.checks THEN Ended(m, "shuttingDown")
    ELSE IF ~m.connected THEN Ended(m, "none")
    ELSE IF Tail(m.todo) = <<>> THEN Ended(m, m.error)
    ELSE [m EXCEPT !.todo = Tail(@)]

\* The main loop is in no handler.
Idle == \A r \in DOMAIN mq : mq[r].todo # <<"looping">>
Step(r, step) == Idle /\ mq[r].todo # <<>> /\ Head(mq[r].todo) = step
MetaBecomes(r, m) == mq' = [mq EXCEPT ![r] = m] /\ UNCHANGED <<meta, mqShutdown>>
MetaFails(r, f, e) == f \in MetaFault /\ MetaBecomes(r, Ended(mq[r], e))
Loaded(r, res) == [mq[r] EXCEPT !.copy = meta[res]]

\* HEAD of a bucket goes on to the authorization even if the bucket cannot be
\* loaded.
FetchBucketInfo(r) ==
    /\ Step(r, "bucket")
    /\ \/ MetaBecomes(r, GoesOn(IF On(r) = "bucket" THEN Loaded(r, "bucket") ELSE mq[r]))
       \/ mq[r].kind # "headBucket" /\ MetaFails(r, "load", "error")
       \/ /\ mq[r].kind = "headBucket" /\ "load" \in MetaFault
          /\ MetaBecomes(r, GoesOn([mq[r] EXCEPT !.error = "error"]))
FetchObjectInfo(r) ==
    /\ Step(r, "object")
    /\ \/ MetaBecomes(r, GoesOn(Loaded(r, "object")))
       \/ MetaFails(r, "load", "error")

\* check_authorization.
Authorize(r) ==
    /\ Step(r, "authorize")
    /\ MetaBecomes(r, GoesOn(mq[r])) \/ MetaFails(r, "denied", "denied")

\* validate_request, consume_incoming_content: the whole body is there, or the
\* client took too long.
BodyTimeout(r) == (Step(r, "body") \/ Step(r, "tagBody")) /\ MetaFails(r, "timeout", "error")
BodyArrives(r) == Step(r, "body") /\ MetaBecomes(r, GoesOn(mq[r]))
TagBodyArrives(r) ==
    /\ Step(r, "tagBody")
    /\ \E b \in TagBodies :
          MetaBecomes(r, CASE Parse(b) = "never" -> [mq[r] EXCEPT !.todo = <<"looping">>]
                           [] Parse(b) = "MalformedXML" -> Ended(mq[r], "refused")
                           [] Parse(b) = "ok" -> GoesOn([mq[r] EXCEPT !.body = b.nodes]))

\* validate_acl_with_auth: an empty ACL is not sent to the authentication server.
ValidateAcl(r) ==
    /\ Step(r, "validateAcl")
    /\ MetaBecomes(r, GoesOn(mq[r])) \/ MetaFails(r, "refused", "refused")
\* validate_policy; a policy that is too long is not sent either.
ValidatePolicy(r) ==
    /\ Step(r, "validatePolicy")
    /\ MetaBecomes(r, GoesOn(mq[r])) \/ MetaFails(r, "refused", "refused")
\* validate_request_xml_tags.
ValidateTags(r) ==
    /\ Step(r, "validateTags")
    /\ MetaBecomes(r, IF IF On(r) = "object" THEN ValidateObjectXmlTags(mq[r].body)
                         ELSE ValidateBucketXmlTags(mq[r].body)
                      THEN GoesOn(mq[r]) ELSE Ended(mq[r], "refused"))

\* check_metadata_missing_status: the error is set, and answered last.
CheckMissing(r) ==
    /\ Step(r, "missing")
    /\ MetaBecomes(r, GoesOn(IF mq[r].copy[IF mq[r].kind = "getBucketTags" THEN "tags" ELSE "policy"] = "none"
                             THEN [mq[r] EXCEPT !.error = "error"] ELSE mq[r]))
\* delete_bucket_policy: there is one.
CheckPolicy(r) ==
    /\ Step(r, "policy")
    /\ MetaBecomes(r, IF mq[r].copy.policy = "none" THEN Ended(mq[r], "error")
                      ELSE [mq[r] EXCEPT !.todo = Tail(@)])

\* The field is set in the copy and the copy handed to the index; from here on
\* a shutdown is ignored, except by the deletion of bucket tags.
\* Mutant: a shutdown is not ignored.
Change_Checks(r) ==
    /\ Step(r, "change")
    /\ MetaBecomes(r, [mq[r] EXCEPT !.todo = Tail(@), !.copy[FieldOf(r)] = r])
Change(r) ==
    /\ Step(r, "change")
    /\ MetaBecomes(r, [mq[r] EXCEPT !.todo = Tail(@), !.checks = @ /\ mq[r].kind = "deleteBucketTags",
                        !.copy[FieldOf(r)] = IF Class[mq[r].kind].sets THEN r ELSE "none"])

\* save_metadata and update: the copy replaces what is there.
Saves(r) ==
    /\ Step(r, "save")
    /\ meta' = [meta EXCEPT ![On(r)] = mq[r].copy]
    /\ LET m == [mq[r] EXCEPT !.saved = TRUE]
       IN  mq' = [mq EXCEPT ![r] = IF m.kind = "deleteBucketPolicy" THEN Ended(m, "ok")
                                   ELSE GoesOn(m)]
    /\ UNCHANGED mqShutdown
SaveFails(r) == Step(r, "save") /\ MetaFails(r, "save", "error")

MetaClientLeaves(r) ==
    /\ "leave" \in MetaFault /\ Idle /\ mq[r].connected /\ mq[r].todo # <<>>
    /\ MetaBecomes(r, [mq[r] EXCEPT !.connected = FALSE])
MetaShutdown ==
    /\ "shutdown" \in MetaFault /\ Idle /\ ~mqShutdown
    /\ mqShutdown' = TRUE /\ UNCHANGED <<mq, meta>>

MetaInit ==
    /\ \E f \in MetaRequests : mq = [r \in DOMAIN f |-> NewMetaRequest(f[r])]
    /\ \E v \in {"set", "none"} :
        meta = [object |-> [acl |-> "set", tags |-> "set", policy |-> "none"],
                bucket |-> [acl |-> "set", tags |-> "set", policy |-> v]]
    /\ mqShutdown = FALSE

\* What the server does by itself.
MetaStep(r) ==
    \/ FetchBucketInfo(r) \/ FetchObjectInfo(r) \/ Authorize(r) \/ BodyTimeout(r)
    \/ ValidateAcl(r) \/ ValidatePolicy(r) \/ ValidateTags(r) \/ CheckMissing(r) \/ CheckPolicy(r)
    \/ Change(r) \/ Saves(r) \/ SaveFails(r)
MetaNext ==
    \/ \E r \in DOMAIN mq : MetaStep(r) \/ BodyArrives(r) \/ TagBodyArrives(r) \/ MetaClientLeaves(r)
    \/ MetaShutdown
\* The main loop runs, the servers it asks answer and the read timer expires;
\* a client need not send its body.
MetaFairness == WF_mqVars(\E r \in DOMAIN mq : MetaStep(r))

-----------------------------------------------------------------------------
(* Properties.                                                             *)

\* A request that is told of success has saved its change, one that is turned
\* away by a shutdown has changed nothing (the deletion of bucket tags apart),
\* and what was denied or refused is never in the metadata, whoever else saves.
MetaAnswerIsTrue ==
    \A r \in DOMAIN mq :
        /\ mq[r].reply = "ok" /\ mq[r].kind \notin Reading => mq[r].saved
        /\ mq[r].reply = "shuttingDown" /\ mq[r].kind # "deleteBucketTags" => ~mq[r].saved
        /\ mq[r].reply \in {"denied", "refused"} =>
              \A res \in DOMAIN meta : \A f \in {"acl", "tags", "policy"} : meta[res][f] # r

\* Every request ends, and a client that has stayed has an answer, unless the
\* body of one is well-formed and has something other than a Tag in its TagSet:
\* the server then reads it without end.
MetaEnds ==
    <>(\/ \A r \in DOMAIN mq : mq[r].todo = <<>> /\ (mq[r].reply # "none" \/ ~mq[r].connected)
       \/ \E r \in DOMAIN mq : mq[r].todo = <<"looping">>)
=============================================================================
