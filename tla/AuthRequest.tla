----------------------------- MODULE AuthRequest -----------------------------
(***************************************************************************)
(* S3AuthClient: one question to the authentication server, asked over a   *)
(* connection of its own.  A connection that breaks before the answer is   *)
(* tried again after a delay that grows; an answer is final.  The hooks on *)
(* the connection are taken off with the first event that ends an attempt, *)
(* so that what the connection does afterwards reaches nobody.  Two ends   *)
(* leave them on: an answer without a body, and a request that could not   *)
(* be prepared after its connection was made.                              *)
(***************************************************************************)
EXTENDS Naturals

CONSTANTS AuthOps,       \* subset of {"combo", "authorization", "validation"}
          MaxAuthRetry,  \* get_max_retry_count
          AuthFault      \* subset of {"prepare", "connection", "refused", "split", "empty", "leave"}

ASSUME AuthAssumption ==
    /\ AuthOps \subseteq {"combo", "authorization", "validation"}
    /\ MaxAuthRetry \in Nat

VARIABLE au  \* the question

NewQuestion(op) ==
    [op |-> op, opStatus |-> "unknown", retry |-> 0,
     conn |-> FALSE, hooks |-> FALSE, timer |-> FALSE, details |-> FALSE, answered |-> FALSE,
     loose |-> FALSE,  \* a connection whose attempt is over has its hooks on
     cut |-> FALSE,    \* history: the answer was taken before all of it had come
     connected |-> TRUE, succeeded |-> 0, failed |-> 0, pc |-> "start"]

-----------------------------------------------------------------------------
\* S3AuthClient::trigger_request with init_auth_op_ctx: a connection with new
\* hooks; the status of the attempt before is kept.
InitAuthOpCtx(a) == [a EXCEPT !.conn = TRUE, !.hooks = TRUE, !.pc = "asked"]
UnsetHooks(a) == [a EXCEPT !.hooks = FALSE]
LeaveHooks(a) == [a EXCEPT !.conn = FALSE, !.hooks = FALSE, !.loose = TRUE]
HandlerOnSuccess(a) == [a EXCEPT !.succeeded = @ + 1, !.pc = "over"]
HandlerOnFailed(a) == [a EXCEPT !.failed = @ + 1, !.pc = "over"]
\* setup_auth_request_body cannot encode what it has to send.
TriggerRequestFails(a) ==
    "prepare" \in AuthFault /\ au' = HandlerOnFailed(LeaveHooks(InitAuthOpCtx(a)))

SetEventWithRetryInterval(a) == [a EXCEPT !.retry = @ + 1, !.timer = TRUE, !.pc = "delay"]
OnCommonFailed(a) ==
    IF a.opStatus = "connection_failed" /\ a.retry < MaxAuthRetry
    THEN SetEventWithRetryInterval(a) ELSE HandlerOnFailed(a)

\* handle_response: the status of the attempt, and what the answer says of the
\* user; a validation has nothing to say.
\* Mutant: the status is left as it was.
HandleResponse_StatusKept(a, code, whole) ==
    [a EXCEPT !.answered = TRUE, !.cut = ~whole,
              !.details = code = "ok" /\ whole /\ a.op # "validation"]
HandleResponse(a, code, whole) ==
    [a EXCEPT !.opStatus = IF code = "ok" THEN "success" ELSE "failed", !.answered = TRUE, !.cut = ~whole,
              !.details = code = "ok" /\ whole /\ a.op # "validation"]

-----------------------------------------------------------------------------
Ask ==
    /\ au.pc = "start"
    /\ (au' = InitAuthOpCtx(au)) \/ TriggerRequestFails(au)

\* on_read_response: the first data that arrives is taken for the whole
\* answer; the code of the answer alone decides.
ReadResponse ==
    /\ au.pc = "asked" /\ au.conn /\ au.hooks
    /\ \E code \in {"ok"} \cup ({"refused"} \cap AuthFault),
          whole \in {TRUE} \cup {"split" \notin AuthFault} :
        LET a == HandleResponse(UnsetHooks(au), code, whole)
        IN  au' = IF ~au.connected THEN OnCommonFailed(UnsetHooks(au))
                  ELSE IF code = "ok" THEN HandlerOnSuccess(a) ELSE OnCommonFailed(a)

\* on_response_headers_end: an answer without a body.  The hooks stay on, and
\* the status is that of the attempt before, which on_common_failed looks at.
EmptyResponse ==
    /\ au.pc = "asked" /\ au.conn /\ au.hooks /\ "empty" \in AuthFault
    /\ \E code \in {"ok"} \cup ({"refused"} \cap AuthFault) :
        LET a == LeaveHooks([au EXCEPT !.answered = TRUE])
        IN  au' = IF au.op = "validation" /\ code = "ok" THEN HandlerOnSuccess(a) ELSE OnCommonFailed(a)

\* on_conn_err_callback, if the hooks are still on.  The server closes every
\* connection after its answer.
\* Mutant: the hooks are left on.
Broken_HooksKept(a) ==
    OnCommonFailed(IF a.connected THEN [a EXCEPT !.opStatus = "connection_failed"] ELSE a)
Broken(a) ==
    OnCommonFailed(UnsetHooks(IF a.connected THEN [a EXCEPT !.opStatus = "connection_failed"] ELSE a))
ConnErr ==
    /\ au.pc = "asked" /\ au.conn /\ au.hooks /\ "connection" \in AuthFault
    /\ au' = Broken(au)
\* A connection that was left with its hooks breaks, as every connection does
\* when the server has answered.  Bound: the question is not followed further;
\* it may now be asked again, or its action be called a second time.
LooseConnErr ==
    /\ au.loose /\ au.pc # "again"
    /\ au' = [OnCommonFailed(IF au.connected THEN [au EXCEPT !.opStatus = "connection_failed"] ELSE au)
               EXCEPT !.pc = "again"]
ConnCloses == au.conn /\ ~au.hooks /\ au' = [au EXCEPT !.conn = FALSE]

\* timeout_cb_auth_retry.
Retries ==
    LET a == [au EXCEPT !.timer = FALSE]
    IN  au.timer /\ au.pc = "delay" /\ (au' = InitAuthOpCtx(a) \/ TriggerRequestFails(a))
AuthClientLeaves ==
    /\ "leave" \in AuthFault /\ au.connected /\ au.pc \notin {"over", "again"}
    /\ au' = [au EXCEPT !.connected = FALSE]

AuthInit == \E op \in AuthOps : au = NewQuestion(op)
AuthStep == Ask \/ ReadResponse \/ EmptyResponse \/ ConnErr \/ Retries
AuthNext == AuthStep \/ LooseConnErr \/ ConnCloses \/ AuthClientLeaves
\* The main loop runs, and the server answers or the connection breaks.
AuthFairness == WF_au(AuthStep)

-----------------------------------------------------------------------------
(* Properties.                                                             *)

\* The question is at a known step, and is asked again only as often as the
\* limit says.
AuthTypeOK ==
    /\ au.pc \in {"start", "asked", "delay", "over", "again"} /\ au.retry \in 0 .. MaxAuthRetry
    /\ au.opStatus \in {"unknown", "success", "failed", "connection_failed"}

\* The action is called back once: when it was, nothing can call it again,
\* whatever its connection does later, and until then exactly one thing will.
\* The exception ("again") is a connection that breaks after its attempt left
\* the hooks on: an answer without a body, a request that was not prepared.
AuthCallsBackOnce ==
    \/ au.pc = "again" /\ au.loose
    \/ /\ au.succeeded + au.failed <= 1
       /\ au.pc = "over" <=> au.succeeded + au.failed = 1
       /\ au.hooks => au.pc = "asked"
       /\ au.timer <=> au.pc = "delay"

\* An answer that a waiting client's question has had is never asked for
\* again, and an action goes on only with what the server said of the user.
\* The exceptions: an answer without a body, which leaves the hooks and the
\* status of the attempt before, and one whose first data was not all of it.
AnswerIsFinal ==
    /\ au.answered => au.pc = "over" \/ au.loose
    /\ au.succeeded > 0 => au.answered /\ (au.details \/ au.op = "validation" \/ au.cut)

\* Every question ends: the action goes on or fails.
AuthEnds == <>(au.pc \in {"over", "again"})
=============================================================================
