------------------------------ MODULE PostQueue ------------------------------
(***************************************************************************)
(* S3HttpPostQueueImpl and S3HttpPostEngineImpl: the audit log entries of  *)
(* finished requests are queued and posted over HTTP, one at a time and in *)
(* their order.  The engine calls back when an entry was accepted or not;  *)
(* the callback posts the next entry, or the same one again, while the     *)
(* engine is still in the handler of the one before: it then leaves the    *)
(* entry to an event of the main loop.                                     *)
(***************************************************************************)
EXTENDS Naturals, Sequences

CONSTANTS MaxErr,    \* MAX_ERR
          MaxMsgs,   \* MAX_MSG_IN_QUEUE
          Posts,     \* bound: entries logged
          PqFault    \* subset of {"connect", "event", "status", "lost", "malformed"}

ASSUME PqAssumption == MaxErr \in Nat /\ MaxMsgs \in Nat \ {0} /\ Posts \in Nat

VARIABLES pq,    \* the queue and the engine
          pqLog  \* [next, accepted, sent]: the entry to come, those taken into the queue, those acknowledged

pqVars == <<pq, pqLog>>

NoMsg == 0
NewQueue ==
    [queue |-> <<>>, nErr |-> 0, inProgress |-> FALSE,
     request |-> "none",   \* request_in_progress: none, sent, body (headers were read)
     msg |-> NoMsg,        \* the entry the request carries
     status |-> "none", toSend |-> NoMsg, fError |-> FALSE, connected |-> FALSE,
     event |-> "none",     \* p_event: none, idle, pending (added or active)
     orphan |-> FALSE]     \* history: event_new failed while a request was in progress

-----------------------------------------------------------------------------
(* S3HttpPostEngineImpl.  Each operator gives the states that may follow.  *)
(* A failing event_new or event_add calls on_fail at once, which posts the *)
(* entry again inside the call that failed.  Bound: one such failure in a  *)
(* call of the main loop; the operators named Again are the posts inside.  *)

MaySendFail == "connect" \in PqFault
MayEventFail == "event" \in PqFault
SendRequest(q, m) == [q EXCEPT !.request = "sent", !.msg = m, !.status = "none", !.connected = TRUE]
\* The end of post and of call_error_callback, the event being there.
Activate(q) == [q EXCEPT !.event = "pending"]
AddError(q) == [q EXCEPT !.event = "pending", !.fError = TRUE]
Schedule(q) == IF q.toSend # NoMsg THEN Activate(q) ELSE AddError(q)
PostAgain(q, m) ==
    IF q.request # "none"
    THEN {IF q.toSend # NoMsg THEN q ELSE Schedule([q EXCEPT !.toSend = m])}
    ELSE {SendRequest(q, m)} \cup IF MaySendFail THEN {Schedule(q)} ELSE {}
OnErrorAgain(q) ==
    LET t == [q EXCEPT !.inProgress = FALSE, !.nErr = @ + 1]
    IN  IF t.nErr > MaxErr THEN {[t EXCEPT !.queue = <<>>]}
        ELSE {[u EXCEPT !.inProgress = TRUE] : u \in PostAgain(t, Head(t.queue))}
\* prepare_scheduling: event_new fails; it returns the event a post inside may have made.
NoEvent(q) == OnErrorAgain([q EXCEPT !.orphan = @ \/ q.request # "none"])
\* event_add fails, with an event that was there or is new.
NotAdded(q) == OnErrorAgain([q EXCEPT !.event = IF @ = "none" THEN "idle" ELSE @])

CallErrorCallback(q) ==
    {AddError(q)} \cup
    IF ~MayEventFail THEN {}
    ELSE NotAdded(q) \cup
         IF q.event = "none" THEN {IF t.event = "none" THEN t ELSE AddError(t) : t \in NoEvent(q)} ELSE {}
\* The end of post.
PrepareAndSchedule(q) ==
    {Schedule(q)} \cup
    IF ~MayEventFail THEN {}
    ELSE (IF q.toSend # NoMsg THEN {} ELSE NotAdded(q)) \cup
         IF q.event = "none" THEN {IF t.event = "none" THEN t ELSE Schedule(t) : t \in NoEvent(q)} ELSE {}
\* A message that still waits makes post refuse; send_front only asserts that it did not.
EnginePost(q, m) ==
    IF q.request = "none" THEN {SendRequest(q, m)} \cup IF MaySendFail THEN PrepareAndSchedule(q) ELSE {}
    ELSE IF q.toSend # NoMsg THEN {q}
    ELSE PrepareAndSchedule([q EXCEPT !.toSend = m])

(* S3HttpPostQueueImpl.                                                    *)

SendFront(q) == {[t EXCEPT !.inProgress = TRUE] : t \in EnginePost(q, Head(q.queue))}
\* Mutant: the flag is not reset.
OnMsgSent_Busy(q) ==
    LET t == [q EXCEPT !.nErr = 0, !.queue = Tail(@)]
    IN  IF t.queue = <<>> THEN {t} ELSE SendFront(t)
OnMsgSent(q) ==
    LET t == [q EXCEPT !.inProgress = FALSE, !.nErr = 0, !.queue = Tail(@)]
    IN  IF t.queue = <<>> THEN {t} ELSE SendFront(t)
\* Mutant: the entry that failed is skipped.
OnError_Skips(q) ==
    LET t == [q EXCEPT !.inProgress = FALSE, !.nErr = @ + 1,
                       !.queue = IF Len(@) > 1 THEN Tail(@) ELSE @]
    IN  IF t.nErr > MaxErr THEN {[t EXCEPT !.queue = <<>>]} ELSE SendFront(t)
OnError(q) ==
    LET t == [q EXCEPT !.inProgress = FALSE, !.nErr = @ + 1]
    IN  IF t.nErr > MaxErr THEN {[t EXCEPT !.queue = <<>>]} ELSE SendFront(t)

\* request_finished: the callback runs while the request is still in progress.
RequestFinished(q) ==
    IF q.request = "none" THEN {q}
    ELSE {[t EXCEPT !.request = "none", !.status = "none"] :
            t \in IF q.status = "ok" THEN OnMsgSent(q) ELSE CallErrorCallback(q)}
Acknowledged(q) == IF q.request # "none" /\ q.status = "ok" THEN <<q.msg>> ELSE <<>>
Finishes(q) ==
    /\ pq' \in RequestFinished(q)
    /\ pqLog' = [pqLog EXCEPT !.sent = @ \o Acknowledged(q)]

-----------------------------------------------------------------------------
\* post: an entry of a request that has finished.
Post ==
    LET m == pqLog.next
        t == [pq EXCEPT !.queue = Append(@, m)]
        refused == pq.nErr >= MaxErr \/ Len(pq.queue) >= MaxMsgs
    IN  /\ m <= Posts
        /\ pq' \in IF refused THEN {pq} ELSE IF pq.inProgress THEN {t} ELSE SendFront(t)
        /\ pqLog' = [pqLog EXCEPT !.next = @ + 1,
                                  !.accepted = IF refused THEN @ ELSE Append(@, m)]

\* on_header_cb, on_headers_cb: an answer without a body is complete.
ResponseHeaders ==
    /\ pq.request = "sent" /\ pq.connected
    /\ \E status \in {"ok"} \cup ({"status"} \cap PqFault) :
        LET q == [pq EXCEPT !.status = status]
        IN  Finishes(q) \/ (pq' = [q EXCEPT !.request = "body"] /\ UNCHANGED pqLog)
\* on_response_data_cb: the whole body is there.
ResponseData == pq.request = "body" /\ pq.connected /\ Finishes(pq)
\* on_conn_err_cb: with or without a request under way.
ConnError ==
    /\ pq.connected /\ (pq.request = "none" \/ "lost" \in PqFault)
    /\ Finishes([pq EXCEPT !.connected = FALSE])
\* on_conn_fini_cb: nobody is called back.
ConnFini ==
    /\ pq.connected /\ (pq.request = "none" \/ "malformed" \in PqFault)
    /\ pq' = [pq EXCEPT !.connected = FALSE] /\ UNCHANGED pqLog
\* on_schedule_cb.
OnSchedule ==
    /\ pq.event = "pending"
    /\ pq' \in LET q == [pq EXCEPT !.event = "idle"]
                   t == [q EXCEPT !.toSend = NoMsg]
               IN  IF pq.fError THEN OnError([q EXCEPT !.fError = FALSE])
                   ELSE {SendRequest(t, pq.toSend)} \cup IF MaySendFail THEN OnError(t) ELSE {}
    /\ UNCHANGED pqLog

PqInit == pq = NewQueue /\ pqLog = [next |-> 1, accepted |-> <<>>, sent |-> <<>>]
PqNext == Post \/ ResponseHeaders \/ ResponseData \/ ConnError \/ ConnFini \/ OnSchedule
\* The main loop runs, and the server answers or the connection breaks.
PqFairness ==
    /\ WF_pqVars(OnSchedule)
    /\ WF_pqVars(ResponseHeaders \/ ResponseData)

-----------------------------------------------------------------------------
(* Properties.                                                             *)

\* The queue keeps to its limit and the engine is in a known state.
PqTypeOK ==
    /\ Len(pq.queue) \in 0 .. MaxMsgs /\ pq.nErr \in 0 .. MaxErr + 1
    /\ pq.request \in {"none", "sent", "body"} /\ pq.toSend \in 0 .. Posts

\* The queue waits for the engine exactly if the engine will call it back, and
\* will do so once: a request is under way, or an entry or an error waits for
\* an event that is pending; and it then waits for the first entry of the
\* queue.  It holds through failures to connect and to add the event, but not
\* after two things: the event cannot be created while a request is in
\* progress (orphan: an entry to send is left behind, with no event, or with
\* an error besides it that takes its event), and the errors exceed the limit.
OneCallBack ==
    LET waits == {w \in {"request", "toSend", "error"} :
                    CASE w = "request" -> pq.request # "none"
                      [] w = "toSend" -> pq.toSend # NoMsg
                      [] w = "error" -> pq.fError}
    IN  \/ pq.orphan
        \/ pq.nErr > MaxErr /\ waits = {} /\ pq.queue = <<>>
        \/ /\ ~pq.inProgress => waits = {}
           /\ pq.inProgress => pq.queue # <<>> /\ \E w \in waits : waits = {w}
           /\ pq.toSend # NoMsg => pq.toSend = Head(pq.queue)
           /\ pq.request # "none" => pq.msg = Head(pq.queue)
           /\ (pq.event = "pending") = (pq.toSend # NoMsg \/ pq.fError)

\* Entries are acknowledged in the order in which requests finished, none is
\* passed over and none is acknowledged twice, however often one is sent.  An
\* entry left behind (orphan) may be sent in the place of a later one.
SentInOrder ==
    pq.orphan \/
    /\ pqLog.sent = SubSeq(pqLog.accepted, 1, Len(pqLog.sent))
    /\ pqLog.sent \o pq.queue = pqLog.accepted \/ pq.nErr > MaxErr

\* Every entry that was taken is acknowledged in the end, unless the server
\* failed more often in a row than the limit, which empties the queue.  Two
\* failures stop the queue for ever: the event could not be created for an
\* entry to send (orphan), and the connection went away without an error while
\* a request was in progress, of which nobody is told.
EntriesAreSent ==
    <>[](pq.queue = <<>> \/ pq.orphan \/ (pq.request # "none" /\ ~pq.connected))
=============================================================================
