---------------------------- MODULE PageTransport ----------------------------
(***************************************************************************)
(* The transport of pages from one task to one consumer.                   *)
(*                                                                         *)
(*   worker     the drivers of a SqlTask fill one partition of a           *)
(*              PartitionedOutputBuffer (a ClientBuffer); TaskResource     *)
(*              answers the requests for it                                *)
(*   network    requests and responses are lost or late, and the consumer  *)
(*              may give up a request that the worker still serves         *)
(*   consumer   an HttpPageBufferClient fetches the pages by token and     *)
(*              hands them to its DirectExchangeClient                     *)
(*                                                                         *)
(* A step is one critical section of one thread; what a method does after  *)
(* it releases a lock is a step of its own.  The worker may restart, or    *)
(* forget an old task: the next request then creates the task again, with  *)
(* a new instance id and an empty buffer.                                  *)
(***************************************************************************)
EXTENDS ClientBuffer, FiniteSets

CONSTANTS
    MaxInstance,    \* bound: how many times the task may be created
    Output,         \* Output[k]: the pages the drivers of instance k produce
    MaxResponseSize \* bytes the consumer asks for in one request

Instance == 1 .. MaxInstance
NoInstance == 0

ASSUME MaxInstanceAssumption == MaxInstance \in Nat \ {0}
ASSUME OutputAssumption == Output \in [Instance -> Seq(Page)]
ASSUME MaxResponseSizeAssumption == MaxResponseSize \in Nat

VARIABLES
    (* worker *)
    instance,       \* taskInstanceId of the task that now exists
    taskState,      \* TaskStateMachine; FAILED stands for ABORTED as well
    bufferState,    \* OutputBufferStateMachine of the partitioned buffer
    driver,         \* where the thread is that produces the output
    produced,       \* how many pages the drivers have produced
    buf,            \* the ClientBuffer
    pagesAdded,     \* ClientBuffer.pagesAdded, of every instance
    canceled,       \* history: the instances that were canceled
    (* requests: an HTTP request has an identity, reused when it is over *)
    request,        \* what the worker is asked for
    sstage,         \* how far the worker is with it
    response,       \* the answer, until the client has dealt with it
    acks,           \* acknowledge requests on the wire; nobody awaits them
    (* HttpPageBufferClient *)
    closed, future, token, scheduled, completed, taskInstanceId,
    cstage,         \* how far the client is with each request
    (* DirectExchangeClient *)
    exchangeClosed, \* close() was called
    outcome,        \* how the client entered completedClients
    received        \* history: the pages handed over, in order

worker == <<instance, taskState, bufferState, driver, produced, buf, pagesAdded, canceled>>
wire == <<request, sstage, response, acks>>
client == <<closed, future, token, scheduled, completed, taskInstanceId, cstage>>
exchange == <<exchangeClosed, outcome, received>>
vars == <<worker, wire, client, exchange>>

-----------------------------------------------------------------------------
(* A request is with the worker from "sent" to "respond", and with the     *)
(* client while it is "waiting" for the answer and while a callback for it *)
(* is due or running.                                                      *)
ServerStage == {"idle", "sent", "acked", "pending", "taken", "evicted", "respond"}
ClientStage == {"idle", "waiting", "delivered", "accepted", "added", "failed", "rejected"}

NoRequest == [kind |-> "none", token |-> 0, taskFailed |-> FALSE]

Response(kind, i, error, taskFailed, result) ==
    [kind |-> kind, instance |-> i, error |-> error, taskFailed |-> taskFailed, result |-> result]

NoResponse == Response("none", NoInstance, FALSE, FALSE, EmptyResults(0, FALSE))

Init ==
    /\ instance = 1
    /\ taskState = "RUNNING"
    /\ bufferState = "NO_MORE_BUFFERS"
    /\ driver = "running"
    /\ produced = 0
    /\ buf = NewBuffer
    /\ pagesAdded = [k \in Instance |-> 0]
    /\ canceled = {}
    /\ request = [r \in Read |-> NoRequest]
    /\ sstage = [r \in Read |-> "idle"]
    /\ response = [r \in Read |-> NoResponse]
    /\ acks = {}
    /\ closed = FALSE
    /\ future = NoRead
    /\ token = 0
    /\ scheduled = FALSE
    /\ completed = FALSE
    /\ taskInstanceId = NoInstance
    /\ cstage = [r \in Read |-> "idle"]
    /\ exchangeClosed = FALSE
    /\ outcome = "none"
    /\ received = << >>

-----------------------------------------------------------------------------
(* The drivers.                                                            *)

(* The read that a method took out of the buffer goes on to the given      *)
(* stage: the thread that took it completes it after releasing the lock.   *)
TakePendingRead(stage) ==
    sstage' = [r \in Read |-> IF r = buf.pendingRead /\ buf'.pendingRead = NoRead
                              THEN stage ELSE sstage[r]]

(* PartitionedOutputBuffer.enqueue ignores the page unless the state can   *)
(* add pages...                                                            *)
AdmitPage ==
    /\ driver = "running"
    /\ produced < Len(Output[instance])
    /\ IF bufferState = "NO_MORE_BUFFERS"
       THEN driver' = "admitted" /\ UNCHANGED produced
       ELSE produced' = produced + 1 /\ UNCHANGED driver
    /\ UNCHANGED <<instance, taskState, bufferState, buf, pagesAdded, canceled, wire, client, exchange>>

(* ... and hands it to the client buffer.                                  *)
EnqueuePage ==
    /\ driver = "admitted"
    /\ driver' = "running"
    /\ produced' = produced + 1
    /\ buf' = EnqueuePages(buf, <<Output[instance][produced + 1]>>)
    /\ pagesAdded' = IF buf.noMorePages THEN pagesAdded
                     ELSE [pagesAdded EXCEPT ![instance] = @ + 1]
    /\ TakePendingRead("taken")
    /\ UNCHANGED <<instance, taskState, bufferState, canceled, request, response, acks, client, exchange>>

(* SqlTaskExecution.checkTaskCompletion, once every driver is done: it     *)
(* looks at the task state first ...                                       *)
CheckTaskCompletion ==
    /\ driver = "running"
    /\ produced = Len(Output[instance])
    /\ driver' = IF taskState = "RUNNING" THEN "finishing" ELSE "done"
    /\ UNCHANGED <<instance, taskState, bufferState, produced, buf, pagesAdded, canceled, wire, client, exchange>>

(* ... and then says that there are no more pages.  The checkFlushComplete *)
(* at the end finds nothing to do: the only partition is destroyed after   *)
(* the buffer is finished or together with it.                             *)
NoMorePages ==
    /\ driver = "finishing"
    /\ driver' = "done"
    /\ bufferState' = IF bufferState = "NO_MORE_BUFFERS" THEN "FLUSHING" ELSE bufferState
    /\ buf' = SetNoMorePages(buf)
    /\ TakePendingRead("taken")
    /\ UNCHANGED <<instance, taskState, produced, pagesAdded, canceled, request, response, acks, client, exchange>>

-----------------------------------------------------------------------------
(* The task.                                                               *)

(* The coordinator cancels, aborts or fails the task, or a driver fails.   *)
CancelTask ==
    /\ taskState = "RUNNING"
    /\ taskState' = "CANCELED"
    /\ canceled' = canceled \cup {instance}
    /\ UNCHANGED <<instance, bufferState, driver, produced, buf, pagesAdded, wire, client, exchange>>

FailTask ==
    /\ taskState = "RUNNING"
    /\ taskState' = "FAILED"
    /\ UNCHANGED <<instance, bufferState, driver, produced, buf, pagesAdded, canceled, wire, client, exchange>>

(* checkTaskCompletion when the output buffer is finished.                 *)
FinishTask ==
    /\ taskState = "RUNNING"
    /\ driver = "done"
    /\ bufferState = "FINISHED"
    /\ taskState' = "FINISHED"
    /\ UNCHANGED <<instance, bufferState, driver, produced, buf, pagesAdded, canceled, wire, client, exchange>>

(* The buffer of a failed task must not look finished to its readers.      *)
(* Mutant: it is closed as if the task had been canceled. *)
AnyDoneTaskClosesBuffer == taskState \in {"CANCELED", "FAILED"}

ClosesBuffer == taskState = "CANCELED"

(* The state change listener of SqlTask runs after the task is done: the   *)
(* buffer of a failed task is aborted, which leaves its pages and readers  *)
(* alone; any other buffer is destroyed.                                   *)
CleanUpBuffer ==
    /\ taskState \in {"CANCELED", "FAILED"}
    /\ bufferState \in {"NO_MORE_BUFFERS", "FLUSHING"}
    /\ IF ClosesBuffer
       THEN bufferState' = "FINISHED" /\ buf' = Destroy(buf)
       ELSE bufferState' = "ABORTED" /\ UNCHANGED buf
    /\ TakePendingRead("evicted")
    /\ UNCHANGED <<instance, taskState, driver, produced, pagesAdded, canceled, request, response, acks, client, exchange>>

(* The worker restarts, or its old task is removed: the requests it was    *)
(* serving are gone, and the task that SqlTaskManager creates for the next *)
(* one has another instance id.                                            *)
MayRecreate == instance < MaxInstance

RecreateTask ==
    /\ MayRecreate
    /\ instance' = instance + 1
    /\ taskState' = "RUNNING"
    /\ bufferState' = "NO_MORE_BUFFERS"
    /\ driver' = "running"
    /\ produced' = 0
    /\ buf' = NewBuffer
    /\ sstage' = [r \in Read |-> IF sstage[r] \in {"sent", "respond"} THEN sstage[r] ELSE "idle"]
    /\ request' = [r \in Read |-> IF sstage[r] = "sent" THEN request[r] ELSE NoRequest]
    /\ UNCHANGED <<pagesAdded, canceled, response, acks, client, exchange>>

-----------------------------------------------------------------------------
(* TaskResource and the buffer, serving request r.                         *)

(* The worker is done with the request.  An answer that the client does    *)
(* not wait for any more goes nowhere.                                     *)
Answered(r) == IF cstage[r] = "waiting" THEN "respond" ELSE "idle"

Respond(r, error, taskFailed, result) ==
    /\ request' = [request EXCEPT ![r] = NoRequest]
    /\ response' = IF cstage[r] = "waiting"
                   THEN [response EXCEPT ![r] = Response(request[r].kind, instance, error, taskFailed, result)]
                   ELSE response

(* A read of the buffer is over.                                           *)
RespondRead(r) ==
    Respond(r, InvalidRead(buf, request[r].token), request[r].taskFailed,
            ProcessRead(buf, request[r].token, MaxResponseSize))

RespondEmpty(r) ==
    Respond(r, FALSE, request[r].taskFailed, EmptyResults(request[r].token, FALSE))

(* getResults reads the state of the task, and ClientBuffer.getPages then  *)
(* acknowledges under a lock of its own.  Nothing that may happen between  *)
(* the two depends on which of them is done, so they are one step.         *)
ReceiveGet(r) ==
    /\ sstage[r] = "sent"
    /\ request[r].kind = "GET"
    /\ IF InvalidAcknowledge(buf, request[r].token)
       THEN /\ Respond(r, TRUE, FALSE, EmptyResults(request[r].token, FALSE))
            /\ sstage' = [sstage EXCEPT ![r] = Answered(r)]
            /\ UNCHANGED buf
       ELSE /\ buf' = AcknowledgePages(buf, request[r].token)
            /\ request' = [request EXCEPT ![r].taskFailed = (taskState = "FAILED")]
            /\ sstage' = [sstage EXCEPT ![r] = "acked"]
            /\ UNCHANGED response
    /\ UNCHANGED <<instance, taskState, bufferState, driver, produced, pagesAdded, canceled, acks, client, exchange>>

(* Then it answers or waits; a read that waited before is thrown out.      *)
ReadPages(r) ==
    /\ sstage[r] = "acked"
    /\ buf' = GetPages(buf, request[r].token, r)
    /\ sstage' = [x \in Read |->
                    IF x = r
                    THEN IF CanReadNow(buf, request[r].token) THEN Answered(r) ELSE "pending"
                    ELSE IF x = buf.pendingRead THEN "evicted" ELSE sstage[x]]
    /\ IF CanReadNow(buf, request[r].token)
       THEN RespondRead(r)
       ELSE UNCHANGED <<request, response>>
    /\ UNCHANGED <<instance, taskState, bufferState, driver, produced, pagesAdded, canceled, acks, client, exchange>>

(* The thread that took the read out of the buffer completes it: with what *)
(* the buffer now holds, or with an empty result if it was thrown out.     *)
ProcessTakenRead(r) ==
    /\ sstage[r] = "taken"
    /\ sstage' = [sstage EXCEPT ![r] = Answered(r)]
    /\ RespondRead(r)
    /\ UNCHANGED <<worker, acks, client, exchange>>

CompleteWithEmpty(r) ==
    /\ sstage[r] = "evicted"
    /\ sstage' = [sstage EXCEPT ![r] = Answered(r)]
    /\ RespondEmpty(r)
    /\ UNCHANGED <<worker, acks, client, exchange>>

(* The wait time of getResults runs out: an empty result is sent and the   *)
(* future of the pending read is cancelled.  A read whose future is done   *)
(* has no effect on the buffer any more, so the slot counts as free.       *)
TimeOutRead(r) ==
    /\ sstage[r] \in {"pending", "taken", "evicted"}
    /\ sstage' = [sstage EXCEPT ![r] = Answered(r)]
    /\ RespondEmpty(r)
    /\ buf' = IF buf.pendingRead = r THEN [buf EXCEPT !.pendingRead = NoRead] ELSE buf
    /\ UNCHANGED <<instance, taskState, bufferState, driver, produced, pagesAdded, canceled, acks, client, exchange>>

(* acknowledgeResults; an invalid sequence id is an error nobody looks at. *)
ReceiveAck(t) ==
    /\ t \in acks
    /\ acks' = acks \ {t}
    /\ buf' = IF InvalidAcknowledge(buf, t) THEN buf ELSE AcknowledgePages(buf, t)
    /\ UNCHANGED <<instance, taskState, bufferState, driver, produced, pagesAdded, canceled, request, sstage, response, client, exchange>>

(* destroyTaskResults: the buffer of this consumer is the only one, so     *)
(* checkFlushComplete finishes the output buffer.                          *)
ReceiveDelete(r) ==
    /\ sstage[r] = "sent"
    /\ request[r].kind = "DELETE"
    /\ buf' = Destroy(buf)
    /\ bufferState' = IF bufferState \in {"NO_MORE_BUFFERS", "FLUSHING"}
                      THEN "FINISHED" ELSE bufferState
    /\ sstage' = [x \in Read |-> IF x = r THEN Answered(r)
                                 ELSE IF x = buf.pendingRead THEN "evicted" ELSE sstage[x]]
    /\ Respond(r, FALSE, FALSE, EmptyResults(0, FALSE))
    /\ UNCHANGED <<instance, taskState, driver, produced, pagesAdded, canceled, acks, client, exchange>>

-----------------------------------------------------------------------------
(* The network.                                                            *)

LoseRequest(r) ==
    /\ sstage[r] = "sent"
    /\ sstage' = [sstage EXCEPT ![r] = "idle"]
    /\ request' = [request EXCEPT ![r] = NoRequest]
    /\ UNCHANGED <<worker, response, acks, client, exchange>>

(* A response that the client still waits for completes its future; any    *)
(* other status than success is an exception that is not retried.          *)
Deliver(r) ==
    /\ sstage[r] = "respond"
    /\ cstage[r] = "waiting"
    /\ sstage' = [sstage EXCEPT ![r] = "idle"]
    /\ cstage' = [cstage EXCEPT ![r] = IF response[r].error THEN "rejected" ELSE "delivered"]
    /\ UNCHANGED <<worker, request, response, acks, closed, future, token, scheduled, completed, taskInstanceId, exchange>>

(* The client stops waiting, whatever the worker does with the request:    *)
(* the connection broke or timed out ("failed", which may be retried), or  *)
(* the response was unusable ("rejected", which is not).                   *)
FailRequest(r) ==
    /\ cstage[r] = "waiting"
    /\ \E how \in {"failed", "rejected"} : cstage' = [cstage EXCEPT ![r] = how]
    /\ sstage' = [sstage EXCEPT ![r] = IF @ = "respond" THEN "idle" ELSE @]
    /\ response' = [response EXCEPT ![r] = NoResponse]
    /\ UNCHANGED <<worker, request, acks, closed, future, token, scheduled, completed, taskInstanceId, exchange>>

-----------------------------------------------------------------------------
(* HttpPageBufferClient.                                                   *)

(* Request r is not in use, but for a callback of it that just returns.    *)
Available(r, returning) == sstage[r] = "idle" /\ (cstage[r] = "idle" \/ r = returning)

(* executeAsync.                                                           *)
Send(r, kind) ==
    /\ request' = [request EXCEPT ![r] = [kind |-> kind, token |-> IF kind = "GET" THEN token ELSE 0,
                                           taskFailed |-> FALSE]]
    /\ future' = r

(* scheduleRequest, called by the exchange whenever it wants more pages.   *)
ScheduleRequest ==
    /\ ~closed /\ future = NoRead /\ ~scheduled
    /\ scheduled' = TRUE
    /\ UNCHANGED <<worker, wire, closed, future, token, completed, taskInstanceId, cstage, exchange>>

(* initiateRequest, on the scheduler's thread.                             *)
InitiateRequest ==
    /\ scheduled
    /\ scheduled' = FALSE
    /\ IF closed \/ future # NoRead
       THEN UNCHANGED <<request, sstage, future, cstage>>
       ELSE \E r \in Read :
              /\ Available(r, NoRead)
              /\ Send(r, IF completed THEN "DELETE" ELSE "GET")
              /\ sstage' = [sstage EXCEPT ![r] = "sent"]
              /\ cstage' = [cstage EXCEPT ![r] = "waiting"]
    /\ UNCHANGED <<worker, response, acks, closed, token, completed, taskInstanceId, exchange>>

(* close(): the outstanding request is cancelled, which is a failure to    *)
(* its callback; unless the client was closed before, the buffer on the    *)
(* worker is destroyed.  Callback "returning" ends with this step.         *)
CloseClient(returning) ==
    LET Cancelled(r) == r = future /\ r # returning /\ cstage[r] = "waiting"
        AfterCancel(r) == IF r = returning THEN "idle"
                          ELSE IF Cancelled(r) THEN "failed" ELSE cstage[r]
        Unanswered(r) == IF Cancelled(r) /\ sstage[r] = "respond" THEN "idle" ELSE sstage[r] IN
    /\ closed' = TRUE
    /\ response' = [r \in Read |-> IF r = returning \/ Cancelled(r) THEN NoResponse ELSE response[r]]
    /\ IF closed
       THEN /\ future' = NoRead
            /\ sstage' = [r \in Read |-> Unanswered(r)]
            /\ cstage' = [r \in Read |-> AfterCancel(r)]
            /\ UNCHANGED request
       ELSE \E d \in Read :
              /\ Available(d, returning)
              /\ Send(d, "DELETE")
              /\ sstage' = [r \in Read |-> IF r = d THEN "sent" ELSE Unanswered(r)]
              /\ cstage' = [r \in Read |-> IF r = d THEN "waiting" ELSE AfterCancel(r)]

(* The callback of request r returns without more to do.                   *)
(* Mutant: the client goes on as if the request were open. *)
ReturnKeepingFuture(r) ==
    /\ cstage' = [cstage EXCEPT ![r] = "idle"]
    /\ response' = [response EXCEPT ![r] = NoResponse]
    /\ UNCHANGED <<request, sstage, future>>

Return(r) ==
    /\ cstage' = [cstage EXCEPT ![r] = "idle"]
    /\ response' = [response EXCEPT ![r] = NoResponse]
    /\ future' = IF future = r THEN NoRead ELSE future
    /\ UNCHANGED <<request, sstage>>

(* handleFailure.  DirectExchangeClient.clientFailed closes the client the *)
(* first time that the client completes; its future is then another one.   *)
HandleFailure(r, fatal) ==
    /\ IF fatal /\ outcome = "none"
       THEN outcome' = "failed" /\ CloseClient(r)
       ELSE UNCHANGED <<outcome, closed>> /\ Return(r)
    /\ UNCHANGED <<worker, acks, token, scheduled, completed, exchangeClosed, received>>

(* onFailure: a failure is permanent when it is a TrinoException, or when  *)
(* Backoff has seen enough failures over a long enough time.  Time is not  *)
(* modelled: any failure may be the one that is enough.                    *)
OnFailure(r) ==
    /\ \/ cstage[r] \in {"failed", "rejected"} /\ HandleFailure(r, TRUE)
       \/ cstage[r] = "failed" /\ HandleFailure(r, FALSE)
    /\ UNCHANGED taskInstanceId

(* The response is from another instance than the first one.               *)
(* Mutant: the id is not compared. *)
IgnoreInstance(r) == FALSE

InstanceMismatch(r) == taskInstanceId \notin {NoInstance, response[r].instance}

(* onSuccess of a GET, first critical section: the pages count only if the *)
(* response is for the current token of the same task instance.            *)
AcceptResponse(r) ==
    LET result == response[r].result IN
    /\ cstage[r] = "delivered"
    /\ response[r].kind = "GET"
    /\ IF response[r].taskFailed \/ InstanceMismatch(r)
       THEN HandleFailure(r, TRUE) /\ UNCHANGED taskInstanceId
       ELSE /\ taskInstanceId' = response[r].instance
            /\ cstage' = [cstage EXCEPT ![r] = "accepted"]
            /\ IF result.token = token
               THEN /\ token' = result.nextToken
                    /\ acks' = IF result.pages # << >> THEN acks \cup {result.nextToken} ELSE acks
                    /\ UNCHANGED response
               ELSE /\ response' = [response EXCEPT ![r].result.pages = << >>]
                    /\ UNCHANGED <<token, acks>>
            /\ UNCHANGED <<worker, request, sstage, closed, future, scheduled, completed, exchange>>

(* clientCallback.addPages.  It throws if the client is completed: the     *)
(* callback is then over, and the rest of it is not executed.              *)
HandOverPages(r) ==
    /\ cstage[r] = "accepted"
    /\ IF outcome = "none"
       THEN /\ received' = received \o response[r].result.pages
            /\ cstage' = [cstage EXCEPT ![r] = "added"]
            /\ UNCHANGED response
       ELSE /\ cstage' = [cstage EXCEPT ![r] = "idle"]
            /\ response' = [response EXCEPT ![r] = NoResponse]
            /\ UNCHANGED received
    /\ UNCHANGED <<worker, request, sstage, acks, closed, future, token, scheduled, completed, taskInstanceId, exchangeClosed, outcome>>

(* onSuccess of a GET, second critical section.                            *)
CompleteRequest(r) ==
    /\ cstage[r] = "added"
    /\ completed' = (completed \/ response[r].result.bufferComplete)
    /\ Return(r)
    /\ UNCHANGED <<worker, acks, closed, token, scheduled, taskInstanceId, exchange>>

(* onSuccess of a DELETE; clientFinished completes the client.             *)
DeleteSucceeded(r) ==
    /\ cstage[r] = "delivered"
    /\ response[r].kind = "DELETE"
    /\ closed' = TRUE
    /\ Return(r)
    /\ outcome' = IF outcome = "none" THEN "finished" ELSE outcome
    /\ UNCHANGED <<worker, acks, token, scheduled, completed, taskInstanceId, exchangeClosed, received>>

(* The consumer has enough, or the query is over: DirectExchangeClient     *)
(* closes its clients.                                                     *)
CloseExchange ==
    /\ ~exchangeClosed
    /\ exchangeClosed' = TRUE
    /\ CloseClient(NoRead)
    /\ UNCHANGED <<worker, acks, token, scheduled, completed, taskInstanceId, outcome, received>>

-----------------------------------------------------------------------------
Drivers == AdmitPage \/ EnqueuePage \/ CheckTaskCompletion \/ NoMorePages

Serve(r) ==
    \/ ReceiveGet(r) \/ ReadPages(r) \/ ProcessTakenRead(r)
    \/ CompleteWithEmpty(r) \/ TimeOutRead(r) \/ ReceiveDelete(r)

Callback(r) ==
    \/ OnFailure(r) \/ AcceptResponse(r) \/ HandOverPages(r)
    \/ CompleteRequest(r) \/ DeleteSucceeded(r)

Next ==
    \/ Drivers
    \/ CancelTask \/ FailTask \/ FinishTask \/ CleanUpBuffer \/ RecreateTask
    \/ \E t \in acks : ReceiveAck(t)
    \/ \E r \in Read : Serve(r) \/ LoseRequest(r) \/ Deliver(r)
                        \/ FailRequest(r) \/ Callback(r)
    \/ ScheduleRequest \/ InitiateRequest \/ CloseExchange

Spec == Init /\ [][Next]_vars

(* Threads that have something to do get to do it, the consumer keeps      *)
(* asking for pages, and a response or a broken connection is noticed.     *)
(* Nothing says that a request is ever answered: but Backoff makes a       *)
(* failure permanent if the client fails on and on without any success.    *)
BackoffGivesUp ==
    []<><<\E r \in Read : OnFailure(r)>>_vars =>
        \/ []<><<\E r \in Read : AcceptResponse(r) \/ DeleteSucceeded(r)>>_vars
        \/ []<>(outcome = "failed")

Fairness ==
    /\ WF_vars(Drivers) /\ WF_vars(CleanUpBuffer)
    /\ WF_vars(ScheduleRequest) /\ WF_vars(InitiateRequest)
    /\ \A r \in Read :
          /\ WF_vars(Serve(r)) /\ WF_vars(Deliver(r)) /\ WF_vars(Callback(r))
          /\ WF_vars(sstage[r] = "idle" /\ FailRequest(r))
    /\ BackoffGivesUp

FairSpec == Spec /\ Fairness

-----------------------------------------------------------------------------
Request == [kind : {"none", "GET", "DELETE"}, token : Nat, taskFailed : BOOLEAN]
ResultType == [token : Nat, nextToken : Nat, bufferComplete : BOOLEAN, pages : Seq(Page)]
ResponseType == [kind : {"none", "GET", "DELETE"}, instance : Instance \cup {NoInstance}, error : BOOLEAN,
                 taskFailed : BOOLEAN, result : ResultType]

(* The type of the state.                                                  *)
TypeOK ==
    /\ instance \in Instance
    /\ taskState \in {"RUNNING", "FINISHED", "CANCELED", "FAILED"}
    /\ bufferState \in {"NO_MORE_BUFFERS", "FLUSHING", "FINISHED", "ABORTED"}
    /\ driver \in {"running", "admitted", "finishing", "done"}
    /\ produced \in 0 .. Len(Output[instance])
    /\ driver = "admitted" => produced < Len(Output[instance])
    /\ buf \in Buffer(buf.bufferedBytes)
    /\ pagesAdded \in [Instance -> Nat]
    /\ canceled \in SUBSET Instance
    /\ request \in [Read -> Request]
    /\ sstage \in [Read -> ServerStage]
    /\ response \in [Read -> ResponseType]
    /\ acks \in SUBSET Nat
    /\ closed \in BOOLEAN
    /\ future \in Read \cup {NoRead}
    /\ token \in Nat
    /\ scheduled \in BOOLEAN
    /\ completed \in BOOLEAN
    /\ taskInstanceId \in Instance \cup {NoInstance}
    /\ cstage \in [Read -> ClientStage]
    /\ exchangeClosed \in BOOLEAN
    /\ outcome \in {"none", "finished", "failed"}
    /\ received \in Seq(Page)

(* Every page is handed over exactly once and in order: what the exchange  *)
(* received is a prefix of the output of one task instance, whatever was   *)
(* lost, late, retried or thrown out on the way (the token checks of       *)
(* onSuccess, processRead and acknowledgePages).                           *)
ReceivedInOrder ==
    received # << >> =>
        /\ taskInstanceId # NoInstance
        /\ Len(received) <= Len(Output[taskInstanceId])
        /\ \A i \in 1 .. Len(received) : received[i] = Output[taskInstanceId][i]

(* A client that finishes, and was not closed by its consumer, has got the *)
(* whole output, unless the task was canceled: neither a failed task nor a *)
(* task that the worker forgot looks like one that is complete             *)
(* ("closed buffers signal to upstream tasks that everything finished      *)
(* cleanly", SqlTask).                                                     *)
FinishedIsComplete ==
    outcome = "finished" /\ ~exchangeClosed =>
        \/ taskInstanceId \in canceled
        \/ received = Output[taskInstanceId]

(* The worker drops only pages that the client has taken: the sequence id  *)
(* of the buffer is never ahead of the token of the client that reads this *)
(* instance.                                                               *)
DroppedPagesWereTaken ==
    ~buf.destroyed /\ taskInstanceId \in {NoInstance, instance} =>
        buf.currentSequenceId <= token

(* The checkArgument of acknowledgePages never fails: as long as the       *)
(* client reads this instance, every GET and every acknowledgement that is *)
(* on its way asks for a sequence id inside the queue.                     *)
AcknowledgementsValid ==
    taskInstanceId \in {NoInstance, instance} =>
        /\ \A r \in Read : request[r].kind = "GET" /\ sstage[r] = "sent"
                            => ~InvalidAcknowledge(buf, request[r].token)
        /\ \A t \in acks : ~InvalidAcknowledge(buf, t)

(* The verify of processRead ("there is a bug somewhere") never fails, not *)
(* even for a read that waited while the buffer moved on, for a client of  *)
(* another instance, or after the buffer was destroyed.                    *)
ReadsValid ==
    \A r \in Read : sstage[r] \in {"acked", "pending", "taken"}
                    => ~InvalidRead(buf, request[r].token)

(* bufferedBytes is the size of the pages in the buffer, and the number of *)
(* buffered pages that getInfo computes without the lock is their number.  *)
BufferAccounted ==
    /\ buf.bufferedBytes = Bytes(buf.pages)
    /\ ~buf.destroyed => pagesAdded[instance] - buf.currentSequenceId = Len(buf.pages)

(* A client that finished has destroyed its buffer: no page of the task    *)
(* that it read stays on the worker.                                       *)
FinishedReleasesPages ==
    outcome = "finished" /\ taskInstanceId = instance => buf.destroyed /\ buf.pages = << >>

(* Pages and bytes of the buffer are accounted for, to the end: what is    *)
(* counted is what is there, and nothing is left when the client finished. *)
PagesAccounted == BufferAccounted /\ FinishedReleasesPages

(* The consumer is never left waiting: whatever is lost, and whatever      *)
(* becomes of the task, the client finishes or fails, or is closed.  A     *)
(* failed task does not answer the read that waits for its pages; the      *)
(* client learns of it after the wait time, from its next request.         *)
ClientCompletes == <>(outcome # "none" \/ exchangeClosed)

(* addPages of the exchange is never called for a client that is marked as *)
(* completed: its checkState says so.                                      *)
NoPagesAfterCompletion ==
    \A r \in Read : cstage[r] = "accepted" => outcome = "none"

-----------------------------------------------------------------------------
(* The inductive invariant behind the safety properties.                   *)

(* The buffer holds the pages of the output from its sequence id to the    *)
(* last one that was added.                                                *)
BufferInv ==
    /\ buf.destroyed => buf.pages = << >> /\ buf.noMorePages
    /\ ~buf.destroyed => pagesAdded[instance] = buf.currentSequenceId + Len(buf.pages)
    /\ \A i \in 1 .. Len(buf.pages) :
          buf.pages[i] = Output[instance][buf.currentSequenceId + i]
    /\ buf.currentSequenceId <= pagesAdded[instance]
    /\ pagesAdded[instance] <= produced
    /\ driver = "admitted" \/ bufferState = "NO_MORE_BUFFERS"
          => buf.noMorePages \/ pagesAdded[instance] = produced
    /\ \A k \in Instance : /\ pagesAdded[k] <= Len(Output[k])
                           /\ k > instance => pagesAdded[k] = 0

(* No request, acknowledgement or buffer is ahead of the token; a read was *)
(* acknowledged before it waits; a request that is over leaves no trace.   *)
RequestOK(r) ==
    /\ request[r].token <= token
    /\ sstage[r] \in {"acked", "pending", "taken"}
          => buf.destroyed \/ request[r].token <= buf.currentSequenceId
    /\ buf.pendingRead = r => sstage[r] = "pending"
    /\ sstage[r] \in {"idle", "respond"} => request[r] = NoRequest
    /\ sstage[r] = "respond" => cstage[r] = "waiting"
    /\ response[r].kind # "none" =>
          \/ sstage[r] = "respond"
          \/ cstage[r] \in {"delivered", "accepted", "added", "rejected"}
    /\ cstage[r] = "delivered" => ~response[r].error

RequestInv ==
    /\ buf.currentSequenceId <= token
    /\ \A t \in acks : t <= token
    /\ \A r \in Read : RequestOK(r)

(* At most one GET can still hand over pages.                              *)
GetActive(r) ==
    /\ cstage[r] \in {"waiting", "delivered", "accepted", "added"}
    /\ request[r].kind = "GET" \/ response[r].kind = "GET"

OneGet ==
    /\ ~closed => \A r \in Read : cstage[r] # "idle" => future = r
    /\ \A r, s \in Read : GetActive(r) /\ GetActive(s) => r = s
    /\ \A r \in Read : cstage[r] \in {"accepted", "added"} => response[r].kind = "GET"

(* The pages in a response are those of the output from its token on.      *)
ResponseInv ==
    \A r \in Read :
        LET k == response[r].instance
            result == response[r].result IN
        response[r].kind = "GET" /\ ~response[r].error /\ cstage[r] \in {"waiting", "delivered"} =>
            /\ k \in 1 .. instance
            /\ result.nextToken = result.token + Len(result.pages)
            /\ result.pages # << >> => result.nextToken <= pagesAdded[k]
            /\ \A i \in 1 .. Len(result.pages) : result.pages[i] = Output[k][result.token + i]

(* What was received, and what is about to be, is the output up to the     *)
(* token.                                                                  *)
ReceivedInv ==
    /\ taskInstanceId \in 0 .. instance
    /\ taskInstanceId = NoInstance => token = 0
    /\ taskInstanceId # NoInstance => token <= pagesAdded[taskInstanceId]
    /\ Len(received) <= token
    /\ \A i \in 1 .. Len(received) : received[i] = Output[taskInstanceId][i]
    /\ outcome = "none" =>
          /\ (\A r \in Read : cstage[r] # "accepted") => Len(received) = token
          /\ \A r \in Read : cstage[r] = "accepted" =>
                LET pages == response[r].result.pages IN
                /\ Len(received) + Len(pages) = token
                /\ \A i \in 1 .. Len(pages) : pages[i] = Output[taskInstanceId][Len(received) + i]

(* All of it: the transport moves the output through buffer, responses and *)
(* client without losing its place.                                        *)
TransportInv == BufferInv /\ RequestInv /\ OneGet /\ ResponseInv /\ ReceivedInv
=============================================================================
