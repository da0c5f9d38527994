------------------------- MODULE PageTransportTypes -------------------------
(***************************************************************************)
(* Proofs about PageTransport, 1: the state always has its type.           *)
(***************************************************************************)
EXTENDS PageTransport, ClientBufferProofs, TLAPS

(* The pages of a result are the first ones of the buffer, and nextToken   *)
(* is past the last of them.                                               *)
LEMMA ProcessReadFacts ==
    ASSUME NEW b, IsBuffer(b), NEW s \in Nat
    PROVE  LET result == ProcessRead(b, s, MaxResponseSize) IN
           /\ result \in ResultType
           /\ result.nextToken = result.token + Len(result.pages)
           /\ ~InvalidRead(b, s) /\ result.pages # << >> =>
                /\ result.token = b.currentSequenceId
                /\ Len(result.pages) <= Len(b.pages)
                /\ \A i \in 1 .. Len(result.pages) : result.pages[i] = b.pages[i]
<1>1. /\ b.pages \in Seq(Page) /\ Len(b.pages) \in Nat
      /\ b.currentSequenceId \in Nat
    BY DEF IsBuffer, Buffer
<1>2. \A t \in Nat, c \in BOOLEAN :
          /\ EmptyResults(t, c) \in ResultType
          /\ EmptyResults(t, c).nextToken = EmptyResults(t, c).token + Len(EmptyResults(t, c).pages)
          /\ EmptyResults(t, c).pages = << >>
    BY DEF EmptyResults, Result, ResultType
<1>3. CASE s < b.currentSequenceId BY ZenonT(30), <1>2, <1>3 DEF ProcessRead
<1>4. CASE b.pages = << >> /\ b.noMorePages /\ ~(s < b.currentSequenceId)
    BY ZenonT(30), <1>1, <1>2, <1>4 DEF ProcessRead
<1>5. CASE ~(s < b.currentSequenceId) /\ ~(b.pages = << >> /\ b.noMorePages)
    <2> DEFINE n == ReadLength(b.pages, MaxResponseSize)
               ps == SubSeq(b.pages, 1, n)
    <2>1. n \in 0 .. Len(b.pages) BY <1>1, ReadLengthInRange, MaxResponseSizeAssumption
    <2>2. ProcessRead(b, s, MaxResponseSize) =
            [token |-> s, nextToken |-> s + n, bufferComplete |-> FALSE, pages |-> ps]
        BY ZenonT(30), <1>5 DEF ProcessRead, Result
    <2> HIDE DEF n
    <2>3. /\ ps \in Seq(Page) /\ Len(ps) = n
          /\ \A i \in 1 .. n : ps[i] = b.pages[i]
        <3>1. \A i \in 1 .. n : b.pages[i] \in Page BY <1>1, <2>1
        <3>2. /\ ps \in Seq(Page)
              /\ Len(ps) = IF 1 <= n THEN n - 1 + 1 ELSE 0
              /\ \A i \in 1 .. n - 1 + 1 : ps[i] = b.pages[1 + i - 1]
            BY <2>1, <3>1
        <3> QED BY <1>1, <2>1, <3>2
    <2>4. ~InvalidRead(b, s) => s = b.currentSequenceId BY <1>1, <1>5 DEF InvalidRead
    <2> HIDE DEF ps
    <2> DEFINE result == ProcessRead(b, s, MaxResponseSize)
    <2>5. /\ result.token = s /\ result.nextToken = s + n /\ result.pages = ps
          /\ n \in Nat /\ n <= Len(b.pages)
        BY <1>1, <2>1, <2>2
    <2>6. result \in ResultType BY <2>2, <2>3, <2>5 DEF ResultType
    <2> HIDE DEF result
    <2>7. Len(result.pages) = n /\ \A i \in 1 .. n : result.pages[i] = b.pages[i]
        BY <2>3, <2>5
    <2>8. /\ result.nextToken = result.token + Len(result.pages)
          /\ Len(result.pages) <= Len(b.pages)
          /\ \A i \in 1 .. Len(result.pages) : result.pages[i] = b.pages[i]
        BY <2>5, <2>7
    <2>9. ~InvalidRead(b, s) => result.token = b.currentSequenceId BY <2>4, <2>5
    <2> QED BY <2>6, <2>8, <2>9 DEF result
<1> QED BY <1>3, <1>4, <1>5

-----------------------------------------------------------------------------
(* The type of the state.                                                  *)

LEMMA EmptyResultsType ==
    \A t \in Nat, c \in BOOLEAN : EmptyResults(t, c) \in ResultType
    BY DEF EmptyResults, Result, ResultType

LEMMA NoneType == NoRequest \in Request /\ NoResponse \in ResponseType
    BY ZenonT(30), EmptyResultsType DEF NoRequest, NoResponse, Request, Response, ResponseType, NoInstance

LEMMA RespondType ==
    ASSUME TypeOK, NEW r \in Read, NEW e \in BOOLEAN, NEW f \in BOOLEAN,
           NEW result \in ResultType, Respond(r, e, f, result)
    PROVE  request' \in [Read -> Request] /\ response' \in [Read -> ResponseType]
<1>1. request[r].kind \in {"none", "GET", "DELETE"} BY DEF TypeOK, Request
<1>2. Response(request[r].kind, instance, e, f, result) \in ResponseType
    BY <1>1 DEF TypeOK, Response, ResponseType
<1> QED BY <1>2, NoneType DEF TypeOK, Respond

LEMMA RespondReadType ==
    ASSUME TypeOK, NEW r \in Read, RespondRead(r)
    PROVE  request' \in [Read -> Request] /\ response' \in [Read -> ResponseType]
<1>1. IsBuffer(buf) /\ request[r].token \in Nat /\ request[r].taskFailed \in BOOLEAN
    BY DEF TypeOK, IsBuffer, Request
<1>2. InvalidRead(buf, request[r].token) \in BOOLEAN BY DEF InvalidRead
<1>3. ProcessRead(buf, request[r].token, MaxResponseSize) \in ResultType
    BY <1>1, ProcessReadFacts
<1> QED BY <1>1, <1>2, <1>3, RespondType DEF RespondRead

LEMMA RespondEmptyType ==
    ASSUME TypeOK, NEW r \in Read, RespondEmpty(r)
    PROVE  request' \in [Read -> Request] /\ response' \in [Read -> ResponseType]
<1>1. request[r].token \in Nat /\ request[r].taskFailed \in BOOLEAN BY DEF TypeOK, Request
<1> QED BY ZenonT(30), <1>1, EmptyResultsType, RespondType DEF RespondEmpty

LEMMA AnsweredType == \A r \in Read : Answered(r) \in ServerStage
    BY DEF Answered, ServerStage

LEMMA TakePendingReadType ==
    ASSUME TypeOK, NEW stage \in ServerStage, TakePendingRead(stage)
    PROVE  sstage' \in [Read -> ServerStage]
    BY DEF TypeOK, TakePendingRead

LEMMA SendType ==
    ASSUME TypeOK, NEW r \in Read, NEW kind \in {"GET", "DELETE"}, Send(r, kind)
    PROVE  request' \in [Read -> Request] /\ future' \in Read \cup {NoRead}
    BY DEF TypeOK, Send, Request

LEMMA CloseClientType ==
    ASSUME TypeOK, NEW returning \in Read \cup {NoRead}, CloseClient(returning)
    PROVE  /\ closed' \in BOOLEAN
           /\ future' \in Read \cup {NoRead}
           /\ request' \in [Read -> Request]
           /\ sstage' \in [Read -> ServerStage]
           /\ response' \in [Read -> ResponseType]
           /\ cstage' \in [Read -> ClientStage]
<1>1. response' \in [Read -> ResponseType]
    BY NoneType DEF TypeOK, CloseClient
<1>2. CASE closed
    BY <1>1, <1>2 DEF TypeOK, CloseClient, ServerStage, ClientStage
<1>3. CASE ~closed
    <2>1. \E d \in Read : Send(d, "DELETE") BY <1>3 DEF CloseClient
    <2>2. request' \in [Read -> Request] /\ future' \in Read \cup {NoRead} BY <2>1, SendType
    <2> QED BY <1>1, <1>3, <2>2 DEF TypeOK, CloseClient, ServerStage, ClientStage
<1> QED BY <1>2, <1>3

LEMMA ReturnType ==
    ASSUME TypeOK, NEW r \in Read, Return(r)
    PROVE  /\ future' \in Read \cup {NoRead}
           /\ request' \in [Read -> Request]
           /\ sstage' \in [Read -> ServerStage]
           /\ response' \in [Read -> ResponseType]
           /\ cstage' \in [Read -> ClientStage]
    BY NoneType DEF TypeOK, Return, ClientStage

LEMMA HandleFailureType ==
    ASSUME TypeOK, NEW r \in Read, NEW fatal \in BOOLEAN, HandleFailure(r, fatal),
           UNCHANGED taskInstanceId
    PROVE  TypeOK'
<1>1. CASE fatal /\ outcome = "none"
    <2>1. outcome' = "failed" /\ CloseClient(r) BY <1>1 DEF HandleFailure
    <2>2. UNCHANGED <<worker, acks, token, scheduled, completed, exchangeClosed, received>>
        BY DEF HandleFailure
    <2> QED BY <2>1, <2>2, CloseClientType DEF TypeOK, worker
<1>2. CASE ~(fatal /\ outcome = "none")
    <2>1. UNCHANGED <<outcome, closed>> /\ Return(r) BY <1>2 DEF HandleFailure
    <2>2. UNCHANGED <<worker, acks, token, scheduled, completed, exchangeClosed, received>>
        BY DEF HandleFailure
    <2> QED BY <2>1, <2>2, ReturnType DEF TypeOK, worker
<1> QED BY <1>1, <1>2

LEMMA InitType == Init => TypeOK
<1> SUFFICES ASSUME Init PROVE TypeOK OBVIOUS
<1>1. buf \in Buffer(buf.bufferedBytes) BY NewBufferType DEF Init, IsBuffer
<1>2. 1 \in Instance /\ Len(Output[1]) \in Nat
    <2>1. 1 \in Instance BY MaxInstanceAssumption DEF Instance
    <2> QED BY <2>1, OutputAssumption
<1>3. << >> \in Seq(Page) OBVIOUS
<1>4. /\ request \in [Read -> Request] /\ response \in [Read -> ResponseType]
      /\ sstage \in [Read -> ServerStage] /\ cstage \in [Read -> ClientStage]
    BY NoneType DEF Init, ServerStage, ClientStage
<1>5. /\ instance \in Instance
      /\ produced \in 0 .. Len(Output[instance])
      /\ pagesAdded \in [Instance -> Nat]
    BY <1>2 DEF Init
<1> QED BY ZenonT(30), <1>1, <1>3, <1>4, <1>5 DEF Init, TypeOK, NoInstance

(* The steps of the worker's own threads.                                  *)
LEMMA WorkerType ==
    ASSUME TypeOK,
           Drivers \/ CancelTask \/ FailTask \/ FinishTask \/ CleanUpBuffer \/ RecreateTask
    PROVE  TypeOK'
<1> USE DEF wire, client, exchange
<1>0. /\ IsBuffer(buf)
      /\ instance \in Instance
      /\ Output[instance] \in Seq(Page)
      /\ Len(Output[instance]) \in Nat
      /\ produced \in Nat
    BY OutputAssumption DEF TypeOK, IsBuffer
<1>1. CASE AdmitPage
    BY <1>0, <1>1 DEF AdmitPage, TypeOK
<1>2. CASE EnqueuePage
    <2>1. produced < Len(Output[instance]) BY <1>2 DEF EnqueuePage, TypeOK
    <2>2. Output[instance][produced + 1] \in Page BY <1>0, <2>1
    <2>3. buf' \in Buffer(buf'.bufferedBytes)
        BY <1>0, <1>2, <2>2, EnqueueFacts DEF EnqueuePage, IsBuffer
    <2>4. pagesAdded' \in [Instance -> Nat] BY <1>2 DEF EnqueuePage, TypeOK
    <2>5. sstage' \in [Read -> ServerStage]
        BY <1>2, TakePendingReadType DEF EnqueuePage, ServerStage
    <2> QED BY <1>0, <1>2, <2>1, <2>3, <2>4, <2>5 DEF EnqueuePage, TypeOK
<1>3. CASE CheckTaskCompletion
    BY <1>0, <1>3 DEF CheckTaskCompletion, TypeOK
<1>4. CASE NoMorePages
    <2>1. buf' \in Buffer(buf'.bufferedBytes)
        BY <1>0, <1>4, NoMoreFacts DEF NoMorePages, IsBuffer
    <2>2. sstage' \in [Read -> ServerStage]
        BY <1>4, TakePendingReadType DEF NoMorePages, ServerStage
    <2> QED BY <1>4, <2>1, <2>2 DEF NoMorePages, TypeOK
<1>5. CASE CancelTask BY <1>5 DEF CancelTask, TypeOK
<1>6. CASE FailTask BY <1>6 DEF FailTask, TypeOK
<1>7. CASE FinishTask BY <1>7 DEF FinishTask, TypeOK
<1>8. CASE CleanUpBuffer
    <2>1. buf' \in Buffer(buf'.bufferedBytes)
        BY <1>0, <1>8, DestroyFacts DEF CleanUpBuffer, IsBuffer
    <2>2. sstage' \in [Read -> ServerStage]
        BY <1>8, TakePendingReadType DEF CleanUpBuffer, ServerStage
    <2> QED BY <1>8, <2>1, <2>2 DEF CleanUpBuffer, TypeOK
<1>9. CASE RecreateTask
    <2>1. buf' \in Buffer(buf'.bufferedBytes)
        BY <1>9, NewBufferType DEF RecreateTask, IsBuffer
    <2>2. instance' \in Instance /\ Len(Output[instance']) \in Nat
        <3>1. instance' \in Instance
            BY <1>0, <1>9, MaxInstanceAssumption DEF RecreateTask, MayRecreate, Instance
        <3> QED BY <3>1, OutputAssumption
    <2>3. request' \in [Read -> Request] BY <1>9, NoneType DEF RecreateTask, TypeOK
    <2>4. sstage' \in [Read -> ServerStage] BY <1>9 DEF RecreateTask, TypeOK, ServerStage
    <2> QED BY <1>9, <2>1, <2>2, <2>3, <2>4 DEF RecreateTask, TypeOK
<1> QED BY <1>1, <1>2, <1>3, <1>4, <1>5, <1>6, <1>7, <1>8, <1>9 DEF Drivers

(* The steps that serve a request.                                         *)
LEMMA ServeType ==
    ASSUME TypeOK, NEW r \in Read, Serve(r)
    PROVE  TypeOK'
<1> USE DEF client, exchange
<1>0. /\ IsBuffer(buf)
      /\ request[r].token \in Nat
      /\ buf.pendingRead \in Read \cup {NoRead}
    BY DEF TypeOK, IsBuffer, Buffer, Request
<1>1. CASE ReceiveGet(r)
    <2>1. CASE InvalidAcknowledge(buf, request[r].token)
        <3>1. request' \in [Read -> Request] /\ response' \in [Read -> ResponseType]
            BY ZenonT(30), <1>0, <1>1, <2>1, EmptyResultsType, RespondType DEF ReceiveGet
        <3>2. sstage' \in [Read -> ServerStage] BY <1>1, <2>1, AnsweredType DEF ReceiveGet, TypeOK
        <3> QED BY <1>1, <2>1, <3>1, <3>2 DEF ReceiveGet, TypeOK
    <2>2. CASE ~InvalidAcknowledge(buf, request[r].token)
        <3>1. buf' \in Buffer(buf'.bufferedBytes)
            BY <1>0, <1>1, <2>2, AcknowledgeFacts DEF ReceiveGet, IsBuffer
        <3>2. request' \in [Read -> Request]
            <4> DEFINE failed == taskState = "FAILED"
            <4>1. failed \in BOOLEAN OBVIOUS
            <4>2. request' = [request EXCEPT ![r].taskFailed = failed] BY <1>1, <2>2 DEF ReceiveGet
            <4> HIDE DEF failed
            <4> QED BY ZenonT(30), <4>1, <4>2 DEF TypeOK, Request
        <3>3. sstage' \in [Read -> ServerStage] BY <1>1, <2>2 DEF ReceiveGet, TypeOK, ServerStage
        <3> QED BY <1>1, <2>2, <3>1, <3>2, <3>3 DEF ReceiveGet, TypeOK
    <2> QED BY <2>1, <2>2
<1>2. CASE ReadPages(r)
    <2>1. buf' \in Buffer(buf'.bufferedBytes)
        BY <1>0, <1>2, GetPagesFacts DEF ReadPages, IsBuffer
    <2>2. request' \in [Read -> Request] /\ response' \in [Read -> ResponseType]
        <3>1. CASE CanReadNow(buf, request[r].token)
            BY <1>2, <3>1, RespondReadType DEF ReadPages
        <3>2. CASE ~CanReadNow(buf, request[r].token)
            BY <1>2, <3>2 DEF ReadPages, TypeOK
        <3> QED BY <3>1, <3>2
    <2>3. sstage' \in [Read -> ServerStage]
        <3>1. \A x \in Read : sstage[x] \in ServerStage BY DEF TypeOK
        <3>2. {"pending", "evicted"} \subseteq ServerStage BY DEF ServerStage
        <3> QED BY ZenonT(30), <1>2, <3>1, <3>2, AnsweredType DEF ReadPages
    <2> QED BY <1>2, <2>1, <2>2, <2>3 DEF ReadPages, TypeOK
<1>3. CASE ProcessTakenRead(r)
    <2>1. request' \in [Read -> Request] /\ response' \in [Read -> ResponseType]
        BY <1>3, RespondReadType DEF ProcessTakenRead
    <2>2. sstage' \in [Read -> ServerStage] BY <1>3, AnsweredType DEF ProcessTakenRead, TypeOK
    <2> QED BY <1>3, <2>1, <2>2 DEF ProcessTakenRead, TypeOK, worker
<1>4. CASE CompleteWithEmpty(r)
    <2>1. request' \in [Read -> Request] /\ response' \in [Read -> ResponseType]
        BY <1>4, RespondEmptyType DEF CompleteWithEmpty
    <2>2. sstage' \in [Read -> ServerStage] BY <1>4, AnsweredType DEF CompleteWithEmpty, TypeOK
    <2> QED BY <1>4, <2>1, <2>2 DEF CompleteWithEmpty, TypeOK, worker
<1>5. CASE TimeOutRead(r)
    <2>1. request' \in [Read -> Request] /\ response' \in [Read -> ResponseType]
        BY <1>5, RespondEmptyType DEF TimeOutRead
    <2>2. sstage' \in [Read -> ServerStage] BY <1>5, AnsweredType DEF TimeOutRead, TypeOK
    <2>3. buf' \in Buffer(buf'.bufferedBytes) BY <1>0, <1>5 DEF TimeOutRead, IsBuffer, Buffer
    <2> QED BY <1>5, <2>1, <2>2, <2>3 DEF TimeOutRead, TypeOK
<1>6. CASE ReceiveDelete(r)
    <2>1. request' \in [Read -> Request] /\ response' \in [Read -> ResponseType]
        BY ZenonT(30), <1>6, EmptyResultsType, RespondType DEF ReceiveDelete
    <2>2. sstage' \in [Read -> ServerStage]
        BY <1>6, AnsweredType DEF ReceiveDelete, TypeOK, ServerStage
    <2>3. buf' \in Buffer(buf'.bufferedBytes)
        BY <1>0, <1>6, DestroyFacts DEF ReceiveDelete, IsBuffer
    <2> QED BY <1>6, <2>1, <2>2, <2>3 DEF ReceiveDelete, TypeOK
<1> QED BY <1>1, <1>2, <1>3, <1>4, <1>5, <1>6 DEF Serve

(* The network, and the threads of the client.                             *)
LEMMA NetworkType ==
    ASSUME TypeOK, NEW r \in Read, LoseRequest(r) \/ Deliver(r) \/ FailRequest(r)
    PROVE  TypeOK'
<1> USE DEF worker, exchange, client
<1>1. CASE LoseRequest(r)
    BY <1>1, NoneType DEF LoseRequest, TypeOK, ServerStage
<1>2. CASE Deliver(r)
    BY <1>2 DEF Deliver, TypeOK, ServerStage, ClientStage
<1>3. CASE FailRequest(r)
    BY <1>3, NoneType DEF FailRequest, TypeOK, ServerStage, ClientStage
<1> QED BY <1>1, <1>2, <1>3

LEMMA ReceiveAckType ==
    ASSUME TypeOK, NEW t \in acks, ReceiveAck(t)
    PROVE  TypeOK'
<1>1. IsBuffer(buf) /\ t \in Nat BY DEF TypeOK, IsBuffer
<1>2. buf' \in Buffer(buf'.bufferedBytes)
    BY <1>1, AcknowledgeFacts DEF ReceiveAck, IsBuffer
<1> QED BY <1>2 DEF ReceiveAck, TypeOK, client, exchange

LEMMA CallbackType ==
    ASSUME TypeOK, NEW r \in Read, Callback(r)
    PROVE  TypeOK'
<1> USE DEF worker, exchange
<1>1. CASE OnFailure(r) BY ZenonT(30), <1>1, HandleFailureType DEF OnFailure
<1>2. CASE AcceptResponse(r)
    <2> DEFINE result == response[r].result
    <2>1. CASE response[r].taskFailed \/ InstanceMismatch(r)
        BY ZenonT(30), <1>2, <2>1, HandleFailureType DEF AcceptResponse
    <2>2. CASE ~(response[r].taskFailed \/ InstanceMismatch(r))
        <3>1. /\ response[r] \in ResponseType
              /\ result.nextToken \in Nat /\ response[r].instance \in Instance \cup {NoInstance}
            BY ZenonT(30) DEF TypeOK, ResponseType, ResultType
        <3>2. << >> \in Seq(Page) OBVIOUS
        <3>3. [response EXCEPT ![r].result.pages = << >>] \in [Read -> ResponseType]
            <4> DEFINE empty == [result EXCEPT !.pages = << >>]
            <4>1. result \in ResultType BY <3>1 DEF ResponseType
            <4>2. empty \in ResultType BY ZenonT(30), <3>2, <4>1 DEF ResultType
            <4> HIDE DEF empty
            <4>3. [response[r] EXCEPT !.result = empty] \in ResponseType
                BY <3>1, <4>2 DEF ResponseType
            <4>4. [response EXCEPT ![r].result = empty] \in [Read -> ResponseType]
                BY <4>3 DEF TypeOK
            <4> QED BY <4>4 DEF empty
        <3>4. response' \in [Read -> ResponseType] BY ZenonT(30), <1>2, <2>2, <3>3 DEF AcceptResponse, TypeOK
        <3>5. token' \in Nat /\ acks' \in SUBSET Nat
            BY <1>2, <2>2, <3>1 DEF AcceptResponse, TypeOK
        <3>6. cstage' \in [Read -> ClientStage]
            BY <1>2, <2>2 DEF AcceptResponse, TypeOK, ClientStage
        <3> QED BY <1>2, <2>2, <3>1, <3>4, <3>5, <3>6 DEF AcceptResponse, TypeOK
    <2> QED BY <2>1, <2>2
<1>3. CASE HandOverPages(r)
    <2>1. response[r].result.pages \in Seq(Page) BY DEF TypeOK, ResponseType, ResultType
    <2>2. received' \in Seq(Page)
        <3>1. received \in Seq(Page) BY DEF TypeOK
        <3>2. received \o response[r].result.pages \in Seq(Page) BY <2>1, <3>1
        <3> QED BY ZenonT(30), <1>3, <3>1, <3>2 DEF HandOverPages
    <2>3. cstage' \in [Read -> ClientStage] /\ response' \in [Read -> ResponseType]
        BY ZenonT(30), <1>3, NoneType DEF HandOverPages, TypeOK, ClientStage
    <2> QED BY <1>3, <2>2, <2>3 DEF HandOverPages, TypeOK
<1>4. CASE CompleteRequest(r)
    <2>1. completed \in BOOLEAN /\ response[r].result.bufferComplete \in BOOLEAN
        BY DEF TypeOK, ResponseType, ResultType
    <2>2. completed' \in BOOLEAN BY <1>4, <2>1 DEF CompleteRequest
    <2> QED BY <1>4, <2>2, ReturnType DEF CompleteRequest, TypeOK
<1>5. CASE DeleteSucceeded(r)
    BY <1>5, ReturnType DEF DeleteSucceeded, TypeOK
<1> QED BY <1>1, <1>2, <1>3, <1>4, <1>5 DEF Callback

LEMMA ClientType ==
    ASSUME TypeOK, ScheduleRequest \/ InitiateRequest \/ CloseExchange
    PROVE  TypeOK'
<1> USE DEF worker, exchange
<1>1. CASE ScheduleRequest
    BY <1>1 DEF ScheduleRequest, TypeOK, wire
<1>2. CASE InitiateRequest
    <2>1. scheduled' \in BOOLEAN BY ZenonT(30), <1>2 DEF InitiateRequest
    <2>2. UNCHANGED <<worker, response, acks, closed, token, completed, taskInstanceId, exchange>>
        BY <1>2 DEF InitiateRequest
    <2>3. CASE closed \/ future # NoRead
        <3>1. UNCHANGED <<request, sstage, future, cstage>> BY <1>2, <2>3 DEF InitiateRequest
        <3> QED BY <2>1, <2>2, <3>1 DEF TypeOK
    <2>4. CASE ~(closed \/ future # NoRead)
        <3>1. PICK r \in Read : /\ Send(r, IF completed THEN "DELETE" ELSE "GET")
                                /\ sstage' = [sstage EXCEPT ![r] = "sent"]
                                /\ cstage' = [cstage EXCEPT ![r] = "waiting"]
            BY <1>2, <2>4 DEF InitiateRequest
        <3>2. request' \in [Read -> Request] /\ future' \in Read \cup {NoRead}
            BY <3>1, SendType
        <3>3. sstage' \in [Read -> ServerStage] /\ cstage' \in [Read -> ClientStage]
            BY <3>1 DEF TypeOK, ServerStage, ClientStage
        <3> QED BY <2>1, <2>2, <3>2, <3>3 DEF TypeOK
    <2> QED BY <2>3, <2>4
<1>3. CASE CloseExchange
    <2>1. CloseClient(NoRead) BY <1>3 DEF CloseExchange
    <2>2. exchangeClosed' \in BOOLEAN BY <1>3 DEF CloseExchange
    <2>3. UNCHANGED <<worker, acks, token, scheduled, completed, taskInstanceId, outcome, received>>
        BY <1>3 DEF CloseExchange
    <2> QED BY <2>1, <2>2, <2>3, CloseClientType DEF TypeOK
<1> QED BY <1>1, <1>2, <1>3

LEMMA NextType == TypeOK /\ [Next]_vars => TypeOK'
<1> SUFFICES ASSUME TypeOK, [Next]_vars PROVE TypeOK' OBVIOUS
<1>1. CASE Next
    <2>1. CASE \E t \in acks : ReceiveAck(t) BY <2>1, ReceiveAckType
    <2>2. CASE \E r \in Read : Serve(r) \/ LoseRequest(r) \/ Deliver(r)
                                \/ FailRequest(r) \/ Callback(r)
        BY <2>2, ServeType, NetworkType, CallbackType
    <2> QED BY <1>1, <2>1, <2>2, WorkerType, ClientType DEF Next
<1>2. CASE UNCHANGED vars
    BY <1>2 DEF TypeOK, vars, worker, wire, client, exchange
<1> QED BY <1>1, <1>2

(* The state always has its type.                                          *)
THEOREM TypeCorrect == Spec => []TypeOK
    BY InitType, NextType, PTL DEF Spec
=============================================================================
