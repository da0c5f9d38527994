------------------------ MODULE PageTransportProofs ------------------------
(***************************************************************************)
(* Proofs about PageTransport, 4: pages reach the consumer exactly once    *)
(* and in order, for every output, every bound on instances and every set  *)
(* of requests.                                                            *)
(***************************************************************************)
EXTENDS PageTransportResponses

-----------------------------------------------------------------------------
(* What the exchange received is the output up to the token.               *)

LEMMA ReceivedInit == Init => ReceivedInv
<1> SUFFICES ASSUME Init PROVE ReceivedInv OBVIOUS
<1>1. /\ taskInstanceId = 0 /\ instance = 1 /\ token = 0 /\ received = << >> /\ Len(received) = 0
      /\ \A r \in Read : cstage[r] # "accepted"
    BY DEF Init, NoInstance
<1> QED BY <1>1 DEF ReceivedInv, NoInstance

(* Steps that neither accept nor hand over pages.                          *)
LEMMA OtherKeepsReceivedInv ==
    ASSUME TypeOK, TypeOK', BufferInv, ReceivedInv, Next,
           UNCHANGED <<taskInstanceId, token, received>>,
           outcome' = outcome \/ outcome' # "none",
           outcome' = "none" => \A x \in Read : (cstage'[x] = "accepted") <=> (cstage[x] = "accepted"),
           \A x \in Read : cstage'[x] = "accepted" => response'[x] = response[x]
    PROVE  ReceivedInv'
<1>0. /\ instance \in Int /\ token \in Nat /\ instance \in Instance
      /\ \A k \in Instance : pagesAdded[k] \in Nat /\ pagesAdded'[k] \in Nat
    <2>1. instance \in Instance /\ token \in Nat BY DEF TypeOK
    <2>2. pagesAdded \in [Instance -> Nat] /\ pagesAdded' \in [Instance -> Nat] BY DEF TypeOK
    <2>3. instance \in Int BY <2>1 DEF Instance
    <2> QED BY <2>1, <2>2, <2>3
<1>1. /\ instance' \in Int /\ instance' >= instance
      /\ \A k \in Instance : pagesAdded'[k] >= pagesAdded[k]
    BY WorkerGrows
<1>2. taskInstanceId' \in 0 .. instance' BY <1>0, <1>1 DEF ReceivedInv
<1>3. taskInstanceId' # NoInstance => token' <= pagesAdded'[taskInstanceId']
    <2>1. taskInstanceId # NoInstance => taskInstanceId \in Instance
        BY <1>0, MaxInstanceAssumption DEF ReceivedInv, Instance, NoInstance
    <2> QED BY <1>0, <1>1, <2>1 DEF ReceivedInv
<1>4. ASSUME outcome' = "none"
      PROVE  /\ (\A r \in Read : cstage'[r] # "accepted") => Len(received') = token'
             /\ \A r \in Read : cstage'[r] = "accepted" =>
                   /\ Len(received') + Len(response'[r].result.pages) = token'
                   /\ \A i \in 1 .. Len(response'[r].result.pages) :
                         response'[r].result.pages[i] = Output[taskInstanceId'][Len(received') + i]
    <2>1. outcome = "none" /\ \A x \in Read : (cstage'[x] = "accepted") <=> (cstage[x] = "accepted")
        BY <1>4
    <2>2. (\A r \in Read : cstage'[r] # "accepted") => Len(received') = token'
        BY <2>1 DEF ReceivedInv
    <2>3. ASSUME NEW r \in Read, cstage'[r] = "accepted"
          PROVE  /\ Len(received') + Len(response'[r].result.pages) = token'
                 /\ \A i \in 1 .. Len(response'[r].result.pages) :
                       response'[r].result.pages[i] = Output[taskInstanceId'][Len(received') + i]
        <3>1. cstage[r] = "accepted" /\ response'[r] = response[r] BY <2>1, <2>3
        <3> QED BY <2>1, <3>1 DEF ReceivedInv
    <2> QED BY <2>2, <2>3
<1>5. /\ taskInstanceId' = NoInstance => token' = 0
      /\ Len(received') <= token'
      /\ \A i \in 1 .. Len(received') : received'[i] = Output[taskInstanceId'][i]
    BY DEF ReceivedInv
<1> QED BY <1>2, <1>3, <1>4, <1>5 DEF ReceivedInv

LEMMA AcceptKeepsReceivedInv ==
    ASSUME TypeOK, TypeOK', RequestInv, OneGet, ResponseInv, ReceivedInv,
           NEW r \in Read, AcceptResponse(r), ~(response[r].taskFailed \/ InstanceMismatch(r))
    PROVE  ReceivedInv'
<1> DEFINE k == response[r].instance
           result == response[r].result
<1>0. /\ instance \in Int /\ token \in Nat /\ instance \in Instance /\ token' \in Nat
      /\ response \in [Read -> ResponseType] /\ cstage \in [Read -> ClientStage]
      /\ received \in Seq(Page) /\ Len(received) \in Nat
      /\ response[r] \in ResponseType /\ result \in ResultType
    <2>1. instance \in Instance /\ token \in Nat BY DEF TypeOK
    <2>2. token' \in Nat BY DEF TypeOK
    <2>3. response \in [Read -> ResponseType] /\ cstage \in [Read -> ClientStage] BY DEF TypeOK
    <2>4. received \in Seq(Page) BY DEF TypeOK
    <2>5. Len(received) \in Nat BY <2>4
    <2>6. instance \in Int BY <2>1 DEF Instance
    <2>7. response[r] \in ResponseType BY <2>3
    <2>8. result \in ResultType BY <2>7 DEF ResponseType
    <2> QED BY <2>1, <2>2, <2>3, <2>4, <2>5, <2>6, <2>7, <2>8
<1>1. /\ k \in 1 .. instance /\ taskInstanceId \in {NoInstance, k} /\ taskInstanceId' = k
      /\ result.token \in Nat /\ result.nextToken \in Nat /\ Len(result.pages) \in Nat
      /\ result.nextToken = result.token + Len(result.pages)
      /\ result.pages # << >> => result.nextToken <= pagesAdded[k]
      /\ \A i \in 1 .. Len(result.pages) : result.pages[i] = Output[k][result.token + i]
      /\ cstage' = [cstage EXCEPT ![r] = "accepted"]
      /\ UNCHANGED <<instance, pagesAdded, outcome, received>>
    BY AcceptFacts DEF worker, exchange
<1>2. \/ result.token = token /\ token' = result.nextToken /\ response' = response
      \/ token' = token /\ response' = [response EXCEPT ![r].result.pages = << >>]
    BY AcceptFacts
<1>3. k \in Instance /\ k # NoInstance /\ pagesAdded[k] \in Nat
    BY <1>0, <1>1, MaxInstanceAssumption DEF Instance, NoInstance, TypeOK
<1>4. \A x \in Read : cstage[x] # "accepted"
    <2>1. GetActive(r) /\ cstage[r] = "delivered" BY DEF AcceptResponse, GetActive
    <2>2. \A x \in Read : cstage[x] = "accepted" => GetActive(x) BY DEF OneGet, GetActive
    <2> QED BY <2>1, <2>2 DEF OneGet
<1>5. \A x \in Read : cstage'[x] = "accepted" <=> x = r BY <1>0, <1>1, <1>4
<1>6. outcome = "none" => Len(received) = token BY <1>4 DEF ReceivedInv
<1>7. token <= pagesAdded[k]
    BY <1>0, <1>1, <1>3 DEF ReceivedInv, NoInstance
<1>8. received # << >> => taskInstanceId = k
    <2>1. received # << >> => Len(received) > 0 BY <1>0
    <2> QED BY <1>0, <1>1, <2>1 DEF ReceivedInv
<1>9. \A i \in 1 .. Len(received) : received[i] = Output[k][i]
    <2>1. CASE received = << >> BY <2>1
    <2>2. CASE received # << >> BY <1>8, <2>2 DEF ReceivedInv
    <2> QED BY <2>1, <2>2
<1>10. CASE result.token = token /\ token' = result.nextToken /\ response' = response
    <2>1. token' <= pagesAdded[k]
        <3>1. CASE result.pages # << >> BY <1>1, <1>10, <3>1
        <3>2. CASE result.pages = << >>
            <4>1. Len(result.pages) = 0 BY <3>2
            <4>2. token' = token BY <1>0, <1>1, <1>10, <4>1
            <4> QED BY <1>7, <4>2
        <3> QED BY <3>1, <3>2
    <2>2. Len(received) <= token' BY <1>0, <1>1, <1>10 DEF ReceivedInv
    <2>3. outcome = "none" => Len(received) + Len(result.pages) = token' BY <1>0, <1>1, <1>6, <1>10
    <2>4. outcome = "none" => \A i \in 1 .. Len(result.pages) :
              result.pages[i] = Output[k][Len(received) + i]
        BY ZenonT(30), <1>1, <1>6, <1>10
    <2>5. response'[r].result.pages = result.pages BY <1>10
    <2> HIDE DEF k, result
    <2>6. taskInstanceId' \in 0 .. instance' BY <1>0, <1>1
    <2>7. outcome' = "none" => \A x \in Read : cstage'[x] = "accepted" =>
              /\ Len(received') + Len(response'[x].result.pages) = token'
              /\ \A i \in 1 .. Len(response'[x].result.pages) :
                    response'[x].result.pages[i] = Output[taskInstanceId'][Len(received') + i]
        <3>1. SUFFICES ASSUME outcome' = "none", NEW x \in Read, cstage'[x] = "accepted"
                       PROVE  /\ Len(received') + Len(response'[x].result.pages) = token'
                              /\ \A i \in 1 .. Len(response'[x].result.pages) :
                                    response'[x].result.pages[i] = Output[taskInstanceId'][Len(received') + i]
            OBVIOUS
        <3>2. x = r /\ outcome = "none" /\ received' = received /\ taskInstanceId' = k
            BY <1>1, <1>5, <3>1
        <3> QED BY ZenonT(30), <2>3, <2>4, <2>5, <3>2
    <2> QED BY <1>1, <1>3, <1>5, <1>9, <2>1, <2>2, <2>6, <2>7 DEF ReceivedInv
<1>11. CASE token' = token /\ response' = [response EXCEPT ![r].result.pages = << >>]
    <2>1. response'[r].result.pages = << >> /\ Len(response'[r].result.pages) = 0
        BY <1>0, <1>11 DEF ResponseType, ResultType
    <2>2. Len(received) <= token' BY <1>11 DEF ReceivedInv
    <2>3. outcome = "none" => Len(received) + 0 = token' BY <1>0, <1>6, <1>11
    <2> HIDE DEF k, result
    <2> QED BY <1>0, <1>1, <1>3, <1>5, <1>7, <1>9, <1>11, <2>1, <2>2, <2>3 DEF ReceivedInv
<1> QED BY <1>2, <1>10, <1>11

LEMMA HandOverKeepsReceivedInv ==
    ASSUME TypeOK, TypeOK', BufferInv, OneGet, ReceivedInv, NEW r \in Read, HandOverPages(r)
    PROVE  ReceivedInv'
<1>0. Next /\ cstage \in [Read -> ClientStage] /\ response \in [Read -> ResponseType]
    BY DEF Next, Callback, TypeOK
<1>1. UNCHANGED <<instance, pagesAdded, token, taskInstanceId, outcome>> /\ cstage[r] = "accepted"
    BY DEF HandOverPages, worker
<1>2. \A x \in Read : cstage[x] = "accepted" => x = r
    BY <1>1 DEF OneGet, GetActive
<1>3. CASE outcome # "none"
    <2>1. received' = received BY <1>3 DEF HandOverPages
    <2>2. \A x \in Read : cstage'[x] = "accepted" => response'[x] = response[x]
        BY <1>0, <1>3 DEF HandOverPages
    <2> QED BY <1>0, <1>1, <1>3, <2>1, <2>2, OtherKeepsReceivedInv
<1>4. CASE outcome = "none"
    <2> DEFINE pages == response[r].result.pages
    <2>1. /\ received' = received \o pages /\ cstage' = [cstage EXCEPT ![r] = "added"]
        BY <1>4 DEF HandOverPages
    <2>2. /\ received \in Seq(Page) /\ pages \in Seq(Page) /\ token \in Nat
          /\ Len(received) \in Nat /\ Len(pages) \in Nat
        <3>1. received \in Seq(Page) /\ token \in Nat /\ response[r] \in ResponseType
            BY DEF TypeOK
        <3>2. pages \in Seq(Page) BY <3>1 DEF ResponseType, ResultType
        <3> HIDE DEF pages
        <3> QED BY <3>1, <3>2
    <2>3. /\ Len(received) + Len(pages) = token
          /\ \A i \in 1 .. Len(pages) : pages[i] = Output[taskInstanceId][Len(received) + i]
        BY <1>1, <1>4 DEF ReceivedInv
    <2> HIDE DEF pages
    <2>4. /\ Len(received') = token
          /\ \A i \in 1 .. Len(received) : received'[i] = received[i]
          /\ \A i \in 1 .. Len(pages) : received'[Len(received) + i] = pages[i]
        BY <2>1, <2>2, <2>3
    <2>5. ASSUME NEW i \in 1 .. Len(received')
          PROVE  received'[i] = Output[taskInstanceId][i]
        <3>1. CASE i \in 1 .. Len(received) BY <2>4, <3>1 DEF ReceivedInv
        <3>2. CASE i \notin 1 .. Len(received)
            <4>1. i - Len(received) \in 1 .. Len(pages) /\ Len(received) + (i - Len(received)) = i
                BY <2>2, <2>3, <2>4, <3>2
            <4> QED BY <2>3, <2>4, <4>1
        <3> QED BY <3>1, <3>2
    <2>6. \A x \in Read : cstage'[x] # "accepted" BY <1>0, <1>2, <2>1
    <2> QED BY <1>1, <2>2, <2>4, <2>5, <2>6 DEF ReceivedInv
<1> QED BY <1>3, <1>4

LEMMA HandleFailureKeepsReceivedInv ==
    ASSUME TypeOK, TypeOK', BufferInv, RequestInv, ReceivedInv, Next, NEW r \in Read,
           NEW fatal \in BOOLEAN, cstage[r] \notin {"waiting", "accepted"}, HandleFailure(r, fatal),
           UNCHANGED taskInstanceId
    PROVE  ReceivedInv'
<1>0. response \in [Read -> ResponseType] /\ cstage \in [Read -> ClientStage] BY DEF TypeOK
<1>1. UNCHANGED <<token, received>> /\ (outcome' = outcome \/ outcome' # "none")
    BY DEF HandleFailure
<1>2. ASSUME NEW x \in Read
      PROVE  /\ outcome' = "none" => ((cstage'[x] = "accepted") <=> (cstage[x] = "accepted"))
             /\ cstage'[x] = "accepted" => response'[x] = response[x]
    <2>1. CASE CloseClient(r) /\ outcome' = "failed" BY <2>1, CloseClientFacts
    <2>2. CASE Return(r) BY <1>0, <2>2 DEF Return
    <2> QED BY <2>1, <2>2 DEF HandleFailure
<1> QED BY <1>1, <1>2, OtherKeepsReceivedInv

LEMMA CallbackKeepsReceivedInv ==
    ASSUME TypeOK, TypeOK', BufferInv, RequestInv, OneGet, ResponseInv, ReceivedInv,
           NEW r \in Read, Callback(r)
    PROVE  ReceivedInv'
<1>0. Next /\ response \in [Read -> ResponseType] /\ cstage \in [Read -> ClientStage]
    BY ZenonT(30) DEF Next, TypeOK
<1>1. CASE OnFailure(r) BY ZenonT(30), <1>0, <1>1, HandleFailureKeepsReceivedInv DEF OnFailure
<1>2. CASE AcceptResponse(r)
    <2>1. CASE response[r].taskFailed \/ InstanceMismatch(r)
        BY ZenonT(30), <1>0, <1>2, <2>1, HandleFailureKeepsReceivedInv DEF AcceptResponse
    <2>2. CASE ~(response[r].taskFailed \/ InstanceMismatch(r))
        BY <1>2, <2>2, AcceptKeepsReceivedInv
    <2> QED BY <2>1, <2>2
<1>3. CASE HandOverPages(r) BY <1>3, HandOverKeepsReceivedInv
<1>4. CASE CompleteRequest(r) \/ DeleteSucceeded(r)
    <2>1. /\ UNCHANGED <<taskInstanceId, token, received>>
          /\ outcome' = outcome \/ outcome' # "none"
          /\ cstage[r] # "accepted" /\ Return(r)
        BY <1>4 DEF CompleteRequest, DeleteSucceeded, exchange
    <2>2. \A x \in Read : /\ (cstage'[x] = "accepted") <=> (cstage[x] = "accepted")
                          /\ cstage'[x] = "accepted" => response'[x] = response[x]
        BY <1>0, <2>1 DEF Return
    <2> QED BY <1>0, <2>1, <2>2, OtherKeepsReceivedInv
<1> QED BY <1>1, <1>2, <1>3, <1>4 DEF Callback

LEMMA RestKeepsReceivedInv ==
    ASSUME TypeOK, TypeOK', BufferInv, RequestInv, OneGet, ReceivedInv, Next,
           \A r \in Read : ~Callback(r)
    PROVE  ReceivedInv'
<1>0. response \in [Read -> ResponseType] /\ cstage \in [Read -> ClientStage] BY DEF TypeOK
<1>1. UNCHANGED <<taskInstanceId, token, received, outcome>>
    BY ZenonT(30) DEF Next, Drivers, AdmitPage, EnqueuePage, CheckTaskCompletion, NoMorePages, CancelTask,
           FailTask, FinishTask, CleanUpBuffer, RecreateTask, ReceiveAck, Serve, ReceiveGet, ReadPages,
           ProcessTakenRead, CompleteWithEmpty, TimeOutRead, ReceiveDelete, LoseRequest, Deliver,
           FailRequest, ScheduleRequest, InitiateRequest, CloseExchange, client, exchange
<1>2. ASSUME NEW x \in Read
      PROVE  /\ (cstage'[x] = "accepted") <=> (cstage[x] = "accepted")
             /\ cstage'[x] = "accepted" => response'[x] = response[x]
    <2>1. CASE \/ Drivers \/ CancelTask \/ FailTask \/ FinishTask \/ CleanUpBuffer \/ RecreateTask
               \/ \E t \in acks : ReceiveAck(t)
               \/ ScheduleRequest
               \/ \E r \in Read : LoseRequest(r)
        <3>1. UNCHANGED <<cstage, response>>
            BY ZenonT(30), <2>1 DEF Drivers, AdmitPage, EnqueuePage, CheckTaskCompletion, NoMorePages, CancelTask,
               FailTask, FinishTask, CleanUpBuffer, RecreateTask, ReceiveAck, ScheduleRequest,
               LoseRequest, client, wire
        <3> QED BY <3>1
    <2>2. CASE \E r \in Read : Deliver(r) \/ FailRequest(r)
        BY <1>0, <2>2 DEF Deliver, FailRequest
    <2>3. CASE \E r \in Read : Serve(r)
        <3>1. PICK r \in Read : Serve(r) BY <2>3
        <3>2. cstage' = cstage
            BY ZenonT(30), <3>1 DEF Serve, ReceiveGet, ReadPages, ProcessTakenRead, CompleteWithEmpty, TimeOutRead,
                        ReceiveDelete, client
        <3>3. cstage[x] # "waiting" => response'[x] = response[x]
            BY ZenonT(30), <1>0, <3>1 DEF Serve, ReceiveGet, ReadPages, ProcessTakenRead, CompleteWithEmpty,
                        TimeOutRead, ReceiveDelete, RespondRead, RespondEmpty, Respond
        <3> QED BY <3>2, <3>3
    <2>4. CASE InitiateRequest
        <3>1. response' = response BY <2>4 DEF InitiateRequest
        <3>2. \/ cstage'[x] = cstage[x]
              \/ cstage[x] = "idle" /\ cstage'[x] = "waiting"
            BY <1>0, <2>4, NoReadAssumption DEF InitiateRequest, Available
        <3> QED BY <3>1, <3>2
    <2>5. CASE CloseExchange
        <3>1. CloseClient(NoRead) /\ NoRead \notin Read BY <2>5, NoReadAssumption DEF CloseExchange
        <3>2. RequestOK(x) BY DEF RequestInv
        <3> QED BY <3>1, <3>2, CloseClientFacts
    <2> QED BY <2>1, <2>2, <2>3, <2>4, <2>5 DEF Next
<1> QED BY <1>1, <1>2, OtherKeepsReceivedInv

-----------------------------------------------------------------------------
(* The invariant and what follows from it.                                 *)

LEMMA RestKeepsBufferInv ==
    ASSUME TypeOK, BufferInv, Next,
           ~(Drivers \/ CancelTask \/ FailTask \/ FinishTask \/ CleanUpBuffer \/ RecreateTask),
           \A r \in Read : ~Serve(r)
    PROVE  BufferInv'
<1>1. CASE \E t \in acks : ReceiveAck(t)
    <2>1. PICK t \in acks : ReceiveAck(t) BY <1>1
    <2>2. t \in Nat BY DEF TypeOK
    <2>3. UNCHANGED <<instance, bufferState, driver, produced, pagesAdded>> BY <2>1 DEF ReceiveAck
    <2>4. CASE InvalidAcknowledge(buf, t)
        BY <2>1, <2>3, <2>4, SameContentsKeepsBufferInv DEF ReceiveAck
    <2>5. CASE ~InvalidAcknowledge(buf, t)
        BY <2>1, <2>2, <2>3, <2>5, AcknowledgeKeepsBufferInv DEF ReceiveAck
    <2> QED BY <2>4, <2>5
<1>2. CASE ~\E t \in acks : ReceiveAck(t)
    <2>1. UNCHANGED worker
        BY <1>2 DEF Next, LoseRequest, Deliver, FailRequest, Callback, OnFailure, AcceptResponse,
           HandOverPages, CompleteRequest, DeleteSucceeded, HandleFailure, ScheduleRequest,
           InitiateRequest, CloseExchange
    <2> QED BY <2>1, SameContentsKeepsBufferInv DEF worker
<1> QED BY <1>1, <1>2

LEMMA InvInit == Init => TransportInv
    BY BufferInit, RequestInit, OneGetInit, ResponseInit, ReceivedInit DEF TransportInv

LEMMA InvNext == TypeOK /\ TypeOK' /\ TransportInv /\ [Next]_vars => TransportInv'
<1> SUFFICES ASSUME TypeOK, TypeOK', TransportInv, [Next]_vars PROVE TransportInv'
    OBVIOUS
<1>0. BufferInv /\ RequestInv /\ OneGet /\ ResponseInv /\ ReceivedInv BY DEF TransportInv
<1>1. CASE UNCHANGED vars
    <2> USE <1>0, <1>1 DEF vars, worker, wire, client, exchange
    <2>1. BufferInv' BY SameContentsKeepsBufferInv
    <2>2. RequestInv' BY DEF RequestInv, RequestOK
    <2>3. OneGet' BY DEF OneGet, GetActive
    <2>4. ResponseInv' BY DEF ResponseInv
    <2>5. ReceivedInv' BY DEF ReceivedInv
    <2> QED BY <2>1, <2>2, <2>3, <2>4, <2>5 DEF TransportInv
<1>2. CASE Next
    <2>1. BufferInv'
        BY <1>0, <1>2, WorkerKeepsBufferInv, ServeKeepsBufferInv, RestKeepsBufferInv
    <2>2. ResponseInv'
        BY <1>0, <1>2, ServeKeepsResponseInv, CallbackKeepsResponseInv, RestKeepsResponseInv
    <2>3. ReceivedInv' BY <1>0, <1>2, CallbackKeepsReceivedInv, RestKeepsReceivedInv
    <2>4. RequestInv' /\ OneGet'
        <3>1. CASE Drivers \/ CancelTask \/ FailTask \/ FinishTask \/ CleanUpBuffer \/ RecreateTask
            BY <1>0, <3>1, WorkerKeepsRequestInv, WorkerKeepsOneGet
        <3>2. CASE \E t \in acks : ReceiveAck(t)
            <4>1. RequestInv' BY <1>0, <3>2, ReceiveAckKeepsRequestInv
            <4>2. UNCHANGED <<closed, future, cstage, request, response>>
                BY <3>2 DEF ReceiveAck, client
            <4> QED BY <1>0, <4>1, <4>2, FewerKeepsOneGet DEF GetActive
        <3>3. CASE \E r \in Read : Serve(r)
            BY <1>0, <3>3, ServeKeepsRequestInv, ServeKeepsOneGet
        <3>4. CASE \E r \in Read : LoseRequest(r) \/ Deliver(r) \/ FailRequest(r)
            BY <1>0, <3>4, NetworkKeepsRequestInv, NetworkKeepsOneGet
        <3>5. CASE \E r \in Read : Callback(r)
            BY <1>0, <3>5, CallbackKeepsRequestInv, CallbackKeepsOneGet
        <3>6. CASE ScheduleRequest \/ InitiateRequest \/ CloseExchange
            BY <1>0, <3>6, ClientKeepsRequestInv, ClientKeepsOneGet
        <3> QED BY <1>2, <3>1, <3>2, <3>3, <3>4, <3>5, <3>6 DEF Next
    <2> QED BY <2>1, <2>2, <2>3, <2>4 DEF TransportInv
<1> QED BY <1>1, <1>2

LEMMA InvImplies ==
    ASSUME TypeOK, TransportInv
    PROVE  ReceivedInOrder /\ DroppedPagesWereTaken /\ AcknowledgementsValid /\ ReadsValid
<1>0. /\ token \in Nat /\ buf.currentSequenceId \in Nat /\ buf.pages \in Seq(Page) /\ Len(buf.pages) \in Nat
      /\ instance \in Instance /\ received \in Seq(Page) /\ Len(received) \in Nat
      /\ \A k \in Instance : pagesAdded[k] \in Nat /\ Len(Output[k]) \in Nat
      /\ \A r \in Read : request[r].token \in Nat
      /\ acks \subseteq Nat
    BY OutputAssumption DEF TypeOK, Buffer, Request
<1>1. ReceivedInOrder
    <2>1. SUFFICES ASSUME received # << >> PROVE ReceivedInOrder BY DEF ReceivedInOrder
    <2>2. Len(received) > 0 BY <1>0, <2>1
    <2>3. taskInstanceId # NoInstance /\ Len(received) <= token
        BY <1>0, <2>2 DEF TransportInv, ReceivedInv
    <2>4. taskInstanceId \in Instance
        BY <1>0, <2>3, MaxInstanceAssumption DEF TransportInv, ReceivedInv, Instance, NoInstance
    <2>5. token <= pagesAdded[taskInstanceId] /\ pagesAdded[taskInstanceId] <= Len(Output[taskInstanceId])
        BY <2>3, <2>4 DEF TransportInv, ReceivedInv, BufferInv
    <2>6. Len(received) <= Len(Output[taskInstanceId]) BY <1>0, <2>3, <2>4, <2>5
    <2> QED BY <2>3, <2>6 DEF ReceivedInOrder, TransportInv, ReceivedInv
<1>2. DroppedPagesWereTaken BY DEF DroppedPagesWereTaken, TransportInv, RequestInv
<1>3. AcknowledgementsValid
    <2>1. ASSUME taskInstanceId \in {NoInstance, instance}, NEW s \in Nat, s <= token
          PROVE  ~InvalidAcknowledge(buf, s)
        <3>1. token <= pagesAdded[instance]
            BY <1>0, <2>1 DEF TransportInv, ReceivedInv, NoInstance
        <3>2. ~buf.destroyed => pagesAdded[instance] = buf.currentSequenceId + Len(buf.pages)
            BY DEF TransportInv, BufferInv
        <3> QED BY <1>0, <2>1, <3>1, <3>2 DEF InvalidAcknowledge
    <2>2. /\ \A r \in Read : request[r].token <= token
          /\ \A t \in acks : t <= token
        BY DEF TransportInv, RequestInv, RequestOK
    <2> QED BY ZenonT(30), <1>0, <2>1, <2>2 DEF AcknowledgementsValid
<1>4. ReadsValid
    <2>1. SUFFICES ASSUME NEW r \in Read, sstage[r] \in {"acked", "pending", "taken"}
                   PROVE  ~InvalidRead(buf, request[r].token)
        BY DEF ReadsValid
    <2>2. buf.destroyed \/ request[r].token <= buf.currentSequenceId
        BY <2>1 DEF TransportInv, RequestInv, RequestOK
    <2>3. buf.destroyed => buf.pages = << >> /\ buf.noMorePages BY DEF TransportInv, BufferInv
    <2> QED BY <1>0, <2>2, <2>3 DEF InvalidRead
<1> QED BY <1>1, <1>2, <1>3, <1>4

(* The invariant that ties the buffer, the requests, the responses and the *)
(* client together holds in every state.                                   *)
THEOREM TransportInvariant == Spec => []TransportInv
    BY InitType, NextType, InvInit, InvNext, PTL DEF Spec

(* Every page is handed over exactly once and in order.                    *)
THEOREM ExactlyOnceInOrder == Spec => []ReceivedInOrder
    BY TypeCorrect, TransportInvariant, InvImplies, PTL

(* The worker drops no page that the client may still ask for.             *)
THEOREM NothingDroppedEarly == Spec => []DroppedPagesWereTaken
    BY TypeCorrect, TransportInvariant, InvImplies, PTL

(* No request or acknowledgement of this client trips the check of         *)
(* acknowledgePages on its argument.                                       *)
THEOREM AcknowledgementsAreValid == Spec => []AcknowledgementsValid
    BY TypeCorrect, TransportInvariant, InvImplies, PTL

(* No read trips the verify of processRead.                                *)
THEOREM ReadsAreValid == Spec => []ReadsValid
    BY TypeCorrect, TransportInvariant, InvImplies, PTL
=============================================================================
