----------------------- MODULE PageTransportResponses -----------------------
(***************************************************************************)
(* Proofs about PageTransport, 3: at most one GET can still hand over      *)
(* pages, and a response holds the output from its token on.               *)
(***************************************************************************)
EXTENDS PageTransportRequests

-----------------------------------------------------------------------------
(* At most one GET can still hand over pages.                              *)

LEMMA OneGetInit == Init => OneGet
<1> SUFFICES ASSUME Init PROVE OneGet OBVIOUS
<1>1. \A r \in Read : cstage[r] = "idle" BY DEF Init
<1> QED BY <1>1 DEF OneGet, GetActive

(* Steps that start no request and leave the client's callbacks alone.     *)
LEMMA FewerKeepsOneGet ==
    ASSUME OneGet, UNCHANGED <<closed, future, cstage>>,
           \A x \in Read : GetActive(x)' => GetActive(x),
           \A x \in Read : cstage[x] \in {"accepted", "added"} => response'[x] = response[x]
    PROVE  OneGet'
    BY DEF OneGet

LEMMA RespondKeepsOneGet ==
    ASSUME TypeOK, OneGet, UNCHANGED <<closed, future, cstage>>, NEW r \in Read,
           NEW e, NEW f, NEW result, Respond(r, e, f, result)
    PROVE  OneGet'
<1>0. request \in [Read -> Request] /\ response \in [Read -> ResponseType] /\ NoRequest.kind = "none"
    BY DEF TypeOK, NoRequest
<1>1. ASSUME NEW x \in Read
      PROVE  /\ request'[x].kind = "GET" \/ response'[x].kind = "GET"
                    => request[x].kind = "GET" \/ response[x].kind = "GET"
             /\ cstage[x] # "waiting" => response'[x] = response[x]
    <2>1. CASE x # r BY <1>0, <2>1 DEF Respond
    <2>2. CASE x = r /\ cstage[r] = "waiting"
        <3>1. request'[r] = NoRequest /\ response'[r] = Response(request[r].kind, instance, e, f, result)
            BY <1>0, <2>2 DEF Respond
        <3>2. response'[r].kind = request[r].kind BY <3>1 DEF Response
        <3> QED BY <1>0, <2>2, <3>1, <3>2
    <2>3. CASE x = r /\ cstage[r] # "waiting" BY <1>0, <2>3 DEF Respond
    <2> QED BY <2>1, <2>2, <2>3
<1> QED BY <1>1, FewerKeepsOneGet DEF GetActive

LEMMA WorkerKeepsOneGet ==
    ASSUME TypeOK, OneGet,
           Drivers \/ CancelTask \/ FailTask \/ FinishTask \/ CleanUpBuffer \/ RecreateTask
    PROVE  OneGet'
<1>1. UNCHANGED <<closed, future, cstage, response>>
    BY DEF Drivers, AdmitPage, EnqueuePage, CheckTaskCompletion, NoMorePages, CancelTask, FailTask,
           FinishTask, CleanUpBuffer, RecreateTask, client, wire
<1>2. \A x \in Read : request'[x] = request[x] \/ request'[x] = NoRequest
    BY DEF Drivers, AdmitPage, EnqueuePage, CheckTaskCompletion, NoMorePages, CancelTask, FailTask,
           FinishTask, CleanUpBuffer, RecreateTask, wire
<1> QED BY <1>1, <1>2, FewerKeepsOneGet DEF GetActive, NoRequest

LEMMA ServeKeepsOneGet ==
    ASSUME TypeOK, OneGet, NEW r \in Read, Serve(r)
    PROVE  OneGet'
<1>1. UNCHANGED <<closed, future, cstage>>
    BY ZenonT(30) DEF Serve, ReceiveGet, ReadPages, ProcessTakenRead, CompleteWithEmpty, TimeOutRead,
           ReceiveDelete, client
<1>2. \/ \E e, f, result : Respond(r, e, f, result)
      \/ /\ response' = response
         /\ request' = request \/ request' = [request EXCEPT ![r].taskFailed = (taskState = "FAILED")]
    <2>1. CASE ReceiveGet(r) BY ZenonT(30), <2>1 DEF ReceiveGet
    <2>2. CASE ReadPages(r) BY <2>2 DEF ReadPages, RespondRead
    <2>3. CASE ProcessTakenRead(r) BY <2>3 DEF ProcessTakenRead, RespondRead
    <2>4. CASE CompleteWithEmpty(r) BY ZenonT(30), <2>4 DEF CompleteWithEmpty, RespondEmpty
    <2>5. CASE TimeOutRead(r) BY ZenonT(30), <2>5 DEF TimeOutRead, RespondEmpty
    <2>6. CASE ReceiveDelete(r) BY ZenonT(30), <2>6 DEF ReceiveDelete
    <2> QED BY <2>1, <2>2, <2>3, <2>4, <2>5, <2>6 DEF Serve
<1>3. CASE \E e, f, result : Respond(r, e, f, result) BY <1>1, <1>3, RespondKeepsOneGet
<1>4. CASE /\ response' = response
           /\ request' = request \/ request' = [request EXCEPT ![r].taskFailed = (taskState = "FAILED")]
    <2> DEFINE failed == taskState = "FAILED"
    <2>1. \A x \in Read : request'[x].kind = request[x].kind
        <3>1. request' = request \/ request' = [request EXCEPT ![r].taskFailed = failed] BY <1>4
        <3> HIDE DEF failed
        <3>2. request \in [Read -> Request] BY DEF TypeOK
        <3>3. \A x \in Read : request'[x] = request[x]
                               \/ request'[x] = [request[x] EXCEPT !.taskFailed = failed]
            BY <3>1, <3>2
        <3>4. \A q \in Request : [q EXCEPT !.taskFailed = failed].kind = q.kind BY DEF Request
        <3> QED BY ZenonT(30), <3>2, <3>3, <3>4
    <2> QED BY <1>1, <1>4, <2>1, FewerKeepsOneGet DEF GetActive
<1> QED BY <1>2, <1>3, <1>4

LEMMA NetworkKeepsOneGet ==
    ASSUME TypeOK, RequestInv, OneGet, NEW r \in Read, LoseRequest(r) \/ Deliver(r) \/ FailRequest(r)
    PROVE  OneGet'
<1>0. /\ request \in [Read -> Request] /\ response \in [Read -> ResponseType]
      /\ cstage \in [Read -> ClientStage] /\ NoRequest.kind = "none"
    BY DEF TypeOK, NoRequest
<1>1. UNCHANGED <<closed, future>> BY DEF LoseRequest, Deliver, FailRequest, client
<1>2. CASE LoseRequest(r)
    <2>1. UNCHANGED <<cstage, response>> BY <1>2 DEF LoseRequest, client
    <2>2. \A x \in Read : request'[x] = request[x] \/ request'[x] = NoRequest
        BY <1>0, <1>2 DEF LoseRequest
    <2> QED BY <1>0, <1>1, <2>1, <2>2, FewerKeepsOneGet DEF GetActive
<1>3. CASE Deliver(r)
    <2>1. /\ cstage[r] = "waiting" /\ cstage'[r] \in {"delivered", "rejected"}
          /\ \A x \in Read \ {r} : cstage'[x] = cstage[x]
          /\ UNCHANGED <<request, response>>
        BY <1>0, <1>3 DEF Deliver
    <2>2. \A x \in Read : /\ GetActive(x)' => GetActive(x)
                          /\ cstage'[x] # "idle" => cstage[x] # "idle"
                          /\ cstage'[x] \in {"accepted", "added"} => cstage[x] \in {"accepted", "added"}
        BY <2>1 DEF GetActive
    <2> QED BY <1>1, <2>1, <2>2 DEF OneGet
<1>4. CASE FailRequest(r)
    <2>1. /\ cstage[r] = "waiting" /\ cstage'[r] \in {"failed", "rejected"}
          /\ \A x \in Read \ {r} : cstage'[x] = cstage[x] /\ response'[x] = response[x]
          /\ UNCHANGED request
        BY <1>0, <1>4 DEF FailRequest
    <2>2. \A x \in Read : /\ GetActive(x)' => GetActive(x)
                          /\ cstage'[x] # "idle" => cstage[x] # "idle"
                          /\ cstage'[x] \in {"accepted", "added"}
                                => cstage[x] \in {"accepted", "added"} /\ response'[x] = response[x]
        BY <2>1 DEF GetActive
    <2> QED BY <1>1, <2>1, <2>2 DEF OneGet
<1> QED BY <1>2, <1>3, <1>4

LEMMA ReturnKeepsOneGet ==
    ASSUME TypeOK, OneGet, NEW r \in Read, Return(r), closed' = closed \/ closed' = TRUE
    PROVE  OneGet'
<1>0. response \in [Read -> ResponseType] /\ cstage \in [Read -> ClientStage]
    BY DEF TypeOK
<1>1. /\ cstage'[r] = "idle" /\ UNCHANGED request
      /\ \A x \in Read \ {r} : cstage'[x] = cstage[x] /\ response'[x] = response[x]
      /\ future' = IF future = r THEN NoRead ELSE future
    BY <1>0 DEF Return
<1>2. \A x \in Read : GetActive(x)' => x # r /\ GetActive(x) BY <1>1 DEF GetActive
<1>3. ~closed' => ~closed OBVIOUS
<1>4. ~closed' => \A x \in Read : cstage'[x] # "idle" => future' = x
    BY <1>1, <1>3 DEF OneGet
<1>5. \A x \in Read : cstage'[x] \in {"accepted", "added"} => response'[x].kind = "GET"
    BY <1>1 DEF OneGet
<1>6. \A x, y \in Read : GetActive(x)' /\ GetActive(y)' => x = y BY <1>2 DEF OneGet
<1> QED BY <1>4, <1>5, <1>6 DEF OneGet

LEMMA CloseKeepsOneGet ==
    ASSUME TypeOK, RequestInv, OneGet, NEW returning \in Read \cup {NoRead}, CloseClient(returning),
           returning \in Read => cstage[returning] # "waiting"
    PROVE  OneGet'
<1>1. closed' = TRUE BY DEF CloseClient
<1>2. ASSUME NEW x \in Read
      PROVE  /\ GetActive(x)' => GetActive(x)
             /\ cstage'[x] \in {"accepted", "added"}
                   => cstage[x] \in {"accepted", "added"} /\ response'[x] = response[x]
    BY CloseClientFacts DEF GetActive
<1>3. \A x, y \in Read : GetActive(x)' /\ GetActive(y)' => x = y BY <1>2 DEF OneGet
<1> QED BY <1>1, <1>2, <1>3 DEF OneGet

LEMMA HandleFailureKeepsOneGet ==
    ASSUME TypeOK, RequestInv, OneGet, NEW r \in Read, NEW fatal \in BOOLEAN,
           cstage[r] # "waiting", HandleFailure(r, fatal)
    PROVE  OneGet'
<1>1. CloseClient(r) \/ (Return(r) /\ closed' = closed) BY DEF HandleFailure
<1> QED BY ZenonT(30), <1>1, CloseKeepsOneGet, ReturnKeepsOneGet

LEMMA CallbackKeepsOneGet ==
    ASSUME TypeOK, RequestInv, OneGet, ResponseInv, NEW r \in Read, Callback(r)
    PROVE  OneGet'
<1>0. response \in [Read -> ResponseType] /\ cstage \in [Read -> ClientStage]
    BY DEF TypeOK
<1>1. CASE OnFailure(r) BY ZenonT(30), <1>1, HandleFailureKeepsOneGet DEF OnFailure
<1>2. CASE AcceptResponse(r)
    <2>1. CASE response[r].taskFailed \/ InstanceMismatch(r)
        BY ZenonT(30), <1>2, <2>1, HandleFailureKeepsOneGet DEF AcceptResponse
    <2>2. CASE ~(response[r].taskFailed \/ InstanceMismatch(r))
        <3>1. /\ UNCHANGED <<closed, future, request>>
              /\ cstage' = [cstage EXCEPT ![r] = "accepted"]
              /\ response' = response \/ response' = [response EXCEPT ![r].result.pages = << >>]
              /\ cstage[r] = "delivered" /\ response[r].kind = "GET"
            BY <1>2, <2>2, AcceptFacts DEF AcceptResponse
        <3>2. \A x \in Read : response'[x].kind = response[x].kind
            BY <1>0, <3>1 DEF ResponseType
        <3>3. \A x \in Read : GetActive(x)' => GetActive(x) BY <1>0, <3>1, <3>2 DEF GetActive
        <3>4. \A x \in Read : cstage'[x] # "idle" => cstage[x] # "idle" BY <1>0, <3>1
        <3>5. \A x \in Read : cstage'[x] \in {"accepted", "added"} => response'[x].kind = "GET"
            BY <1>0, <3>1, <3>2 DEF OneGet
        <3> QED BY <3>1, <3>3, <3>4, <3>5 DEF OneGet
    <2> QED BY <2>1, <2>2
<1>3. CASE HandOverPages(r)
    <2>1. /\ cstage[r] = "accepted" /\ UNCHANGED <<closed, future, request>>
          /\ \A x \in Read \ {r} : cstage'[x] = cstage[x] /\ response'[x] = response[x]
          /\ \/ cstage'[r] = "added" /\ response' = response
             \/ cstage'[r] = "idle"
        BY <1>0, <1>3 DEF HandOverPages
    <2>2. ASSUME NEW x \in Read
          PROVE  /\ GetActive(x)' => GetActive(x)
                 /\ cstage'[x] # "idle" => cstage[x] # "idle"
                 /\ cstage'[x] \in {"accepted", "added"}
                       => cstage[x] \in {"accepted", "added"} /\ response'[x] = response[x]
        BY <2>1 DEF GetActive
    <2> QED BY <2>1, <2>2 DEF OneGet
<1>4. CASE CompleteRequest(r) BY <1>4, ReturnKeepsOneGet DEF CompleteRequest
<1>5. CASE DeleteSucceeded(r) BY <1>5, ReturnKeepsOneGet DEF DeleteSucceeded
<1> QED BY <1>1, <1>2, <1>3, <1>4, <1>5 DEF Callback

(* A GET is sent only when no callback of an earlier request is left.      *)
LEMMA ClientKeepsOneGet ==
    ASSUME TypeOK, RequestInv, OneGet, ScheduleRequest \/ InitiateRequest \/ CloseExchange
    PROVE  OneGet'
<1>1. CASE ScheduleRequest
    BY <1>1 DEF ScheduleRequest, OneGet, GetActive, wire
<1>2. CASE InitiateRequest
    <2>1. UNCHANGED <<closed, response>> BY <1>2 DEF InitiateRequest
    <2>2. CASE closed \/ future # NoRead
        BY <1>2, <2>1, <2>2 DEF InitiateRequest, OneGet, GetActive
    <2>3. CASE ~(closed \/ future # NoRead)
        <3>1. PICK r \in Read : /\ Send(r, IF completed THEN "DELETE" ELSE "GET")
                                /\ cstage' = [cstage EXCEPT ![r] = "waiting"]
            BY <1>2, <2>3 DEF InitiateRequest
        <3>2. \A x \in Read : cstage[x] = "idle" BY <2>3, NoReadAssumption DEF OneGet
        <3>3. /\ future' = r /\ cstage'[r] = "waiting"
              /\ \A x \in Read \ {r} : cstage'[x] = "idle"
            BY <3>1, <3>2 DEF Send, TypeOK
        <3> QED BY <3>3 DEF OneGet, GetActive
    <2> QED BY <2>2, <2>3
<1>3. CASE CloseExchange
    BY <1>3, CloseKeepsOneGet, NoReadAssumption DEF CloseExchange
<1> QED BY <1>1, <1>2, <1>3

-----------------------------------------------------------------------------
(* A response carries the output from its token on.                        *)

(* What ResponseInv says of one response.                                  *)
ResponseOK(x) ==
    response[x].kind = "GET" /\ ~response[x].error =>
        /\ response[x].instance \in 1 .. instance
        /\ response[x].result.nextToken = response[x].result.token + Len(response[x].result.pages)
        /\ response[x].result.pages # << >> =>
              response[x].result.nextToken <= pagesAdded[response[x].instance]
        /\ \A i \in 1 .. Len(response[x].result.pages) :
              response[x].result.pages[i] = Output[response[x].instance][response[x].result.token + i]

LEMMA ResponseInvIsResponseOK ==
    ResponseInv <=> \A x \in Read : cstage[x] \in {"waiting", "delivered"} => ResponseOK(x)
    BY DEF ResponseInv, ResponseOK

LEMMA ResponseInit == Init => ResponseInv
    BY DEF Init, ResponseInv

(* Instances and pages only get more.                                      *)
LEMMA WorkerGrows ==
    ASSUME TypeOK, BufferInv, Next
    PROVE  /\ instance' \in Int /\ instance' >= instance
           /\ \A k \in Instance : pagesAdded'[k] >= pagesAdded[k]
<1>0. instance \in Int /\ instance \in Instance /\ pagesAdded \in [Instance -> Nat]
    BY DEF TypeOK, Instance
<1>1. CASE EnqueuePage
    <2>1. /\ instance' = instance
          /\ pagesAdded' = pagesAdded \/ pagesAdded' = [pagesAdded EXCEPT ![instance] = @ + 1]
        BY <1>1 DEF EnqueuePage
    <2> QED BY <1>0, <2>1
<1>2. CASE RecreateTask
    <2>1. instance' = instance + 1 /\ pagesAdded' = pagesAdded BY <1>2 DEF RecreateTask
    <2> QED BY <1>0, <2>1
<1>3. CASE ~EnqueuePage /\ ~RecreateTask
    <2>1. UNCHANGED <<instance, pagesAdded>>
        BY ZenonT(30), <1>3 DEF Next, Drivers, AdmitPage, CheckTaskCompletion, NoMorePages, CancelTask, FailTask,
           FinishTask, CleanUpBuffer, ReceiveAck, Serve, ReceiveGet, ReadPages, ProcessTakenRead,
           CompleteWithEmpty, TimeOutRead, ReceiveDelete, LoseRequest, Deliver, FailRequest,
           Callback, OnFailure, AcceptResponse, HandOverPages, CompleteRequest, DeleteSucceeded,
           HandleFailure, ScheduleRequest, InitiateRequest, CloseExchange, worker
    <2> QED BY <1>0, <2>1
<1> QED BY <1>1, <1>2, <1>3

LEMMA SameResponseOK ==
    ASSUME TypeOK, TypeOK', BufferInv, Next, NEW x \in Read, ResponseOK(x), response'[x] = response[x]
    PROVE  ResponseOK(x)'
<1>0. /\ instance \in Int /\ instance \in Instance
      /\ \A k \in Instance : pagesAdded[k] \in Nat /\ pagesAdded'[k] \in Nat
    BY DEF TypeOK, Instance
<1>1. /\ instance' \in Int /\ instance' >= instance
      /\ \A k \in Instance : pagesAdded'[k] >= pagesAdded[k]
    BY WorkerGrows
<1>2. \A k \in 1 .. instance : k \in Instance /\ k \in 1 .. instance'
    BY <1>0, <1>1, MaxInstanceAssumption DEF Instance
<1>3. response[x].result.nextToken \in Nat BY DEF TypeOK, ResponseType, ResultType
<1> QED BY <1>0, <1>1, <1>2, <1>3 DEF ResponseOK

(* A read of the buffer.                                                   *)
LEMMA RespondReadOK ==
    ASSUME TypeOK, BufferInv, NEW r \in Read, RespondRead(r), cstage[r] = "waiting",
           UNCHANGED <<instance, pagesAdded>>
    PROVE  ResponseOK(r)'
<1> DEFINE result == ProcessRead(buf, request[r].token, MaxResponseSize)
           error == InvalidRead(buf, request[r].token)
<1>1. /\ IsBuffer(buf) /\ request[r].token \in Nat /\ buf.currentSequenceId \in Nat
      /\ Len(buf.pages) \in Nat /\ instance \in 1 .. instance /\ pagesAdded[instance] \in Nat
    BY DEF TypeOK, IsBuffer, Buffer, Request, Instance
<1>2. /\ result \in ResultType
      /\ result.nextToken = result.token + Len(result.pages)
      /\ ~error /\ result.pages # << >> =>
            /\ result.token = buf.currentSequenceId
            /\ Len(result.pages) <= Len(buf.pages)
            /\ \A i \in 1 .. Len(result.pages) : result.pages[i] = buf.pages[i]
    BY <1>1, ProcessReadFacts
<1>3. response'[r] = Response(request[r].kind, instance, error, request[r].taskFailed, result)
    BY DEF RespondRead, Respond, TypeOK
<1> HIDE DEF result, error
<1>4. response'[r].instance = instance /\ response'[r].error = error /\ response'[r].result = result
    BY <1>3 DEF Response
<1>5. result.pages \in Seq(Page) /\ Len(result.pages) \in Nat /\ result.token \in Nat
    BY <1>2 DEF ResultType
<1>6. CASE error BY <1>4, <1>6 DEF ResponseOK
<1>7. CASE ~error /\ result.pages = << >>
    <2>1. Len(result.pages) = 0 BY <1>7
    <2> QED BY <1>1, <1>2, <1>4, <1>7, <2>1 DEF ResponseOK
<1>8. CASE ~error /\ result.pages # << >>
    <2>1. buf.pages # << >>
        BY <1>1, <1>2, <1>5, <1>8 DEF IsBuffer, Buffer
    <2>2. ~buf.destroyed /\ pagesAdded[instance] = buf.currentSequenceId + Len(buf.pages)
        BY <2>1 DEF BufferInv
    <2>3. result.nextToken <= pagesAdded[instance] BY <1>1, <1>2, <1>5, <1>8, <2>2
    <2>4. ASSUME NEW i \in 1 .. Len(result.pages)
          PROVE  result.pages[i] = Output[instance][result.token + i]
        <3>1. i \in 1 .. Len(buf.pages) BY <1>1, <1>2, <1>5, <1>8
        <3> QED BY <1>2, <1>8, <3>1 DEF BufferInv
    <2> QED BY <1>1, <1>2, <1>4, <2>3, <2>4 DEF ResponseOK
<1> QED BY <1>6, <1>7, <1>8

(* An answer without pages.                                                *)
LEMMA RespondEmptyOK ==
    ASSUME TypeOK, NEW r \in Read, NEW e, NEW f, NEW t \in Nat,
           Respond(r, e, f, EmptyResults(t, FALSE)), cstage[r] = "waiting", UNCHANGED instance
    PROVE  ResponseOK(r)'
<1>1. response'[r] = Response(request[r].kind, instance, e, f, EmptyResults(t, FALSE))
    BY DEF Respond, TypeOK
<1>2. /\ response'[r].instance = instance
      /\ response'[r].result.token = t /\ response'[r].result.nextToken = t
      /\ response'[r].result.pages = << >> /\ Len(response'[r].result.pages) = 0
    BY <1>1 DEF Response, EmptyResults, Result
<1>3. instance \in 1 .. instance BY DEF TypeOK, Instance
<1> QED BY <1>2, <1>3 DEF ResponseOK

LEMMA ServeKeepsResponseInv ==
    ASSUME TypeOK, TypeOK', BufferInv, ResponseInv, NEW r \in Read, Serve(r)
    PROVE  ResponseInv'
<1>0. Next /\ request[r].token \in Nat BY ZenonT(30) DEF Next, TypeOK, Request
<1>1. UNCHANGED <<instance, pagesAdded, cstage>>
    BY ZenonT(30) DEF Serve, ReceiveGet, ReadPages, ProcessTakenRead, CompleteWithEmpty, TimeOutRead,
           ReceiveDelete, client, worker
<1>2. \/ RespondRead(r)
      \/ \E e, f : \E t \in Nat : Respond(r, e, f, EmptyResults(t, FALSE))
      \/ response' = response
    <2>1. CASE ReceiveGet(r) BY ZenonT(30), <1>0, <2>1 DEF ReceiveGet
    <2>2. CASE ReadPages(r) BY ZenonT(30), <2>2 DEF ReadPages
    <2>3. CASE ProcessTakenRead(r) BY <2>3 DEF ProcessTakenRead
    <2>4. CASE CompleteWithEmpty(r) BY ZenonT(30), <1>0, <2>4 DEF CompleteWithEmpty, RespondEmpty
    <2>5. CASE TimeOutRead(r) BY ZenonT(30), <1>0, <2>5 DEF TimeOutRead, RespondEmpty
    <2>6. CASE ReceiveDelete(r) BY ZenonT(30), <2>6 DEF ReceiveDelete
    <2> QED BY ZenonT(30), <2>1, <2>2, <2>3, <2>4, <2>5, <2>6 DEF Serve
<1>3. ASSUME NEW x \in Read, cstage[x] \in {"waiting", "delivered"} PROVE ResponseOK(x)'
    <2>1. ResponseOK(x) BY <1>3, ResponseInvIsResponseOK
    <2>2. CASE response'[x] = response[x] BY <1>0, <2>1, <2>2, SameResponseOK
    <2>3. CASE response'[x] # response[x]
        <3>1. x = r /\ cstage[r] = "waiting"
            BY ZenonT(30), <1>2, <2>3 DEF RespondRead, Respond, TypeOK
        <3> QED BY ZenonT(30), <1>1, <1>2, <2>3, <3>1, RespondReadOK, RespondEmptyOK
    <2> QED BY <2>2, <2>3
<1> QED BY <1>1, <1>3 DEF ResponseInv, ResponseOK

(* All other steps leave the responses alone that are still to be accepted. *)
LEMMA OtherKeepsResponseInv ==
    ASSUME TypeOK, TypeOK', BufferInv, ResponseInv, Next,
           \A x \in Read : cstage'[x] \in {"waiting", "delivered"} =>
               \/ response'[x].kind = "none"
               \/ cstage[x] \in {"waiting", "delivered"} /\ response'[x] = response[x]
    PROVE  ResponseInv'
<1>1. ASSUME NEW x \in Read, cstage'[x] \in {"waiting", "delivered"} PROVE ResponseOK(x)'
    <2>1. CASE response'[x].kind = "none" BY <2>1 DEF ResponseOK
    <2>2. CASE cstage[x] \in {"waiting", "delivered"} /\ response'[x] = response[x]
        BY <2>2, ResponseInvIsResponseOK, SameResponseOK
    <2> QED BY <1>1, <2>1, <2>2
<1> QED BY <1>1 DEF ResponseInv, ResponseOK

LEMMA HandleFailureKeepsResponses ==
    ASSUME TypeOK, RequestInv, NEW r \in Read, NEW fatal \in BOOLEAN,
           cstage[r] # "waiting", HandleFailure(r, fatal), NEW x \in Read,
           cstage'[x] \in {"waiting", "delivered"}
    PROVE  \/ response'[x].kind = "none"
           \/ cstage[x] \in {"waiting", "delivered"} /\ response'[x] = response[x]
<1>1. CASE CloseClient(r) BY <1>1, CloseClientFacts
<1>2. CASE Return(r)
    <2>1. response \in [Read -> ResponseType] /\ cstage \in [Read -> ClientStage] BY DEF TypeOK
    <2> QED BY <1>2, <2>1 DEF Return
<1> QED BY <1>1, <1>2 DEF HandleFailure

LEMMA CallbackKeepsResponseInv ==
    ASSUME TypeOK, TypeOK', BufferInv, RequestInv, ResponseInv, NEW r \in Read, Callback(r)
    PROVE  ResponseInv'
<1> DEFINE Kept(x) == \/ response'[x].kind = "none"
                      \/ cstage[x] \in {"waiting", "delivered"} /\ response'[x] = response[x]
<1>0. Next /\ response \in [Read -> ResponseType] /\ cstage \in [Read -> ClientStage]
    BY ZenonT(30) DEF Next, TypeOK
<1>1. ASSUME NEW x \in Read, cstage'[x] \in {"waiting", "delivered"} PROVE Kept(x)
    <2>1. CASE OnFailure(r) BY ZenonT(30), <1>1, <2>1, HandleFailureKeepsResponses DEF OnFailure
    <2>2. CASE AcceptResponse(r)
        <3>1. CASE response[r].taskFailed \/ InstanceMismatch(r)
            BY ZenonT(30), <1>1, <2>2, <3>1, HandleFailureKeepsResponses DEF AcceptResponse
        <3>2. CASE ~(response[r].taskFailed \/ InstanceMismatch(r))
            BY <1>0, <1>1, <2>2, <3>2 DEF AcceptResponse
        <3> QED BY <3>1, <3>2
    <2>3. CASE HandOverPages(r) BY <1>0, <1>1, <2>3 DEF HandOverPages
    <2>4. CASE CompleteRequest(r) \/ DeleteSucceeded(r)
        BY <1>0, <1>1, <2>4 DEF CompleteRequest, DeleteSucceeded, Return
    <2> QED BY <2>1, <2>2, <2>3, <2>4 DEF Callback
<1> QED BY <1>0, <1>1, OtherKeepsResponseInv

LEMMA RestKeepsResponseInv ==
    ASSUME TypeOK, TypeOK', BufferInv, RequestInv, ResponseInv, Next,
           \A r \in Read : ~Serve(r) /\ ~Callback(r)
    PROVE  ResponseInv'
<1> DEFINE Kept(x) == \/ response'[x].kind = "none"
                      \/ cstage[x] \in {"waiting", "delivered"} /\ response'[x] = response[x]
<1>0. response \in [Read -> ResponseType] /\ cstage \in [Read -> ClientStage] BY DEF TypeOK
<1>1. ASSUME NEW x \in Read, cstage'[x] \in {"waiting", "delivered"} PROVE Kept(x)
    <2>1. CASE \/ Drivers \/ CancelTask \/ FailTask \/ FinishTask \/ CleanUpBuffer \/ RecreateTask
               \/ \E t \in acks : ReceiveAck(t)
               \/ ScheduleRequest
               \/ \E r \in Read : LoseRequest(r)
        <3>1. UNCHANGED <<cstage, response>>
            BY ZenonT(30), <2>1 DEF Drivers, AdmitPage, EnqueuePage, CheckTaskCompletion, NoMorePages, CancelTask,
               FailTask, FinishTask, CleanUpBuffer, RecreateTask, ReceiveAck, ScheduleRequest,
               LoseRequest, client, wire
        <3> QED BY <1>1, <3>1
    <2>2. CASE \E r \in Read : Deliver(r) \/ FailRequest(r)
        BY <1>0, <1>1, <2>2 DEF Deliver, FailRequest
    <2>3. CASE InitiateRequest
        <3>1. response' = response BY <2>3 DEF InitiateRequest
        <3>2. \/ cstage'[x] = cstage[x]
              \/ cstage[x] = "idle" /\ sstage[x] = "idle"
            BY <1>0, <2>3, NoReadAssumption DEF InitiateRequest, Available
        <3> QED BY <1>1, <3>1, <3>2 DEF RequestInv, RequestOK
    <2>4. CASE CloseExchange
        BY ZenonT(30), <1>1, <2>4, CloseClientFacts, NoReadAssumption DEF CloseExchange
    <2> QED BY <2>1, <2>2, <2>3, <2>4 DEF Next
<1> QED BY <1>1, OtherKeepsResponseInv
=============================================================================
