----------------------- MODULE PageTransportRequests -----------------------
(***************************************************************************)
(* Proofs about PageTransport, 2: the buffer holds the output from its     *)
(* sequence id on, and no request is ahead of the token of the client.     *)
(***************************************************************************)
EXTENDS PageTransportTypes

-----------------------------------------------------------------------------
(* The buffer holds the output from its sequence id on.                    *)

LEMMA BufferInit == Init => BufferInv
<1> SUFFICES ASSUME Init PROVE BufferInv OBVIOUS
<1>1. /\ 1 \in Instance
      /\ \A k \in Instance : Len(Output[k]) \in Nat
    BY MaxInstanceAssumption, OutputAssumption DEF Instance
<1>2. /\ ~buf.destroyed /\ buf.pages = << >> /\ Len(buf.pages) = 0
      /\ buf.currentSequenceId = 0 /\ ~buf.noMorePages
    BY DEF Init, NewBuffer
<1> QED BY <1>1, <1>2 DEF Init, BufferInv

(* Acknowledging, as a GET and an acknowledge request do.                  *)
LEMMA AcknowledgeKeepsBufferInv ==
    ASSUME TypeOK, BufferInv, NEW s \in Nat, ~InvalidAcknowledge(buf, s),
           buf' = AcknowledgePages(buf, s),
           UNCHANGED <<instance, bufferState, driver, produced, pagesAdded>>
    PROVE  BufferInv'
<1>1. IsBuffer(buf) BY DEF TypeOK, IsBuffer
<1>2. /\ instance \in Instance /\ pagesAdded[instance] \in Nat
      /\ buf.currentSequenceId \in Nat /\ Len(buf.pages) \in Nat
      /\ buf'.currentSequenceId \in Nat /\ Len(buf'.pages) \in Nat
    <2>1. instance \in Instance /\ pagesAdded[instance] \in Nat BY DEF TypeOK
    <2>2. IsBuffer(buf') BY <1>1, AcknowledgeFacts
    <2> QED BY <1>1, <2>1, <2>2 DEF IsBuffer, Buffer
<1>3. CASE buf.destroyed
    BY <1>1, <1>3, AcknowledgeFacts DEF BufferInv
<1>4. CASE ~buf.destroyed
    <2>1. /\ ~buf'.destroyed
          /\ buf'.noMorePages = buf.noMorePages
          /\ Len(buf'.pages) + buf'.currentSequenceId = Len(buf.pages) + buf.currentSequenceId
          /\ buf'.currentSequenceId >= buf.currentSequenceId
          /\ \A i \in 1 .. Len(buf'.pages) :
                buf'.pages[i] = buf.pages[i + buf'.currentSequenceId - buf.currentSequenceId]
        BY <1>1, <1>4, AcknowledgeFacts
    <2>2. ASSUME NEW i \in 1 .. Len(buf'.pages)
          PROVE  buf'.pages[i] = Output[instance][buf'.currentSequenceId + i]
        <3> DEFINE j == i + buf'.currentSequenceId - buf.currentSequenceId
        <3>1. j \in 1 .. Len(buf.pages) /\ buf.currentSequenceId + j = buf'.currentSequenceId + i
            <4>1. i \in Nat /\ 1 <= i /\ i <= Len(buf'.pages) BY <1>2
            <4>2. /\ Len(buf'.pages) + buf'.currentSequenceId = Len(buf.pages) + buf.currentSequenceId
                  /\ buf'.currentSequenceId >= buf.currentSequenceId
                BY <2>1
            <4>3. j \in Int BY <1>2, <4>1
            <4>4. 1 <= j BY <1>2, <4>1, <4>2
            <4>5. j <= Len(buf.pages) BY <1>2, <4>1, <4>2
            <4>6. buf.currentSequenceId + j = buf'.currentSequenceId + i BY <1>2, <4>1
            <4> HIDE DEF j
            <4> QED BY <1>2, <4>3, <4>4, <4>5, <4>6
        <3>2. buf'.pages[i] = buf.pages[j] BY <2>1
        <3> HIDE DEF j
        <3>3. buf.pages[j] = Output[instance][buf.currentSequenceId + j] BY <3>1 DEF BufferInv
        <3> QED BY <3>1, <3>2, <3>3
    <2>3. pagesAdded[instance] = buf'.currentSequenceId + Len(buf'.pages)
        BY <1>2, <1>4, <2>1 DEF BufferInv
    <2> QED BY <1>2, <1>4, <2>1, <2>2, <2>3 DEF BufferInv
<1> QED BY <1>3, <1>4

(* Destroying.                                                             *)
LEMMA DestroyKeepsBufferInv ==
    ASSUME TypeOK, BufferInv, buf' = Destroy(buf),
           UNCHANGED <<instance, driver, produced, pagesAdded>>
    PROVE  BufferInv'
<1>1. IsBuffer(buf) BY DEF TypeOK, IsBuffer
<1>2. /\ buf'.destroyed /\ buf'.noMorePages /\ buf'.pages = << >> /\ Len(buf'.pages) = 0
      /\ buf'.currentSequenceId = buf.currentSequenceId
    BY <1>1, DestroyFacts
<1> QED BY <1>2 DEF BufferInv

(* Steps that leave the contents of the buffer alone.                      *)
LEMMA SameContentsKeepsBufferInv ==
    ASSUME BufferInv, UNCHANGED <<instance, driver, bufferState, produced, pagesAdded>>,
           buf'.pages = buf.pages, buf'.currentSequenceId = buf.currentSequenceId,
           buf'.noMorePages = buf.noMorePages, buf'.destroyed = buf.destroyed
    PROVE  BufferInv'
    BY DEF BufferInv

(* The next page of the output goes behind the ones in the buffer.         *)
LEMMA EnqueueKeepsBufferInv ==
    ASSUME TypeOK, BufferInv, EnqueuePage
    PROVE  BufferInv'
<1> DEFINE page == Output[instance][produced + 1]
<1>1. /\ IsBuffer(buf) /\ instance \in Instance /\ instance \in Int
      /\ Output[instance] \in Seq(Page) /\ Len(Output[instance]) \in Nat
      /\ produced \in Nat /\ produced < Len(Output[instance])
      /\ pagesAdded \in [Instance -> Nat]
    BY OutputAssumption DEF EnqueuePage, TypeOK, IsBuffer, Instance
<1>2. page \in Page BY <1>1
<1>3. /\ buf' = EnqueuePages(buf, <<page>>)
      /\ produced' = produced + 1 /\ driver' = "running"
      /\ UNCHANGED <<instance, bufferState>>
      /\ driver = "admitted"
    BY DEF EnqueuePage
<1>4. /\ buf.pages \in Seq(Page) /\ Len(buf.pages) \in Nat /\ buf.currentSequenceId \in Nat
      /\ pagesAdded[instance] \in Nat
    BY <1>1 DEF IsBuffer, Buffer
<1> HIDE DEF page
<1>5. CASE buf.noMorePages
    <2>1. buf' = buf /\ pagesAdded' = pagesAdded
        BY <1>1, <1>2, <1>3, <1>5, EnqueueFacts DEF EnqueuePage
    <2>2. instance' = instance /\ driver' # "admitted" /\ buf'.noMorePages BY <1>3, <1>5, <2>1
    <2>3. pagesAdded[instance] <= produced' BY <1>1, <1>3, <1>4 DEF BufferInv
    <2> QED BY <2>1, <2>2, <2>3 DEF BufferInv
<1>6. CASE ~buf.noMorePages
    <2>1. /\ ~buf.destroyed /\ pagesAdded[instance] = produced
          /\ produced = buf.currentSequenceId + Len(buf.pages)
        BY <1>3, <1>6 DEF BufferInv
    <2>2. /\ buf'.pages = Append(buf.pages, page)
          /\ buf'.currentSequenceId = buf.currentSequenceId
          /\ buf'.noMorePages = buf.noMorePages /\ buf'.destroyed = buf.destroyed
        BY <1>1, <1>2, <1>3, <1>6, EnqueueFacts
    <2>3. /\ Len(buf'.pages) = Len(buf.pages) + 1
          /\ \A i \in 1 .. Len(buf.pages) : buf'.pages[i] = buf.pages[i]
          /\ buf'.pages[Len(buf.pages) + 1] = page
        BY <1>2, <1>4, <2>2
    <2>4. pagesAdded' = [pagesAdded EXCEPT ![instance] = @ + 1] BY <1>6 DEF EnqueuePage
    <2>5. ASSUME NEW i \in 1 .. Len(buf'.pages)
          PROVE  buf'.pages[i] = Output[instance][buf.currentSequenceId + i]
        <3>1. CASE i \in 1 .. Len(buf.pages) BY <2>3, <3>1 DEF BufferInv
        <3>2. CASE i = Len(buf.pages) + 1
            <4>1. buf.currentSequenceId + i = produced + 1 BY <1>1, <1>4, <2>1, <3>2
            <4> QED BY <2>3, <3>2, <4>1 DEF page
        <3> QED BY <1>4, <2>3, <3>1, <3>2
    <2>6. /\ pagesAdded'[instance] = pagesAdded[instance] + 1
          /\ \A k \in Instance : k # instance => pagesAdded'[k] = pagesAdded[k]
        BY <1>1, <2>4
    <2>7. \A k \in Instance : /\ pagesAdded'[k] <= Len(Output[k])
                              /\ k > instance => pagesAdded'[k] = 0
        <3> TAKE k \in Instance
        <3>1. CASE k = instance BY <1>1, <1>4, <2>1, <2>6, <3>1
        <3>2. CASE k # instance BY <2>6, <3>2 DEF BufferInv
        <3> QED BY <3>1, <3>2
    <2>8. pagesAdded'[instance] = produced' /\ produced' \in Nat BY <1>1, <1>3, <2>1, <2>6
    <2>9. pagesAdded'[instance] = buf'.currentSequenceId + Len(buf'.pages)
        BY <1>1, <1>4, <2>1, <2>2, <2>3, <2>6
    <2>10. instance' = instance /\ ~buf'.destroyed BY <1>3, <2>1, <2>2
    <2>11. \A i \in 1 .. Len(buf'.pages) :
              buf'.pages[i] = Output[instance'][buf'.currentSequenceId + i]
        BY <2>2, <2>5, <2>10
    <2>12. /\ buf'.currentSequenceId <= pagesAdded'[instance']
           /\ pagesAdded'[instance'] <= produced'
        BY <1>1, <1>4, <2>1, <2>2, <2>6, <2>8, <2>10
    <2> QED BY <2>7, <2>8, <2>9, <2>10, <2>11, <2>12 DEF BufferInv
<1> QED BY <1>5, <1>6

LEMMA WorkerKeepsBufferInv ==
    ASSUME TypeOK, BufferInv,
           Drivers \/ CancelTask \/ FailTask \/ FinishTask \/ CleanUpBuffer \/ RecreateTask
    PROVE  BufferInv'
<1>0. /\ IsBuffer(buf) /\ instance \in Instance /\ produced \in Nat
      /\ pagesAdded[instance] \in Nat /\ Len(Output[instance]) \in Nat
    BY OutputAssumption DEF TypeOK, IsBuffer
<1>1. CASE AdmitPage
    <2>1. UNCHANGED <<instance, bufferState, buf, pagesAdded>> BY <1>1 DEF AdmitPage
    <2>2. \/ driver' = "admitted" /\ produced' = produced /\ bufferState = "NO_MORE_BUFFERS"
          \/ driver' = "running" /\ produced' = produced + 1 /\ bufferState # "NO_MORE_BUFFERS"
        BY <1>1 DEF AdmitPage
    <2> QED BY <1>0, <2>1, <2>2 DEF BufferInv
<1>2. CASE EnqueuePage BY <1>2, EnqueueKeepsBufferInv
<1>3. CASE CheckTaskCompletion BY <1>3 DEF CheckTaskCompletion, BufferInv
<1>4. CASE NoMorePages
    <2>1. /\ buf'.pages = buf.pages /\ buf'.currentSequenceId = buf.currentSequenceId
          /\ buf'.noMorePages /\ buf'.destroyed = buf.destroyed
        BY <1>0, <1>4, NoMoreFacts DEF NoMorePages
    <2>2. UNCHANGED <<instance, produced, pagesAdded>> BY <1>4 DEF NoMorePages
    <2> QED BY <2>1, <2>2 DEF BufferInv
<1>5. CASE CancelTask \/ FailTask \/ FinishTask
    BY <1>5, SameContentsKeepsBufferInv DEF CancelTask, FailTask, FinishTask
<1>6. CASE CleanUpBuffer
    <2>1. UNCHANGED <<instance, driver, produced, pagesAdded>> BY <1>6 DEF CleanUpBuffer
    <2>2. \/ buf' = Destroy(buf)
          \/ buf' = buf /\ bufferState' = "ABORTED"
        BY <1>6 DEF CleanUpBuffer
    <2>3. CASE buf' = Destroy(buf) BY <2>1, <2>3, DestroyKeepsBufferInv
    <2>4. CASE buf' = buf /\ bufferState' = "ABORTED" BY <2>1, <2>4 DEF BufferInv
    <2> QED BY <2>2, <2>3, <2>4
<1>7. CASE RecreateTask
    <2>1. /\ buf' = NewBuffer /\ instance' = instance + 1 /\ produced' = 0
          /\ driver' = "running" /\ pagesAdded' = pagesAdded /\ instance < MaxInstance
        BY <1>7 DEF RecreateTask, MayRecreate
    <2>2. /\ ~buf'.destroyed /\ buf'.pages = << >> /\ Len(buf'.pages) = 0
          /\ buf'.currentSequenceId = 0 /\ ~buf'.noMorePages
        BY <2>1 DEF NewBuffer
    <2>3. instance' \in Instance /\ instance' > instance
        BY <1>0, <2>1, MaxInstanceAssumption DEF Instance
    <2>4. pagesAdded[instance'] = 0 BY <2>3 DEF BufferInv
    <2>5. \A k \in Instance : k > instance' => k > instance
        BY <1>0, <2>1, MaxInstanceAssumption DEF Instance
    <2> QED BY <2>1, <2>2, <2>3, <2>4, <2>5 DEF BufferInv
<1> QED BY <1>1, <1>2, <1>3, <1>4, <1>5, <1>6, <1>7 DEF Drivers

LEMMA ServeKeepsBufferInv ==
    ASSUME TypeOK, BufferInv, NEW r \in Read, Serve(r)
    PROVE  BufferInv'
<1>0. IsBuffer(buf) /\ request[r].token \in Nat
    BY DEF TypeOK, IsBuffer, Request
<1>1. CASE ReceiveGet(r)
    <2>1. UNCHANGED <<instance, bufferState, driver, produced, pagesAdded>>
        BY <1>1 DEF ReceiveGet
    <2>2. CASE InvalidAcknowledge(buf, request[r].token)
        BY <1>1, <2>1, <2>2, SameContentsKeepsBufferInv DEF ReceiveGet
    <2>3. CASE ~InvalidAcknowledge(buf, request[r].token)
        BY <1>0, <1>1, <2>1, <2>3, AcknowledgeKeepsBufferInv DEF ReceiveGet
    <2> QED BY <2>2, <2>3
<1>2. CASE ReadPages(r)
    <2>1. UNCHANGED <<instance, bufferState, driver, produced, pagesAdded>>
        BY <1>2 DEF ReadPages
    <2>2. /\ buf'.pages = buf.pages /\ buf'.currentSequenceId = buf.currentSequenceId
          /\ buf'.noMorePages = buf.noMorePages /\ buf'.destroyed = buf.destroyed
        BY <1>0, <1>2 DEF ReadPages, GetPages, IsBuffer, Buffer
    <2> QED BY <2>1, <2>2, SameContentsKeepsBufferInv
<1>3. CASE ProcessTakenRead(r) \/ CompleteWithEmpty(r)
    BY <1>3, SameContentsKeepsBufferInv DEF ProcessTakenRead, CompleteWithEmpty, worker
<1>4. CASE TimeOutRead(r)
    <2>1. UNCHANGED <<instance, bufferState, driver, produced, pagesAdded>>
        BY <1>4 DEF TimeOutRead
    <2>2. /\ buf'.pages = buf.pages /\ buf'.currentSequenceId = buf.currentSequenceId
          /\ buf'.noMorePages = buf.noMorePages /\ buf'.destroyed = buf.destroyed
        BY <1>0, <1>4 DEF TimeOutRead, IsBuffer, Buffer
    <2> QED BY <2>1, <2>2, SameContentsKeepsBufferInv
<1>5. CASE ReceiveDelete(r)
    BY <1>5, DestroyKeepsBufferInv DEF ReceiveDelete
<1> QED BY <1>1, <1>2, <1>3, <1>4, <1>5 DEF Serve

-----------------------------------------------------------------------------
(* Requests, acknowledgements and the buffer do not get ahead of the token. *)

LEMMA RequestInit == Init => RequestInv
<1> SUFFICES ASSUME Init PROVE RequestInv OBVIOUS
<1>1. buf.currentSequenceId = 0 /\ buf.pendingRead = NoRead /\ token = 0 /\ acks = {}
    BY DEF Init, NewBuffer
<1>2. ASSUME NEW r \in Read PROVE RequestOK(r)
    <2>1. /\ request[r] = NoRequest /\ sstage[r] = "idle" /\ cstage[r] = "idle"
          /\ response[r] = NoResponse
        BY DEF Init
    <2>2. request[r].token = 0 /\ response[r].kind = "none"
        BY <2>1 DEF NoRequest, NoResponse, Response
    <2> QED BY <1>1, <2>1, <2>2, NoReadAssumption DEF RequestOK
<1> QED BY <1>1, <1>2 DEF RequestInv

(* The steps that hand the pending read to the thread that took it.        *)
LEMMA TakeKeepsRequestInv ==
    ASSUME TypeOK, RequestInv, NEW stage \in {"taken", "evicted"}, TakePendingRead(stage),
           UNCHANGED <<token, acks, request, response, cstage>>,
           buf'.currentSequenceId = buf.currentSequenceId,
           buf.destroyed => buf'.destroyed,
           buf'.pendingRead \in {buf.pendingRead, NoRead}
    PROVE  RequestInv'
<1>1. ASSUME NEW r \in Read PROVE RequestOK(r)'
    <2>1. sstage'[r] = IF r = buf.pendingRead /\ buf'.pendingRead = NoRead THEN stage ELSE sstage[r]
        BY DEF TakePendingRead
    <2>2. RequestOK(r) BY DEF RequestInv
    <2> QED BY <2>1, <2>2, NoReadAssumption DEF RequestOK
<1> QED BY <1>1 DEF RequestInv

LEMMA WorkerKeepsRequestInv ==
    ASSUME TypeOK, RequestInv,
           Drivers \/ CancelTask \/ FailTask \/ FinishTask \/ CleanUpBuffer \/ RecreateTask
    PROVE  RequestInv'
<1>0. /\ IsBuffer(buf) /\ token \in Nat
    BY DEF TypeOK, IsBuffer
<1>1. CASE AdmitPage \/ CheckTaskCompletion \/ CancelTask \/ FailTask \/ FinishTask
    <2>1. UNCHANGED <<buf, wire, client>>
        BY <1>1 DEF AdmitPage, CheckTaskCompletion, CancelTask, FailTask, FinishTask
    <2> QED BY <2>1 DEF RequestInv, RequestOK, wire, client
<1>2. CASE EnqueuePage
    <2>1. Output[instance][produced + 1] \in Page
        BY <1>2, OutputAssumption DEF EnqueuePage, TypeOK
    <2>2. /\ buf'.currentSequenceId = buf.currentSequenceId /\ buf'.destroyed = buf.destroyed
          /\ buf'.pendingRead \in {buf.pendingRead, NoRead}
        BY <1>0, <1>2, <2>1, EnqueueFacts DEF EnqueuePage
    <2> QED BY ZenonT(30), <1>2, <2>2, TakeKeepsRequestInv DEF EnqueuePage, client
<1>3. CASE NoMorePages
    <2>1. /\ buf'.currentSequenceId = buf.currentSequenceId /\ buf'.destroyed = buf.destroyed
          /\ buf'.pendingRead \in {buf.pendingRead, NoRead}
        BY <1>0, <1>3, NoMoreFacts DEF NoMorePages
    <2> QED BY <1>3, <2>1, TakeKeepsRequestInv DEF NoMorePages, client
<1>4. CASE CleanUpBuffer
    <2>1. /\ buf'.currentSequenceId = buf.currentSequenceId
          /\ buf.destroyed => buf'.destroyed
          /\ buf'.pendingRead \in {buf.pendingRead, NoRead}
        BY <1>0, <1>4, DestroyFacts DEF CleanUpBuffer
    <2> QED BY <1>4, <2>1, TakeKeepsRequestInv DEF CleanUpBuffer, client
<1>5. CASE RecreateTask
    <2>1. buf'.currentSequenceId = 0 /\ buf'.pendingRead = NoRead
        BY <1>5 DEF RecreateTask, NewBuffer
    <2>2. UNCHANGED <<response, acks, token, cstage>> BY <1>5 DEF RecreateTask, client
    <2>3. ASSUME NEW r \in Read PROVE RequestOK(r)'
        <3>1. /\ sstage'[r] = IF sstage[r] \in {"sent", "respond"} THEN sstage[r] ELSE "idle"
              /\ request'[r] = IF sstage[r] = "sent" THEN request[r] ELSE NoRequest
            BY <1>5 DEF RecreateTask
        <3>2. RequestOK(r) /\ NoRequest.token = 0 BY DEF RequestInv, NoRequest
        <3> QED BY <1>0, <2>1, <2>2, <3>1, <3>2, NoReadAssumption DEF RequestOK
    <2> QED BY <1>0, <2>1, <2>2, <2>3 DEF RequestInv
<1> QED BY <1>1, <1>2, <1>3, <1>4, <1>5 DEF Drivers

(* What Respond does to a request, when the worker was still busy with it. *)
LEMMA RespondKeepsRequestOK ==
    ASSUME TypeOK, NEW r \in Read, RequestOK(r), NEW e, NEW f, NEW result,
           Respond(r, e, f, result), sstage'[r] = Answered(r), sstage[r] \notin {"idle", "respond"},
           UNCHANGED <<token, cstage>>, buf'.pendingRead # r
    PROVE  RequestOK(r)'
<1>1. request'[r] = NoRequest /\ request'[r].token = 0 /\ token \in Nat
    BY DEF Respond, TypeOK, NoRequest
<1>2. CASE cstage[r] = "waiting"
    BY <1>1, <1>2 DEF RequestOK, Answered
<1>3. CASE cstage[r] # "waiting"
    <2>1. response' = response /\ sstage'[r] = "idle" BY <1>3 DEF Respond, Answered
    <2> QED BY <1>1, <1>3, <2>1 DEF RequestOK
<1> QED BY <1>2, <1>3

(* A request that a step does not touch, in a buffer that only moves on.   *)
LEMMA OtherKeepsRequestOK ==
    ASSUME TypeOK, TypeOK', NEW x \in Read, RequestOK(x),
           request'[x] = request[x], response'[x] = response[x], cstage'[x] = cstage[x],
           sstage'[x] = sstage[x] \/ (sstage[x] = "pending" /\ sstage'[x] = "evicted"),
           token' >= token,
           buf'.currentSequenceId >= buf.currentSequenceId,
           buf.destroyed => buf'.destroyed,
           buf'.pendingRead = x => buf.pendingRead = x /\ sstage'[x] = sstage[x]
    PROVE  RequestOK(x)'
<1>1. /\ token \in Nat /\ token' \in Nat /\ request[x].token \in Nat
      /\ buf.currentSequenceId \in Nat /\ buf'.currentSequenceId \in Nat
    BY DEF TypeOK, Request, Buffer
<1> QED BY <1>1 DEF RequestOK

LEMMA ServeKeepsRequestInv ==
    ASSUME TypeOK, TypeOK', RequestInv, NEW r \in Read, Serve(r)
    PROVE  RequestInv'
<1> USE DEF client
<1>0. /\ IsBuffer(buf) /\ request[r].token \in Nat /\ token \in Nat
      /\ buf.currentSequenceId \in Nat
      /\ request \in [Read -> Request] /\ sstage \in [Read -> ServerStage]
      /\ response \in [Read -> ResponseType]
      /\ \A x \in Read : RequestOK(x)
    BY ZenonT(30) DEF TypeOK, IsBuffer, Buffer, Request, RequestInv
<1>1. CASE ReceiveGet(r)
    <2>1. UNCHANGED <<token, acks, cstage>> /\ sstage[r] = "sent" BY <1>1 DEF ReceiveGet
    <2>2. CASE InvalidAcknowledge(buf, request[r].token)
        <3>1. /\ Respond(r, TRUE, FALSE, EmptyResults(request[r].token, FALSE))
              /\ sstage' = [sstage EXCEPT ![r] = Answered(r)] /\ buf' = buf
            BY ZenonT(30), <1>1, <2>2 DEF ReceiveGet
        <3>2. RequestOK(r)'
            BY ZenonT(30), <1>0, <2>1, <3>1, RespondKeepsRequestOK DEF RequestOK
        <3>3. \A x \in Read \ {r} : RequestOK(x)'
            BY <1>0, <2>1, <3>1 DEF RequestOK, Respond
        <3> QED BY <2>1, <3>1, <3>2, <3>3 DEF RequestInv
    <2>3. CASE ~InvalidAcknowledge(buf, request[r].token)
        <3>1. /\ buf' = AcknowledgePages(buf, request[r].token)
              /\ request' = [request EXCEPT ![r].taskFailed = (taskState = "FAILED")]
              /\ sstage' = [sstage EXCEPT ![r] = "acked"]
              /\ response' = response
            BY <1>1, <2>3 DEF ReceiveGet
        <3>2. /\ buf'.destroyed = buf.destroyed /\ buf'.pendingRead = buf.pendingRead
              /\ buf'.currentSequenceId >= buf.currentSequenceId
              /\ buf'.currentSequenceId \in {buf.currentSequenceId, request[r].token}
              /\ ~buf.destroyed => buf'.currentSequenceId >= request[r].token
            BY <1>0, <2>3, <3>1, AcknowledgeFacts
        <3>3. request'[r].token = request[r].token /\ sstage'[r] = "acked"
            BY <1>0, <3>1 DEF Request
        <3>4. RequestOK(r)' BY <1>0, <2>1, <3>1, <3>2, <3>3 DEF RequestOK
        <3>5. \A x \in Read \ {r} : RequestOK(x)'
            <4>1. \A x \in Read \ {r} : request'[x] = request[x] /\ sstage'[x] = sstage[x]
                BY <1>0, <3>1
            <4> QED BY <1>0, <2>1, <3>1, <3>2, <4>1, OtherKeepsRequestOK
        <3>6. buf'.currentSequenceId <= token BY <1>0, <3>2 DEF RequestInv, RequestOK
        <3> QED BY <2>1, <3>4, <3>5, <3>6 DEF RequestInv
    <2> QED BY <2>2, <2>3
<1>2. CASE ReadPages(r)
    <2> DEFINE now == CanReadNow(buf, request[r].token)
    <2>1. /\ UNCHANGED <<token, acks, cstage>> /\ sstage[r] = "acked"
          /\ buf' = GetPages(buf, request[r].token, r)
        BY ZenonT(30), <1>2 DEF ReadPages
    <2>2. /\ buf'.currentSequenceId = buf.currentSequenceId /\ buf'.destroyed = buf.destroyed
          /\ buf'.pendingRead = IF now THEN NoRead ELSE r
        BY <1>0, <2>1 DEF GetPages, IsBuffer, Buffer
    <2>3. ASSUME NEW x \in Read, x # r PROVE RequestOK(x)'
        <3>1. sstage'[x] = IF x = buf.pendingRead THEN "evicted" ELSE sstage[x]
            BY ZenonT(30), <1>2, <2>3 DEF ReadPages
        <3>2. request'[x] = request[x] /\ response'[x] = response[x]
            BY ZenonT(30), <1>0, <1>2, <2>3 DEF ReadPages, RespondRead, Respond
        <3>3. RequestOK(x) /\ buf'.pendingRead # x BY ZenonT(30), <1>0, <2>2, <2>3, NoReadAssumption
        <3> QED BY ZenonT(30), <1>0, <2>1, <2>2, <3>1, <3>2, <3>3 DEF RequestOK
    <2>4. RequestOK(r)'
        <3>1. CASE now
            <4>1. sstage'[r] = Answered(r) /\ RespondRead(r) BY ZenonT(30), <1>2, <3>1 DEF ReadPages
            <4>2. buf'.pendingRead # r BY <2>2, <3>1, NoReadAssumption
            <4> QED BY <1>0, <2>1, <4>1, <4>2, RespondKeepsRequestOK DEF RespondRead
        <3>2. CASE ~now
            <4>1. sstage'[r] = "pending" /\ UNCHANGED <<request, response>>
                BY <1>2, <3>2 DEF ReadPages
            <4> QED BY <1>0, <2>1, <2>2, <4>1 DEF RequestOK
        <3> QED BY <3>1, <3>2
    <2> QED BY <2>1, <2>2, <2>3, <2>4 DEF RequestInv
<1>3. CASE ProcessTakenRead(r) \/ CompleteWithEmpty(r)
    <2>1. /\ UNCHANGED <<buf, token, acks, cstage>> /\ sstage[r] \in {"taken", "evicted"}
          /\ sstage' = [sstage EXCEPT ![r] = Answered(r)]
          /\ RespondRead(r) \/ RespondEmpty(r)
        BY <1>3 DEF ProcessTakenRead, CompleteWithEmpty, worker
    <2>2. buf'.pendingRead # r /\ sstage'[r] = Answered(r) BY <1>0, <2>1 DEF RequestOK
    <2>3. RequestOK(r)'
        BY ZenonT(30), <1>0, <2>1, <2>2, RespondKeepsRequestOK DEF RespondRead, RespondEmpty
    <2>4. \A x \in Read \ {r} : RequestOK(x)'
        BY ZenonT(30), <1>0, <2>1 DEF RequestOK, RespondRead, RespondEmpty, Respond
    <2> QED BY <2>1, <2>3, <2>4 DEF RequestInv
<1>4. CASE TimeOutRead(r)
    <2>1. /\ UNCHANGED <<token, acks, cstage>> /\ sstage[r] \in {"pending", "taken", "evicted"}
          /\ sstage' = [sstage EXCEPT ![r] = Answered(r)]
          /\ RespondEmpty(r)
        BY <1>4 DEF TimeOutRead
    <2>2. /\ buf'.currentSequenceId = buf.currentSequenceId /\ buf'.destroyed = buf.destroyed
          /\ buf'.pendingRead = IF buf.pendingRead = r THEN NoRead ELSE buf.pendingRead
        BY <1>0, <1>4 DEF TimeOutRead, IsBuffer, Buffer
    <2>3. buf'.pendingRead # r /\ sstage'[r] = Answered(r) BY <1>0, <2>1, <2>2, NoReadAssumption
    <2>4. RequestOK(r)' BY ZenonT(30), <1>0, <2>1, <2>3, RespondKeepsRequestOK DEF RespondEmpty
    <2>5. \A x \in Read \ {r} : RequestOK(x)'
        BY <1>0, <2>1, <2>2, NoReadAssumption DEF RequestOK, RespondEmpty, Respond
    <2> QED BY <2>1, <2>2, <2>4, <2>5 DEF RequestInv
<1>5. CASE ReceiveDelete(r)
    <2>1. /\ UNCHANGED <<token, acks, cstage>> /\ sstage[r] = "sent"
          /\ Respond(r, FALSE, FALSE, EmptyResults(0, FALSE))
          /\ buf' = Destroy(buf)
        BY ZenonT(30), <1>5 DEF ReceiveDelete
    <2>2. /\ buf'.currentSequenceId = buf.currentSequenceId /\ buf'.destroyed
          /\ buf'.pendingRead = NoRead
        BY <1>0, <2>1, DestroyFacts
    <2>3. sstage'[r] = Answered(r) /\ buf'.pendingRead # r
        BY ZenonT(30), <1>5, <2>2, NoReadAssumption DEF ReceiveDelete
    <2>4. RequestOK(r)' BY ZenonT(30), <1>0, <2>1, <2>3, RespondKeepsRequestOK
    <2>5. ASSUME NEW x \in Read, x # r PROVE RequestOK(x)'
        <3>1. sstage'[x] = IF x = buf.pendingRead THEN "evicted" ELSE sstage[x]
            BY ZenonT(30), <1>5, <2>5 DEF ReceiveDelete
        <3>2. request'[x] = request[x] /\ response'[x] = response[x]
            BY <1>0, <2>1, <2>5 DEF Respond
        <3> QED BY ZenonT(30), <1>0, <2>1, <2>2, <3>1, <3>2, NoReadAssumption DEF RequestOK
    <2> QED BY <2>1, <2>2, <2>4, <2>5 DEF RequestInv
<1> QED BY <1>1, <1>2, <1>3, <1>4, <1>5 DEF Serve

LEMMA ReceiveAckKeepsRequestInv ==
    ASSUME TypeOK, TypeOK', RequestInv, NEW t \in acks, ReceiveAck(t)
    PROVE  RequestInv'
<1>0. /\ IsBuffer(buf) /\ t \in Nat /\ token \in Nat /\ t <= token
      /\ buf.currentSequenceId \in Nat /\ buf.currentSequenceId <= token
    BY DEF TypeOK, IsBuffer, Buffer, RequestInv
<1>1. UNCHANGED <<request, sstage, response, token, cstage>> /\ acks' \subseteq acks
    BY DEF ReceiveAck, client
<1>2. /\ buf'.destroyed = buf.destroyed /\ buf'.pendingRead = buf.pendingRead
      /\ buf'.currentSequenceId >= buf.currentSequenceId
      /\ buf'.currentSequenceId <= token
    BY <1>0, AcknowledgeFacts DEF ReceiveAck
<1>3. \A x \in Read : RequestOK(x)'
    <2> TAKE x \in Read
    <2>1. RequestOK(x) BY DEF RequestInv
    <2>2. token' >= token BY <1>0, <1>1
    <2> QED BY ZenonT(30), <1>1, <1>2, <2>1, <2>2, OtherKeepsRequestOK
<1> QED BY <1>1, <1>2, <1>3 DEF RequestInv

LEMMA NetworkKeepsRequestInv ==
    ASSUME TypeOK, RequestInv, NEW r \in Read, LoseRequest(r) \/ Deliver(r) \/ FailRequest(r)
    PROVE  RequestInv'
<1>0. /\ request \in [Read -> Request] /\ sstage \in [Read -> ServerStage]
      /\ response \in [Read -> ResponseType] /\ cstage \in [Read -> ClientStage]
      /\ token \in Nat /\ NoRequest.token = 0 /\ NoResponse.kind = "none"
      /\ \A x \in Read : RequestOK(x)
    BY DEF TypeOK, RequestInv, NoRequest, NoResponse, Response
<1>1. UNCHANGED <<buf, acks, token>>
    BY DEF LoseRequest, Deliver, FailRequest, worker, client
<1>2. \A x \in Read \ {r} : RequestOK(x)'
    <2>1. \A x \in Read \ {r} : /\ request'[x] = request[x] /\ sstage'[x] = sstage[x]
                                /\ response'[x] = response[x] /\ cstage'[x] = cstage[x]
        BY <1>0 DEF LoseRequest, Deliver, FailRequest, client
    <2> QED BY <1>0, <1>1, <2>1 DEF RequestOK
<1>3. RequestOK(r)'
    <2>1. CASE LoseRequest(r)
        <3>1. /\ sstage[r] = "sent" /\ sstage'[r] = "idle" /\ request'[r] = NoRequest
              /\ response'[r] = response[r] /\ cstage'[r] = cstage[r]
            BY <1>0, <2>1 DEF LoseRequest, client
        <3> QED BY <1>0, <1>1, <3>1 DEF RequestOK
    <2>2. CASE Deliver(r)
        <3>1. /\ sstage[r] = "respond" /\ sstage'[r] = "idle" /\ request'[r] = request[r]
              /\ response'[r] = response[r]
              /\ cstage'[r] = IF response[r].error THEN "rejected" ELSE "delivered"
            BY <1>0, <2>2 DEF Deliver
        <3> QED BY ZenonT(30), <1>0, <1>1, <3>1 DEF RequestOK
    <2>3. CASE FailRequest(r)
        <3>1. /\ sstage'[r] = IF sstage[r] = "respond" THEN "idle" ELSE sstage[r]
              /\ request'[r] = request[r] /\ response'[r] = NoResponse
              /\ cstage'[r] \in {"failed", "rejected"}
            BY <1>0, <2>3 DEF FailRequest
        <3> QED BY ZenonT(30), <1>0, <1>1, <3>1 DEF RequestOK
    <2> QED BY <2>1, <2>2, <2>3
<1> QED BY <1>1, <1>2, <1>3 DEF RequestInv

(* A callback that returns, and close().                                   *)
LEMMA ReturnKeepsRequestInv ==
    ASSUME TypeOK, RequestInv, NEW r \in Read, cstage[r] # "waiting", Return(r),
           UNCHANGED <<buf, token, acks>>
    PROVE  RequestInv'
<1>0. /\ response \in [Read -> ResponseType] /\ cstage \in [Read -> ClientStage]
      /\ NoResponse.kind = "none" /\ \A x \in Read : RequestOK(x)
    BY DEF TypeOK, RequestInv, NoResponse, Response
<1>1. ASSUME NEW x \in Read PROVE RequestOK(x)'
    BY ZenonT(30), <1>0 DEF Return, RequestOK
<1> QED BY <1>1 DEF RequestInv

(* What close() leaves of every request.                                   *)
LEMMA CloseClientFacts ==
    ASSUME TypeOK, RequestInv, NEW returning \in Read \cup {NoRead}, CloseClient(returning),
           returning \in Read => cstage[returning] # "waiting",
           NEW x \in Read
    PROVE  \/ /\ ~closed /\ sstage[x] = "idle" /\ (cstage[x] = "idle" \/ x = returning)
              /\ request'[x] = [kind |-> "DELETE", token |-> 0, taskFailed |-> FALSE]
              /\ sstage'[x] = "sent" /\ cstage'[x] = "waiting" /\ response'[x].kind = "none"
           \/ /\ request'[x] = request[x]
              /\ \/ x # returning /\ UNCHANGED <<sstage[x], cstage[x], response[x]>>
                 \/ /\ x = returning /\ sstage'[x] = sstage[x] /\ sstage[x] # "respond"
                    /\ cstage'[x] = "idle" /\ response'[x] = NoResponse
                 \/ /\ x # returning /\ cstage[x] = "waiting" /\ cstage'[x] = "failed"
                    /\ sstage'[x] = IF sstage[x] = "respond" THEN "idle" ELSE sstage[x]
                    /\ response'[x] = NoResponse
<1> DEFINE cancelled == x = future /\ x # returning /\ cstage[x] = "waiting"
           after == IF x = returning THEN "idle" ELSE IF cancelled THEN "failed" ELSE cstage[x]
           unanswered == IF cancelled /\ sstage[x] = "respond" THEN "idle" ELSE sstage[x]
<1>0. RequestOK(x) /\ NoResponse.kind = "none" /\ request \in [Read -> Request]
    BY DEF RequestInv, NoResponse, Response, TypeOK
<1>1. response'[x] = IF x = returning \/ cancelled THEN NoResponse ELSE response[x]
    BY ZenonT(30) DEF CloseClient
<1>2. CASE closed
    <2>1. request' = request /\ sstage'[x] = unanswered /\ cstage'[x] = after
        BY ZenonT(30), <1>2 DEF CloseClient
    <2> QED BY ZenonT(30), <1>0, <1>1, <2>1 DEF RequestOK
<1>3. CASE ~closed
    <2>1. PICK d \in Read :
              /\ Available(d, returning) /\ Send(d, "DELETE")
              /\ sstage'[x] = IF x = d THEN "sent" ELSE unanswered
              /\ cstage'[x] = IF x = d THEN "waiting" ELSE after
        BY ZenonT(30), <1>3 DEF CloseClient
    <2>2. CASE x = d
        <3>1. sstage[x] = "idle" /\ (cstage[x] = "idle" \/ x = returning)
            BY ZenonT(30), <2>1, <2>2 DEF Available
        <3>2. response'[x].kind = "none" BY <1>0, <1>1, <3>1 DEF RequestOK
        <3>3. request'[x] = [kind |-> "DELETE", token |-> 0, taskFailed |-> FALSE]
            BY <1>0, <2>1, <2>2 DEF Send
        <3> QED BY ZenonT(30), <1>3, <2>1, <2>2, <3>1, <3>2, <3>3
    <2>3. CASE x # d
        <3>1. request'[x] = request[x] BY ZenonT(30), <1>0, <2>1, <2>3 DEF Send
        <3> QED BY ZenonT(30), <1>0, <1>1, <2>1, <2>3, <3>1 DEF RequestOK
    <2> QED BY ZenonT(30), <2>2, <2>3
<1> QED BY ZenonT(30), <1>2, <1>3

LEMMA CloseKeepsRequestInv ==
    ASSUME TypeOK, RequestInv, NEW returning \in Read \cup {NoRead}, CloseClient(returning),
           returning \in Read => cstage[returning] # "waiting",
           UNCHANGED <<buf, token, acks>>
    PROVE  RequestInv'
<1>1. ASSUME NEW x \in Read PROVE RequestOK(x)'
    <2>1. RequestOK(x) /\ NoResponse.kind = "none" /\ token \in Nat
        BY DEF RequestInv, NoResponse, Response, TypeOK
    <2> QED BY <2>1, CloseClientFacts DEF RequestOK
<1> QED BY <1>1 DEF RequestInv

LEMMA HandleFailureKeepsRequestInv ==
    ASSUME TypeOK, RequestInv, NEW r \in Read, NEW fatal \in BOOLEAN,
           cstage[r] # "waiting", HandleFailure(r, fatal)
    PROVE  RequestInv'
<1>1. UNCHANGED <<buf, token, acks>> BY DEF HandleFailure, worker
<1>2. CloseClient(r) \/ Return(r) BY DEF HandleFailure
<1> QED BY <1>1, <1>2, CloseKeepsRequestInv, ReturnKeepsRequestInv

(* What AcceptResponse does to a response that counts.                     *)
LEMMA AcceptFacts ==
    ASSUME TypeOK, RequestInv, ResponseInv, NEW r \in Read, AcceptResponse(r),
           ~(response[r].taskFailed \/ InstanceMismatch(r))
    PROVE  LET k == response[r].instance
               result == response[r].result IN
           /\ k \in 1 .. instance
           /\ taskInstanceId \in {NoInstance, k} /\ taskInstanceId' = k
           /\ result.token \in Nat /\ result.nextToken \in Nat
           /\ result.pages \in Seq(Page) /\ Len(result.pages) \in Nat
           /\ result.nextToken = result.token + Len(result.pages)
           /\ result.pages # << >> => result.nextToken <= pagesAdded[k]
           /\ \A i \in 1 .. Len(result.pages) : result.pages[i] = Output[k][result.token + i]
           /\ cstage' = [cstage EXCEPT ![r] = "accepted"]
           /\ \/ /\ result.token = token /\ token' = result.nextToken /\ response' = response
                 /\ acks' \subseteq acks \cup {result.nextToken}
              \/ /\ result.token # token /\ token' = token /\ acks' = acks
                 /\ response' = [response EXCEPT ![r].result.pages = << >>]
           /\ UNCHANGED <<worker, request, sstage, closed, future, exchange>>
<1>1. /\ response[r] \in ResponseType /\ response[r].kind = "GET" /\ cstage[r] = "delivered"
      /\ ~response[r].error
    BY DEF TypeOK, AcceptResponse, RequestInv, RequestOK
<1>2. /\ response[r].result.token \in Nat /\ response[r].result.nextToken \in Nat
      /\ response[r].result.pages \in Seq(Page) /\ Len(response[r].result.pages) \in Nat
    BY <1>1 DEF ResponseType, ResultType
<1>3. /\ response[r].instance \in 1 .. instance
      /\ response[r].result.nextToken = response[r].result.token + Len(response[r].result.pages)
      /\ response[r].result.pages # << >> => response[r].result.nextToken <= pagesAdded[response[r].instance]
      /\ \A i \in 1 .. Len(response[r].result.pages) :
            response[r].result.pages[i] = Output[response[r].instance][response[r].result.token + i]
    BY ZenonT(30), <1>1 DEF ResponseInv
<1>4. taskInstanceId \in {NoInstance, response[r].instance} BY DEF InstanceMismatch
<1>5. /\ taskInstanceId' = response[r].instance
      /\ cstage' = [cstage EXCEPT ![r] = "accepted"]
      /\ \/ /\ response[r].result.token = token /\ token' = response[r].result.nextToken
            /\ response' = response /\ acks' \subseteq acks \cup {response[r].result.nextToken}
         \/ /\ response[r].result.token # token /\ token' = token /\ acks' = acks
            /\ response' = [response EXCEPT ![r].result.pages = << >>]
      /\ UNCHANGED <<worker, request, sstage, closed, future, exchange>>
    BY DEF AcceptResponse
<1> QED BY <1>2, <1>3, <1>4, <1>5

LEMMA CallbackKeepsRequestInv ==
    ASSUME TypeOK, TypeOK', RequestInv, ResponseInv, NEW r \in Read, Callback(r)
    PROVE  RequestInv'
<1>0. /\ response \in [Read -> ResponseType] /\ cstage \in [Read -> ClientStage]
      /\ response[r] \in ResponseType
      /\ NoResponse.kind = "none" /\ \A x \in Read : RequestOK(x)
      /\ token \in Nat /\ token' \in Nat /\ acks \subseteq Nat
      /\ buf.currentSequenceId \in Nat
    BY ZenonT(30) DEF TypeOK, RequestInv, NoResponse, Response, Buffer
<1>1. CASE OnFailure(r) BY ZenonT(30), <1>1, HandleFailureKeepsRequestInv DEF OnFailure
<1>2. CASE AcceptResponse(r)
    <2>1. CASE response[r].taskFailed \/ InstanceMismatch(r)
        BY ZenonT(30), <1>2, <2>1, HandleFailureKeepsRequestInv DEF AcceptResponse
    <2>2. CASE ~(response[r].taskFailed \/ InstanceMismatch(r))
        <3>1. /\ cstage[r] = "delivered" /\ cstage'[r] = "accepted"
              /\ \A x \in Read \ {r} : cstage'[x] = cstage[x] /\ response'[x] = response[x]
              /\ UNCHANGED <<buf, request, sstage>>
            BY <1>0, <1>2, <2>2, AcceptFacts DEF worker, AcceptResponse
        <3>2. token' >= token /\ \A t \in acks' : t \in acks \/ t <= token'
            BY <1>0, <1>2, <2>2, AcceptFacts
        <3>3. ASSUME NEW x \in Read \ {r} PROVE RequestOK(x)'
            <4>1. buf'.currentSequenceId >= buf.currentSequenceId BY <1>0, <3>1
            <4> QED BY ZenonT(30), <1>0, <3>1, <3>2, <4>1, OtherKeepsRequestOK
        <3>4. RequestOK(r)'
            <4>1. request[r].token \in Nat BY DEF TypeOK, Request
            <4>2. RequestOK(r) /\ request[r].token <= token BY <1>0 DEF RequestOK
            <4>3. request[r].token <= token' BY <1>0, <3>2, <4>1, <4>2
            <4> QED BY ZenonT(30), <3>1, <4>2, <4>3 DEF RequestOK
        <3>5. buf'.currentSequenceId <= token' /\ \A t \in acks' : t <= token'
            <4>1. \A t \in acks : t \in Nat /\ t <= token BY <1>0 DEF RequestInv
            <4>2. \A t \in acks : t <= token' BY <1>0, <3>2, <4>1
            <4>3. buf.currentSequenceId <= token BY DEF RequestInv
            <4>4. buf'.currentSequenceId <= token' BY <1>0, <3>1, <3>2, <4>3
            <4> QED BY <3>2, <4>2, <4>4
        <3> QED BY <3>3, <3>4, <3>5 DEF RequestInv
    <2> QED BY <2>1, <2>2
<1>3. CASE HandOverPages(r)
    <2>1. /\ cstage[r] = "accepted" /\ UNCHANGED <<buf, request, sstage, acks, token>>
          /\ \/ cstage' = [cstage EXCEPT ![r] = "added"] /\ response' = response
             \/ /\ cstage' = [cstage EXCEPT ![r] = "idle"]
                /\ response' = [response EXCEPT ![r] = NoResponse]
        BY <1>3 DEF HandOverPages, worker
    <2>2. ASSUME NEW x \in Read PROVE RequestOK(x)' BY ZenonT(30), <1>0, <2>1 DEF RequestOK
    <2> QED BY <2>1, <2>2 DEF RequestInv
<1>4. CASE CompleteRequest(r)
    BY <1>4, ReturnKeepsRequestInv DEF CompleteRequest, worker
<1>5. CASE DeleteSucceeded(r)
    BY <1>5, ReturnKeepsRequestInv DEF DeleteSucceeded, worker
<1> QED BY <1>1, <1>2, <1>3, <1>4, <1>5 DEF Callback

LEMMA ClientKeepsRequestInv ==
    ASSUME TypeOK, RequestInv, ScheduleRequest \/ InitiateRequest \/ CloseExchange
    PROVE  RequestInv'
<1>1. CASE ScheduleRequest
    BY ZenonT(30), <1>1 DEF ScheduleRequest, RequestInv, RequestOK, worker, wire
<1>2. CASE InitiateRequest
    <2>1. UNCHANGED <<buf, response, acks, token>> BY <1>2 DEF InitiateRequest, worker
    <2>2. CASE closed \/ future # NoRead
        BY ZenonT(30), <1>2, <2>1, <2>2 DEF InitiateRequest, RequestInv, RequestOK
    <2>3. CASE ~(closed \/ future # NoRead)
        <3>1. PICK r \in Read : /\ Available(r, NoRead)
                                /\ Send(r, IF completed THEN "DELETE" ELSE "GET")
                                /\ sstage' = [sstage EXCEPT ![r] = "sent"]
                                /\ cstage' = [cstage EXCEPT ![r] = "waiting"]
            BY <1>2, <2>3 DEF InitiateRequest
        <3>2. sstage[r] = "idle" /\ cstage[r] = "idle" BY <3>1, NoReadAssumption DEF Available
        <3>3. request'[r].token \in {0, token} /\ \A x \in Read \ {r} : request'[x] = request[x]
            BY <3>1 DEF Send, TypeOK
        <3>4. ASSUME NEW x \in Read PROVE RequestOK(x)'
            <4>1. RequestOK(x) /\ token \in Nat
                  /\ sstage \in [Read -> ServerStage] /\ cstage \in [Read -> ClientStage]
                BY DEF RequestInv, TypeOK
            <4>2. CASE x = r
                <5>1. sstage'[r] = "sent" /\ cstage'[r] = "waiting" BY <3>1, <4>1
                <5>2. request'[r].token <= token BY <3>3, <4>1
                <5> QED BY ZenonT(30), <2>1, <3>2, <4>1, <4>2, <5>1, <5>2 DEF RequestOK
            <4>3. CASE x # r BY ZenonT(30), <2>1, <3>1, <3>3, <4>1, <4>3 DEF RequestOK
            <4> QED BY <4>2, <4>3
        <3> QED BY <2>1, <3>4 DEF RequestInv
    <2> QED BY <2>2, <2>3
<1>3. CASE CloseExchange
    BY <1>3, CloseKeepsRequestInv, NoReadAssumption DEF CloseExchange, worker
<1> QED BY <1>1, <1>2, <1>3
=============================================================================
