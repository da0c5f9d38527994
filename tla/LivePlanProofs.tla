--------------------------- MODULE LivePlanProofs ---------------------------
(***************************************************************************)
(* LivePlan.jsx keeps the promises of QueryView, refreshes in one series,  *)
(* and leaves a zoomed graph alone: for queries of any length, and for any *)
(* number of refreshes, failures and clicks.                               *)
(***************************************************************************)
EXTENDS LivePlan, TLAPS

(* What the page knows of the query, and why it refreshes:                 *)
(*  - a closed page has done nothing yet;                                  *)
(*  - ended is what the info on the page says, and a zoomed graph is that  *)
(*    of a final info;                                                     *)
(*  - an answer that is on its way is not older than the info on the page. *)
PageInv ==
    /\ page = "closed" => query = Null /\ request = NoRequest /\ ~timer /\ ~zoom
    /\ query = Null => ~ended
    /\ query # Null => ended = infos[query].finalQueryInfo
    /\ zoom => query # Null /\ ended
    /\ request \in 1..Len(infos) => query <= request

IInv == TypeOK /\ OneRefreshSeries /\ PageInv

USE DEF Null, NoRequest, Pending, Failed

-----------------------------------------------------------------------------
(* A page starts closed, on a query that has one info. *)
LEMMA InitInv == Init => IInv
<1> SUFFICES ASSUME Init PROVE IInv
  OBVIOUS
<1>1. [state |-> "QUEUED", outputStage |-> "absent", finalQueryInfo |-> FALSE] \in QueryInfo
  BY DEF QueryInfo
<1>2. \A i \in QueryInfo : infos = <<i>> => infos \in Seq(QueryInfo) /\ Len(infos) = 1
  OBVIOUS
<1>3. infos \in Seq(QueryInfo) /\ Len(infos) = 1
  BY <1>1, <1>2 DEF Init, ServiceInit
<1>4. removed \in BOOLEAN /\ timer \in BOOLEAN /\ initialized \in BOOLEAN /\ ended \in BOOLEAN /\ zoom \in BOOLEAN
  BY Zenon DEF Init, ServiceInit
<1>5. TypeOK
  <2>1. page = "closed" /\ query = 0 /\ drawn = 0 /\ svg = "null" /\ request = -2
    BY Zenon DEF Init
  <2>2. QED
    BY <1>3, <1>4, <2>1 DEF TypeOK, ServiceTypeOK
<1>6. OneRefreshSeries
  BY DEF Init, OneRefreshSeries
<1>7. PageInv
  BY <1>3 DEF Init, PageInv
<1>8. QED
  BY <1>5, <1>6, <1>7 DEF IInv

(* Publish appends an info, and leaves those before it alone. *)
LEMMA PublishInfos ==
    ASSUME ServiceTypeOK, NEW i \in QueryInfo, Publish(i)
    PROVE  /\ ServiceTypeOK'
           /\ Len(infos') = Len(infos) + 1
           /\ \A k \in 1..Len(infos) : infos'[k] = infos[k]
BY DEF ServiceTypeOK, Publish

(* The info the coordinator has now is an info. *)
LEMMA CurrentType == ServiceTypeOK => current \in QueryInfo
BY DEF ServiceTypeOK, current

(* Every step of the coordinator publishes an info or changes none. *)
ServiceStep ==
    /\ ServiceTypeOK'
    /\ \/ infos' = infos
       \/ Len(infos') = Len(infos) + 1 /\ \A k \in 1..Len(infos) : infos'[k] = infos[k]

(* What Finish does to the published infos of the query. *)
LEMMA FinishStep ==
    ASSUME ServiceTypeOK, NEW state \in {"FINISHED", "FAILED"}, Finish(state)
    PROVE  ServiceStep
<1>1. [current EXCEPT !.state = state, !.finalQueryInfo = state = "FAILED" /\ current.outputStage = "absent"]
        \in QueryInfo
  BY CurrentType DEF QueryInfo
<1>2. QED
  BY <1>1, PublishInfos DEF Finish, ServiceStep

(* Every step of the coordinator is a ServiceStep. *)
LEMMA ServiceNextStep ==
    ASSUME ServiceTypeOK, ServiceNext
    PROVE  ServiceStep
<1> USE CurrentType
<1>1. CASE Start
  <2>1. [current EXCEPT !.state = "RUNNING", !.outputStage = "planned"] \in QueryInfo
    BY DEF QueryInfo
  <2>2. QED
    BY <1>1, <2>1, PublishInfos DEF Start, ServiceStep
<1>2. CASE Progress
  BY <1>2, PublishInfos DEF Progress, ServiceStep
<1>3. CASE \E state \in {"FINISHED", "FAILED"} : Finish(state)
  BY <1>3, FinishStep
<1>4. CASE Finalize
  <2>1. [current EXCEPT !.finalQueryInfo = TRUE] \in QueryInfo
    BY DEF QueryInfo
  <2>2. QED
    BY <1>4, <2>1, PublishInfos DEF Finalize, ServiceStep
<1>5. CASE Prune
  <2>1. [current EXCEPT !.outputStage = "pruned"] \in QueryInfo
    BY DEF QueryInfo
  <2>2. QED
    BY <1>5, <2>1, PublishInfos DEF Prune, ServiceStep
<1>6. CASE Expire
  BY <1>6 DEF Expire, ServiceStep, ServiceTypeOK
<1>7. QED
  BY <1>1, <1>2, <1>3, <1>4, <1>5, <1>6 DEF ServiceNext

(* So is a kill. *)
LEMMA KillStep ==
    ASSUME ServiceTypeOK, NEW q, Kill(q)
    PROVE  ServiceStep
<1>1. CASE removed \/ isDone(current)
  BY <1>1 DEF Kill, service, ServiceStep, ServiceTypeOK
<1>2. CASE ~(removed \/ isDone(current))
  BY <1>2, FinishStep DEF Kill
<1>3. QED
  BY <1>1, <1>2

(* A step of the coordinator keeps what the page knows. *)
LEMMA ServiceStepInv ==
    ASSUME IInv, ServiceStep, UNCHANGED <<request, pageVars>>
    PROVE  IInv'
<1>1. Len(infos) \in Nat /\ Len(infos') \in Nat /\ Len(infos) <= Len(infos')
  BY DEF IInv, TypeOK, ServiceTypeOK, ServiceStep
<1>2. TypeOK'
  BY <1>1 DEF IInv, TypeOK, ServiceStep, pageVars
<1>3. OneRefreshSeries'
  BY DEF IInv, OneRefreshSeries, pageVars
<1>4. PageInv'
  <2>1. query # Null => infos'[query] = infos[query]
    BY DEF IInv, TypeOK, ServiceStep
  <2>2. request \in 1..Len(infos') => request \in 1..Len(infos)
    BY <1>1 DEF IInv, TypeOK
  <2>3. QED
    BY <2>1, <2>2 DEF IInv, PageInv, pageVars
<1>5. QED
  BY <1>2, <1>3, <1>4 DEF IInv

-----------------------------------------------------------------------------
(* The steps of the page keep what it knows. *)
LEMMA ServeInv ==
    ASSUME IInv, Serve \/ Fault, UNCHANGED pageVars
    PROVE  IInv'
<1>1. UNCHANGED <<service, pageVars>> /\ request = Pending
  BY DEF Serve, Fault
<1>2. request' = Failed \/ request' = Len(infos)
  BY DEF Serve, Fault
<1>3. TypeOK'
  BY <1>1, <1>2 DEF IInv, TypeOK, ServiceTypeOK, service, pageVars
<1>4. OneRefreshSeries'
  BY <1>1, <1>2 DEF IInv, TypeOK, ServiceTypeOK, OneRefreshSeries, service, pageVars
<1>5. PageInv'
  BY <1>1, <1>2 DEF IInv, TypeOK, ServiceTypeOK, PageInv, service, pageVars
<1>6. QED
  BY <1>3, <1>4, <1>5 DEF IInv

(* Opening the page sends the first request of the one refresh series. *)
LEMMA OpenInv ==
    ASSUME IInv, Open
    PROVE  IInv'
<1>1. TypeOK'
  BY DEF IInv, TypeOK, ServiceTypeOK, Open, refreshLoop, service
<1>2. OneRefreshSeries'
  BY DEF IInv, PageInv, OneRefreshSeries, Open, refreshLoop, service
<1>3. PageInv'
  BY DEF IInv, PageInv, Open, refreshLoop, service
<1>4. QED
  BY <1>1, <1>2, <1>3 DEF IInv

(* A timer that fires is replaced by a request. *)
LEMMA TimeoutInv ==
    ASSUME IInv, Timeout
    PROVE  IInv'
<1>1. TypeOK'
  BY DEF IInv, TypeOK, ServiceTypeOK, Timeout, refreshLoop, service
<1>2. OneRefreshSeries'
  BY DEF IInv, OneRefreshSeries, PageInv, Timeout, refreshLoop, service
<1>3. PageInv'
  BY DEF IInv, PageInv, Timeout, refreshLoop, service
<1>4. QED
  BY <1>1, <1>2, <1>3 DEF IInv

(* Drawing leaves the page open or crashed, and zooms into the graph of a  *)
(* query that ended, if at all.                                            *)
LEMMA Drawing ==
    ASSUME TypeOK, page = "open", query' \in 0..Len(infos), ended' \in BOOLEAN, initialized' \in BOOLEAN, updateD3Graph
    PROVE  /\ svg' \in {"null", "empty", "canvas"}
           /\ page' \in {"open", "crashed"}
           /\ drawn' \in 0..Len(infos)
           /\ zoom' \in BOOLEAN
           /\ zoom' => zoom \/ (query' # Null /\ ended')
BY DEF TypeOK, updateD3Graph, initializeSvg

(* An answer is replaced by a timer, unless it ends the series. *)
LEMMA SuccessInv ==
    ASSUME IInv, Success
    PROVE  IInv'
<1>1. request \in 1..Len(infos) /\ request' = NoRequest /\ UNCHANGED service /\ timer' = (query' = Null \/ ~ended')
  BY DEF Success, resetTimer
<1>2. page \in {"open", "crashed"}
  BY <1>1 DEF IInv, TypeOK, PageInv
<1>3. CASE page = "open"
  <2>1. query' = request /\ initialized' = TRUE /\ ended' = infos[request].finalQueryInfo /\ updateD3Graph
    BY <1>3 DEF Success
  <2>2. query' \in 1..Len(infos) /\ ended' \in BOOLEAN
    <3>1. infos[request] \in QueryInfo
      BY <1>1 DEF IInv, TypeOK, ServiceTypeOK
    <3>2. infos[request].finalQueryInfo \in BOOLEAN
      BY <3>1 DEF QueryInfo
    <3>3. QED
      BY <1>1, <2>1, <3>2
  <2>3. /\ svg' \in {"null", "empty", "canvas"}
        /\ page' \in {"open", "crashed"}
        /\ drawn' \in 0..Len(infos)
        /\ zoom' \in BOOLEAN
        /\ zoom' => zoom \/ (query' # Null /\ ended')
    BY <1>3, <2>1, <2>2, Drawing DEF IInv
  <2>4. ~zoom
    BY <1>1, <1>3 DEF IInv, OneRefreshSeries, PageInv
  <2>5. TypeOK'
    BY <1>1, <2>1, <2>2, <2>3 DEF IInv, TypeOK, ServiceTypeOK, service
  <2>6. OneRefreshSeries'
    BY <1>1, <2>2 DEF OneRefreshSeries
  <2>7. PageInv'
    BY <1>1, <2>1, <2>2, <2>3, <2>4 DEF PageInv, service
  <2>8. QED
    BY <2>5, <2>6, <2>7 DEF IInv
<1>4. CASE page = "crashed"
  <2>1. UNCHANGED <<page, query, initialized, ended, svg, drawn, zoom>>
    BY <1>4 DEF Success
  <2>2. TypeOK'
    BY <1>1, <2>1 DEF IInv, TypeOK, ServiceTypeOK, service
  <2>3. OneRefreshSeries'
    BY <1>1, <2>1 DEF OneRefreshSeries, IInv, TypeOK
  <2>4. PageInv'
    BY <1>1, <1>4, <2>1 DEF IInv, PageInv, service
  <2>5. QED
    BY <2>2, <2>3, <2>4 DEF IInv
<1>5. QED
  BY <1>2, <1>3, <1>4

(* A failed request is replaced by a timer. *)
LEMMA FailureInv ==
    ASSUME IInv, Failure
    PROVE  IInv'
<1>1. /\ request = Failed /\ request' = NoRequest /\ UNCHANGED <<service, query, ended>>
      /\ timer' = (query = Null \/ ~ended)
  BY DEF Failure, resetTimer
<1>2. page \in {"open", "crashed"}
  BY <1>1 DEF IInv, TypeOK, PageInv
<1>3. /\ svg' \in {"null", "empty", "canvas"}
      /\ page' \in {"open", "crashed"}
      /\ drawn' \in 0..Len(infos)
      /\ zoom' \in BOOLEAN
      /\ initialized' \in BOOLEAN
      /\ zoom' => zoom \/ (query' # Null /\ ended')
  <2>1. CASE page = "open"
    BY <1>1, <2>1, Drawing DEF Failure, IInv, TypeOK
  <2>2. CASE page = "crashed"
    BY <2>2 DEF Failure, IInv, TypeOK
  <2>3. QED
    BY <1>2, <2>1, <2>2
<1>4. TypeOK'
  BY <1>1, <1>3 DEF IInv, TypeOK, ServiceTypeOK, service
<1>5. OneRefreshSeries'
  BY <1>1 DEF OneRefreshSeries, IInv, TypeOK
<1>6. PageInv'
  BY <1>1, <1>3 DEF IInv, PageInv, service
<1>7. QED
  BY <1>4, <1>5, <1>6 DEF IInv

(* Every step keeps the inductive invariant. *)
LEMMA NextInv == IInv /\ [Next]_vars => IInv'
<1> SUFFICES ASSUME IInv, [Next]_vars PROVE IInv'
  OBVIOUS
<1>1. CASE ServiceNext /\ UNCHANGED <<request, pageVars>>
  BY <1>1, ServiceNextStep, ServiceStepInv DEF IInv, TypeOK
<1>2. CASE (Serve \/ Fault) /\ UNCHANGED pageVars
  BY <1>2, ServeInv
<1>3. CASE KillClick
  BY <1>3, KillStep, ServiceStepInv DEF KillClick, IInv, TypeOK
<1>4. CASE UNCHANGED vars
  BY <1>4 DEF vars, service, pageVars, IInv, TypeOK, ServiceTypeOK, OneRefreshSeries, PageInv
<1>5. QED
  BY <1>1, <1>2, <1>3, <1>4, OpenInv, TimeoutInv, SuccessInv, FailureInv DEF Next

(* The invariant that the theorems below rest on. *)
LEMMA Invariance == Spec => []IInv
BY InitInv, NextInv, PTL DEF Spec

-----------------------------------------------------------------------------
(* resetTimer and refreshLoop keep one series of refreshes going until the *)
(* final info, and none after it, whatever requests fail.                  *)
THEOREM RefreshSeries == Spec => []OneRefreshSeries
<1>1. IInv => OneRefreshSeries
  BY DEF IInv
<1>2. QED
  BY <1>1, Invariance, PTL

(* updateD3Graph installs the zoom on a graph that no later step changes.  *)
THEOREM ZoomedGraph == Spec => ZoomedGraphStays
<1>1. IInv /\ [Next]_vars => [zoom => UNCHANGED <<drawn, svg, page>>]_vars
  <2> SUFFICES ASSUME IInv, Next, zoom PROVE UNCHANGED <<drawn, svg, page>>
    OBVIOUS
  <2>1. page # "closed" /\ ~timer /\ request = NoRequest
    BY DEF IInv, OneRefreshSeries, PageInv
  <2>2. ~Open /\ ~Timeout
    BY <2>1, Zenon DEF Open, Timeout
  <2>3. ~Success /\ ~Failure
    BY <2>1 DEF Success, Failure, IInv, TypeOK, ServiceTypeOK
  <2>4. QED
    BY <2>2, <2>3 DEF Next, KillClick, pageVars
<1>2. QED
  BY <1>1, Invariance, PTL DEF Spec, ZoomedGraphStays

-----------------------------------------------------------------------------
(* A step of the coordinator is a change of the infos, or none, to a page. *)
LEMMA ServiceStepRefines ==
    ASSUME ServiceStep, UNCHANGED <<request, pageVars>>
    PROVE  [View!Next]_(View!vars)
BY DEF ServiceStep, pageVars, View!Next, View!Change, View!vars

(* An answer that the page handles is shown, and ends the refreshing when  *)
(* it is final.                                                            *)
LEMMA SuccessRefines ==
    ASSUME IInv, Success
    PROVE  [View!Next]_(View!vars)
<1>1. request \in 1..Len(infos) /\ UNCHANGED infos
  BY DEF Success, service
<1>2. CASE page = "open"
  <2>1. query' = request /\ ended' = infos[request].finalQueryInfo
    BY <1>2 DEF Success
  <2>2. query = Null \/ ~ended
    BY <1>1, <1>2 DEF IInv, OneRefreshSeries
  <2>3. query <= request /\ query' # Null
    BY <1>1, <2>1 DEF IInv, PageInv
  <2>4. View!Show(request)
    BY <1>1, <2>1, <2>2, <2>3 DEF View!Show
  <2>5. QED
    BY <1>1, <2>4 DEF View!Next
<1>3. CASE page # "open"
  BY <1>1, <1>3 DEF Success, View!vars
<1>4. QED
  BY <1>2, <1>3

(* LivePlan implements QueryView: its copy of the query never goes back,   *)
(* and refreshing stops exactly with the final info.                       *)
THEOREM Refinement == Spec => ViewSpec
<1>1. Init => View!Init
  BY DEF Init, ServiceInit, View!Init
<1>2. IInv /\ [Next]_vars => [View!Next]_(View!vars)
  <2> SUFFICES ASSUME IInv, [Next]_vars PROVE [View!Next]_(View!vars)
    OBVIOUS
  <2>1. CASE ServiceNext /\ UNCHANGED <<request, pageVars>>
    BY <2>1, ServiceNextStep, ServiceStepRefines DEF IInv, TypeOK
  <2>2. CASE (Serve \/ Fault) /\ UNCHANGED pageVars
    BY <2>2 DEF Serve, Fault, service, pageVars, View!vars
  <2>3. CASE KillClick
    BY <2>3, KillStep, ServiceStepRefines DEF KillClick, IInv, TypeOK
  <2>4. CASE Open \/ Timeout \/ Failure
    BY <2>4 DEF Open, Timeout, Failure, service, View!vars
  <2>5. CASE UNCHANGED vars
    BY <2>5 DEF vars, service, pageVars, View!vars
  <2>6. QED
    BY <2>1, <2>2, <2>3, <2>4, <2>5, SuccessRefines DEF Next
<1>3. QED
  BY <1>1, <1>2, Invariance, PTL DEF Spec, ViewSpec, View!Spec
=============================================================================
