----------------------------- MODULE StageDetail -----------------------------
(***************************************************************************)
(* components/StageDetail.jsx: the page with the operators of one stage.   *)
(* It refreshes once a second until the query has its final info, and      *)
(* draws the operator graph of the selected stage when the query ended.    *)
(*                                                                         *)
(* refreshLoop decides which stage is selected when it sends the request,  *)
(* and the callback stores it with the answer.  An error thrown while      *)
(* rendering unmounts the page and leaves the callback before resetTimer.  *)
(***************************************************************************)
EXTENDS QueryService

CONSTANTS
    Stage,          \* the stages of the planned query; 0 is the output stage
    UrlStage        \* the stage the page's URL names, 0 if it names none

VARIABLES
    page,               \* "closed", "open" or "crashed"
    timer,              \* is timeoutId armed?
    requestedStage,     \* selectedStageId in the closure of the open request
    query, initialized, ended,
    selectedStageId,    \* NoStage for null
    graph               \* what #operator-canvas shows: <<query, stage>>, or <<>>

pageVars == <<page, timer, requestedStage, query, initialized, ended, selectedStageId, graph>>
vars == <<service, request, pageVars>>

NoStage == -1

TypeOK ==
    /\ ServiceTypeOK
    /\ request \in {NoRequest, Pending, Failed} \cup 1..Len(infos)
    /\ page \in {"closed", "open", "crashed"}
    /\ timer \in BOOLEAN
    /\ requestedStage \in Stage \cup {UrlStage, NoStage}
    /\ query \in 0..Len(infos)
    /\ initialized \in BOOLEAN
    /\ ended \in BOOLEAN
    /\ selectedStageId \in Stage \cup {UrlStage, NoStage}
    /\ graph \in {<<>>} \cup ((1..Len(infos)) \X Stage)

Init ==
    /\ ServiceInit
    /\ request = NoRequest
    /\ page = "closed"
    /\ timer = FALSE
    /\ requestedStage = NoStage
    /\ query = Null
    /\ initialized = FALSE
    /\ ended = FALSE
    /\ selectedStageId = NoStage
    /\ graph = <<>>

(* getAllStageIds: a pruned query has the output stage only, without its   *)
(* plan, whose id the function reads first.                                *)
stages(q) == CASE infos[q].outputStage = "planned" -> Stage
               [] infos[q].outputStage = "pruned"  -> {0}
               [] OTHER                            -> {}
getAllStageIdsFails(q) == infos[q].outputStage = "pruned"

(* Which of its views render returns for query q and stage s. *)
render(q, s, init) ==
    CASE q = Null -> IF init THEN "Query not found" ELSE "Loading"
      [] q # Null /\ stages(q) = {} -> "Query does not have an output stage"
      [] q # Null /\ stages(q) # {} /\ getAllStageIdsFails(q) -> "TypeError"
      [] q # Null /\ stages(q) # {} /\ ~getAllStageIdsFails(q) ->
            IF s \notin stages(q) THEN "Stage not found"
            ELSE IF isQueryEnded(infos[q]) THEN "graph"
            ELSE "Operator graph will appear automatically when query completes"

view == render(query, selectedStageId, initialized)

(* Mutant: the graph is drawn when the component is mounted only. *)
renderedOnce ==
    LET v == render(query', selectedStageId', initialized')
    IN  /\ page' = IF v = "TypeError" THEN "crashed" ELSE page
        /\ graph' = IF v = "graph" /\ graph = <<>> THEN <<query', selectedStageId'>> ELSE graph

(* Rendering of the primed state; StageOperatorGraph.updateD3Graph draws   *)
(* when it is mounted or updated.  The canvas is not part of what React    *)
(* renders, and keeps its graph otherwise.                                 *)
rendered ==
    LET v == render(query', selectedStageId', initialized')
    IN  /\ page' = IF v = "TypeError" THEN "crashed" ELSE page
        /\ graph' = IF v = "graph" THEN <<query', selectedStageId'>> ELSE graph

resetTimer == timer' = (query' = Null \/ ~ended')

refreshLoop ==
    /\ timer' = FALSE
    /\ request' = Pending
    /\ requestedStage' = IF selectedStageId = NoStage THEN UrlStage ELSE selectedStageId

(* componentDidMount *)
Open ==
    /\ page = "closed"
    /\ page' = "open"
    /\ refreshLoop
    /\ UNCHANGED <<service, query, initialized, ended, selectedStageId, graph>>

Timeout ==
    /\ timer
    /\ refreshLoop
    /\ UNCHANGED <<service, page, query, initialized, ended, selectedStageId, graph>>

(* Mutant: a failed query counts as ended before its info is final. *)
SuccessFailedIsFinal ==
    /\ request \in 1..Len(infos)
    /\ request' = NoRequest
    /\ query' = request
    /\ initialized' = TRUE
    /\ ended' = (infos[request].finalQueryInfo \/ infos[request].state = "FAILED")
    /\ selectedStageId' = requestedStage
    /\ rendered
    /\ IF page' = "open" THEN resetTimer ELSE UNCHANGED timer
    /\ UNCHANGED <<service, requestedStage>>

Success ==
    /\ request \in 1..Len(infos)
    /\ request' = NoRequest
    /\ query' = request
    /\ initialized' = TRUE
    /\ ended' = infos[request].finalQueryInfo
    /\ selectedStageId' = requestedStage
    /\ rendered
    /\ IF page' = "open" THEN resetTimer ELSE UNCHANGED timer
    /\ UNCHANGED <<service, requestedStage>>

Failure ==
    /\ request = Failed
    /\ request' = NoRequest
    /\ initialized' = TRUE
    /\ UNCHANGED <<service, requestedStage, query, ended, selectedStageId>>
    /\ rendered
    /\ resetTimer

(* A click on an entry of the menu, which is there with the header. *)
SelectStage(s) ==
    /\ page = "open"
    /\ view \in {"graph", "Operator graph will appear automatically when query completes"}
    /\ s \in stages(query)
    /\ selectedStageId' = s
    /\ UNCHANGED <<service, request, timer, requestedStage, query, initialized, ended>>
    /\ rendered

KillClick ==
    /\ page = "open"
    /\ view \in {"graph", "Operator graph will appear automatically when query completes"}
    /\ Kill(query)
    /\ UNCHANGED <<request, pageVars>>

Next ==
    \/ ServiceNext /\ UNCHANGED <<request, pageVars>>
    \/ (Serve \/ Fault) /\ UNCHANGED pageVars
    \/ Open
    \/ Timeout
    \/ Success
    \/ Failure
    \/ \E s \in Stage : SelectStage(s)
    \/ KillClick

Spec == Init /\ [][Next]_vars

(* As for LivePlan: requests do not fail for ever, timers and callbacks run. *)
Fairness ==
    /\ SF_vars(Serve /\ UNCHANGED pageVars)
    /\ WF_vars(Timeout)
    /\ WF_vars(Success)
    /\ WF_vars(Failure)

LiveSpec == Spec /\ Fairness

-----------------------------------------------------------------------------
(* StageDetail implements the view of a query: no older copy after a newer *)
(* one, and no refresh after the final info.                               *)
View == INSTANCE QueryView WITH polling <- query = Null \/ ~ended
ViewSpec == View!Spec

(* While a graph is drawn it is the graph of the query and the stage that  *)
(* the page holds, and one is drawn whenever these have one: a click, an   *)
(* answer and a failed request in any order never leave the operators of   *)
(* another stage under the heading of this one.                            *)
GraphIsCurrent ==
    page = "open" =>
        graph = IF query # Null /\ infos[query].outputStage = "planned" /\ isQueryEnded(infos[query])
                   /\ selectedStageId \in Stage
                THEN <<query, selectedStageId>>
                ELSE <<>>

(* Before the first answer nothing is selected; from then on a stage is,   *)
(* so that the menu and the heading are about some stage.                  *)
StageSelectedWithQuery == (query = Null) = (selectedStageId = NoStage)

(* A kill button on a page that shows an old copy never changes how a      *)
(* query ended.                                                            *)
KillKeepsOutcome == [][isDone(current) => current'.state = current.state]_vars

(* A query that ended is shown with its final info in the end, unless the  *)
(* coordinator removed it first or the page met it without a plan.         *)
FinalInfoShown ==
    (page = "open" /\ current.finalQueryInfo)
        ~> (ended \/ removed \/ page = "crashed")
=============================================================================
