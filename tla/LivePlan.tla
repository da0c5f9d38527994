------------------------------ MODULE LivePlan ------------------------------
(***************************************************************************)
(* components/LivePlan.jsx: the page that draws the plan of a query and    *)
(* redraws it once a second until the query has its final info.            *)
(*                                                                         *)
(* setState in a callback of fetch renders and runs componentDidUpdate     *)
(* before it returns, so a callback is one step.  An error thrown there    *)
(* unmounts the page, comes out of setState and ends in the catch handler, *)
(* where setState no longer does anything but resetTimer does.             *)
(***************************************************************************)
EXTENDS QueryService

VARIABLES
    page,           \* "closed", "open", or "crashed" when React unmounted it
    timer,          \* is timeoutId armed?
    query,          \* state.query: index into infos
    initialized, ended,
    svg,            \* state.svg: null, an empty selection, or the canvas
    drawn,          \* the info the graph on the canvas shows, 0 if none
    zoom            \* was the zoom behaviour installed?

pageVars == <<page, timer, query, initialized, ended, svg, drawn, zoom>>
vars == <<service, request, pageVars>>

TypeOK ==
    /\ ServiceTypeOK
    /\ request \in {NoRequest, Pending, Failed} \cup 1..Len(infos)
    /\ page \in {"closed", "open", "crashed"}
    /\ timer \in BOOLEAN
    /\ query \in 0..Len(infos)
    /\ initialized \in BOOLEAN
    /\ ended \in BOOLEAN
    /\ svg \in {"null", "empty", "canvas"}
    /\ drawn \in 0..Len(infos)
    /\ zoom \in BOOLEAN

Init ==
    /\ ServiceInit
    /\ request = NoRequest
    /\ page = "closed"
    /\ timer = FALSE
    /\ query = Null
    /\ initialized = FALSE
    /\ ended = FALSE
    /\ svg = "null"
    /\ drawn = 0
    /\ zoom = FALSE

(* The markup render returns: before the first query, a message only. *)
rendersCanvas(q, init) == q # Null /\ init

(* initializeSvg selects what is rendered: nothing is an empty selection. *)
initializeSvg(rendered) == IF rendered THEN "canvas" ELSE "empty"

(* StageStatistics.getStages: the stages of the query, each with its plan. *)
(* Without an output stage, or without a plan, it is a TypeError.          *)
getStagesFails(q) == infos[q].outputStage # "planned"

(* Mutant: the zoom is installed on every graph. *)
updateD3GraphAlwaysZoom ==
    /\ svg' = IF svg = "null" THEN initializeSvg(rendersCanvas(query', initialized')) ELSE svg
    /\ LET fails == query' # Null /\ getStagesFails(query')
           draws == query' # Null /\ ~fails /\ svg' = "canvas"
       IN  /\ page' = IF fails THEN "crashed" ELSE page
           /\ drawn' = IF draws THEN query' ELSE drawn
           /\ zoom' = (zoom \/ draws)

(* Mutant: the update that sets svg is not followed by one that draws. *)
updateD3GraphNextTime ==
    /\ svg' = IF svg = "null" THEN initializeSvg(rendersCanvas(query', initialized')) ELSE svg
    /\ LET fails == svg # "null" /\ query' # Null /\ getStagesFails(query')
           draws == svg = "canvas" /\ query' # Null /\ ~fails
       IN  /\ page' = IF fails THEN "crashed" ELSE page
           /\ drawn' = IF draws THEN query' ELSE drawn
           /\ zoom' = (zoom \/ (draws /\ ended'))

(* componentDidUpdate, after setState changed the state to the primed      *)
(* values: updateD3Graph first sets svg, which updates once more.          *)
updateD3Graph ==
    /\ svg' = IF svg = "null" THEN initializeSvg(rendersCanvas(query', initialized')) ELSE svg
    /\ LET fails == query' # Null /\ getStagesFails(query')
           draws == query' # Null /\ ~fails /\ svg' = "canvas"
       IN  /\ page' = IF fails THEN "crashed" ELSE page
           /\ drawn' = IF draws THEN query' ELSE drawn
           /\ zoom' = (zoom \/ (draws /\ ended'))

(* Mutant: the timer is armed whatever the state. *)
resetTimerAlways == timer' = TRUE

resetTimer == timer' = (query' = Null \/ ~ended')

refreshLoop ==
    /\ timer' = FALSE
    /\ request' = Pending

(* componentDidMount *)
Open ==
    /\ page = "closed"
    /\ page' = "open"
    /\ refreshLoop
    /\ UNCHANGED <<service, query, initialized, ended, svg, drawn, zoom>>

Timeout ==
    /\ timer
    /\ refreshLoop
    /\ UNCHANGED <<service, page, query, initialized, ended, svg, drawn, zoom>>

(* Mutant: refreshing ends with the query, not with its final info. *)
SuccessEndsWithQuery ==
    /\ request \in 1..Len(infos)
    /\ request' = NoRequest
    /\ IF page = "open"
       THEN /\ query' = request
            /\ initialized' = TRUE
            /\ ended' = isQueryEnded(infos[request])
            /\ updateD3Graph
       ELSE UNCHANGED <<page, query, initialized, ended, svg, drawn, zoom>>
    /\ resetTimer
    /\ UNCHANGED service

(* The answer arrives.  On an unmounted page setState is ignored. *)
Success ==
    /\ request \in 1..Len(infos)
    /\ request' = NoRequest
    /\ IF page = "open"
       THEN /\ query' = request
            /\ initialized' = TRUE
            /\ ended' = infos[request].finalQueryInfo
            /\ updateD3Graph
       ELSE UNCHANGED <<page, query, initialized, ended, svg, drawn, zoom>>
    /\ resetTimer
    /\ UNCHANGED service

Failure ==
    /\ request = Failed
    /\ request' = NoRequest
    /\ UNCHANGED <<query, ended>>
    /\ IF page = "open"
       THEN /\ initialized' = TRUE
            /\ updateD3Graph
       ELSE UNCHANGED <<page, initialized, svg, drawn, zoom>>
    /\ resetTimer
    /\ UNCHANGED service

KillClick ==
    /\ page = "open"
    /\ Kill(query)
    /\ UNCHANGED <<request, pageVars>>

Next ==
    \/ ServiceNext /\ UNCHANGED <<request, pageVars>>
    \/ (Serve \/ Fault) /\ UNCHANGED pageVars
    \/ Open
    \/ Timeout
    \/ Success
    \/ Failure
    \/ KillClick

Spec == Init /\ [][Next]_vars

(* A request is answered in the end, and not always with an error; timers  *)
(* fire and callbacks run.                                                 *)
Fairness ==
    /\ SF_vars(Serve /\ UNCHANGED pageVars)
    /\ WF_vars(Timeout)
    /\ WF_vars(Success)
    /\ WF_vars(Failure)

LiveSpec == Spec /\ Fairness

-----------------------------------------------------------------------------
(* LivePlan keeps what every refreshing page promises: its copy of the     *)
(* query is never replaced by an older one, and refreshing (resetTimer)    *)
(* ends with the final info and only then, also when requests fail and     *)
(* when the page crashed.                                                  *)
View == INSTANCE QueryView WITH polling <- query = Null \/ ~ended
ViewSpec == View!Spec

(* refreshLoop is in exactly one place: a request is open or the timer is  *)
(* armed, never both, until the final info ended it; a page that waits for *)
(* neither would show a stale plan for ever.                               *)
OneRefreshSeries ==
    page # "closed" => (timer \/ request # NoRequest) = (query = Null \/ ~ended)
                       /\ ~(timer /\ request # NoRequest)

(* The zoom of updateD3Graph is installed on the graph of the final info,  *)
(* and the DOM under it does not change any more (the comment there: zoom  *)
(* does not deal well with DOM changes).                                   *)
ZoomedGraphStays == [][zoom => UNCHANGED <<drawn, svg, page>>]_vars

(* Once the query has its final info, an open page draws it in the end,    *)
(* unless one of two things happened: the page crashed on a query without  *)
(* a plan, or its first request failed, when no canvas was there to select.*)
FinalPlanDrawn ==
    (page # "closed" /\ current.finalQueryInfo)
        ~> (zoom \/ removed \/ page = "crashed" \/ svg = "empty")
=============================================================================
