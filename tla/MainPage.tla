------------------------------ MODULE MainPage ------------------------------
(***************************************************************************)
(* index.jsx: the main page, which holds a PageTitle, a ClusterHUD and a   *)
(* QueryList.  They share the page and no state, and each has requests and *)
(* timers of its own, so what each does alone it does beside the others:   *)
(* one of them, the active one, takes steps, and the others do not.        *)
(***************************************************************************)
EXTENDS QueryList

CONSTANTS
    MaxClicks,          \* bound: what the user does with the list
    CountedQuery,       \* the queries of ClusterHUD
    MaxInput,
    MAX_HISTORY,
    Grace

ASSUME BoundAssumption == {MaxClicks, MaxInput, MAX_HISTORY, Grace} \subseteq Nat

VARIABLES
    active,     \* the component that takes steps
    clicks,     \* what the user did with the list so far
    queryState, input, activeWorkers, hudRequest, answer, hudTimer, lastInput,
    runningQueries, rowInputRate, perWorkerCpuTimeRate, lastRender, drawn,
    up, session, titleRequest, page, titleTimer, state, dialog, shows

HUD == INSTANCE ClusterHUD WITH Query <- CountedQuery, request <- hudRequest, timer <- hudTimer
Title == INSTANCE PageTitle WITH request <- titleRequest, timer <- titleTimer

listVars == <<clicks, vars>>
hudVars == <<queryState, input, activeWorkers, hudRequest, answer, hudTimer, lastInput,
             runningQueries, rowInputRate, perWorkerCpuTimeRate, lastRender, drawn>>
titleVars == <<up, session, titleRequest, page, titleTimer, state, dialog, shows>>
mainVars == <<active, listVars, hudVars, titleVars>>

InList == active = "QueryList" /\ UNCHANGED <<active, hudVars, titleVars>>
InHUD == active = "ClusterHUD" /\ UNCHANGED <<active, listVars, titleVars>>
InTitle == active = "PageTitle" /\ UNCHANGED <<active, listVars, hudVars>>

MainInit ==
    /\ active \in {"QueryList", "ClusterHUD", "PageTitle"}
    /\ clicks = 0
    /\ Init
    /\ HUD!Init
    /\ Title!Init

ListNext ==
    \/ /\ Coordinator \/ ReorderComesDue \/ refreshLoop \/ Success \/ Failure \/ executeSearch
       /\ UNCHANGED clicks
    \/ /\ clicks < MaxClicks
       /\ clicks' = clicks + 1
       /\ User

MainNext ==
    \/ InList /\ ListNext
    \/ InHUD /\ HUD!Next
    \/ InTitle /\ Title!Next

Answered ==
    \/ Success /\ UNCHANGED clicks /\ InList
    \/ HUD!Serve /\ InHUD
    \/ Title!Serve /\ InTitle

TimerFires ==
    \/ refreshLoop /\ UNCHANGED clicks /\ InList
    \/ HUD!refreshLoop /\ InHUD
    \/ Title!refreshLoop /\ InTitle

CallbackRuns ==
    \/ executeSearch /\ UNCHANGED clicks /\ InList
    \/ (HUD!Success \/ HUD!Failure) /\ InHUD
    \/ (Title!Connected \/ Title!Disconnected) /\ InTitle

TimePasses ==
    \/ ReorderComesDue /\ UNCHANGED clicks /\ InList
    \/ HUD!Tick /\ InHUD

(* Of the requests of a component that are sent again and again one is     *)
(* answered; timers fire, callbacks run, time passes.  Each subscript is   *)
(* something the action changes whenever it changes anything.              *)
requests == <<request, hudRequest, titleRequest>>
callbacks == <<searchTimer, hudRequest, titleRequest>>
clocks == <<reorderDue, hudTimer, lastRender>>
MainFairness ==
    /\ SF_requests(Answered)
    /\ WF_requests(TimerFires)
    /\ WF_callbacks(CallbackRuns)
    /\ WF_clocks(TimePasses)

MainSpec == MainInit /\ [][MainNext]_mainVars /\ MainFairness

-----------------------------------------------------------------------------
(* The type of the state of the page. *)
MainTypeOK == TypeOK /\ clicks \in 0..MaxClicks /\ HUD!TypeOK /\ Title!TypeOK

(* Whatever the user did between two answers, QueryList shows queries of   *)
(* the last answer, each once, no more than the limit, and, if there is    *)
(* room, every one that passes the filters and the search.                 *)
ListInv == MainTypeOK /\ DisplayedFromLastAnswer /\ LimitRespected /\ NothingHidden

(* ClusterHUD has a rate for each period between two counts, and its       *)
(* throttled componentDidUpdate draws every answer.                        *)
HudInv == HUD!RatesAlignWithCounts /\ HUD!EveryAnswerDrawn

(* PageTitle's dialog follows the outages: each opens it, and only once,   *)
(* and the answer that ends the outage closes it.                          *)
DialogInv == Title!DialogOnlyOffline /\ Title!OneDialogPerOutage /\ Title!OutageReported

(* Whatever fails now and then, the page goes on refreshing: entries that  *)
(* no longer pass leave the list, the CPU time per worker returns to zero, *)
(* NaN or not, and PageTitle finds a coordinator again that stays up.      *)
RefreshingGoesOn == StaleEntriesGo /\ HUD!RateSettles /\ Title!Reconnects
=============================================================================
