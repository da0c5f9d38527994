----------------------------- MODULE QueryDetail -----------------------------
(***************************************************************************)
(* components/QueryDetail.jsx: the overview page of a query.  It refreshes *)
(* every three seconds until the final info, keeps histories of rates for  *)
(* its sparklines, and lists the stages (one StageSummary here), whose     *)
(* refresh the user can switch off.                                        *)
(*                                                                         *)
(* Time counts in seconds since an event, up to the largest number some    *)
(* condition compares it with.  setState in a callback of $.get renders    *)
(* and runs componentDidUpdate before it returns: a callback that calls it *)
(* twice updates the page twice.  The browser's clock does not go back.    *)
(***************************************************************************)
EXTENDS QueryService, History

VARIABLES
    page,               \* is the page open?
    timer,              \* seconds until refreshLoop, Off when none is due
    query, initialized, queryEnded,
    stageRefresh,       \* Auto-Refresh: On?
    lastSnapshotStage,  \* the info whose outputStage is shown, Null before
    lastRefresh,        \* seconds since the last answer, Never before
    lastRender,         \* seconds since the sparklines were drawn, or Never
    history,            \* the samples of scheduledTimeRate, cpuTimeRate, ...
    drawn,              \* the samples the sparklines on the page show
    expanded,           \* StageSummary: state.expanded
    stageRender,        \*               lastRender
    barChart            \*               the info its bar charts show, 0 if none

chartVars == <<lastRender, drawn, stageRender, barChart>>
pageVars == <<page, timer, query, initialized, queryEnded, stageRefresh,
              lastSnapshotStage, lastRefresh, history, expanded, chartVars>>
vars == <<service, request, pageVars>>

RefreshInterval == 3
Never == 4          \* null, and later than everything that is compared
Off == 5            \* no timer

Elapsed == 0..3
Sample == [from: 0..Len(infos), to: 1..Len(infos), secs: Elapsed]

TypeOK ==
    /\ ServiceTypeOK
    /\ request \in {NoRequest, Pending, Failed} \cup 1..Len(infos)
    /\ page \in BOOLEAN
    /\ timer \in 0..RefreshInterval \cup {Off}
    /\ query \in 0..Len(infos)
    /\ initialized \in BOOLEAN
    /\ queryEnded \in BOOLEAN
    /\ stageRefresh \in BOOLEAN
    /\ lastSnapshotStage \in 0..Len(infos)
    /\ lastRefresh \in Elapsed \cup {Never}
    /\ lastRender \in {0, 1, Never}
    /\ history \in Seq(Sample)
    /\ drawn \in Seq(Sample)
    /\ expanded \in BOOLEAN
    /\ stageRender \in {0, 1, Never}
    /\ barChart \in 0..Len(infos)

Init ==
    /\ ServiceInit
    /\ request = NoRequest
    /\ page = FALSE
    /\ timer = Off
    /\ query = Null
    /\ initialized = FALSE
    /\ queryEnded = FALSE
    /\ stageRefresh = TRUE
    /\ lastSnapshotStage = Null
    /\ lastRefresh = Never
    /\ lastRender = Never
    /\ history = <<>>
    /\ drawn = <<>>
    /\ expanded = FALSE
    /\ stageRender = Never
    /\ barChart = 0

(* StageList.getStages: a StageSummary is mounted for the stage. *)
showsStage(q) == q # Null /\ infos[q].outputStage # "absent"

(* The condition under which charts are drawn: null, or a second ago. *)
due(render) == render >= 1

-----------------------------------------------------------------------------
(* Mutant: the charts of a stage are drawn once. *)
stageDidUpdateOnce(updates) ==
    IF updates /\ stageRender = Never
    THEN /\ stageRender' = 0
         /\ barChart' = IF expanded' /\ infos[lastSnapshotStage'].outputStage = "planned"
                        THEN lastSnapshotStage' ELSE barChart
    ELSE UNCHANGED <<stageRender, barChart>>

(* componentDidUpdate of the page and, before it, of the StageSummary that *)
(* an update of the page updates too.  A StageSummary mounted by this very *)
(* update is updated by the setState of the page's lastRender.  history    *)
(* and the stage are those of the primed state.                            *)
stageDidUpdate(updates) ==
    IF updates /\ due(stageRender)
    THEN /\ stageRender' = 0
         /\ barChart' = IF expanded' /\ infos[lastSnapshotStage'].outputStage = "planned"
                        THEN lastSnapshotStage' ELSE barChart
    ELSE UNCHANGED <<stageRender, barChart>>

(* Mutant: the sparklines are drawn with the first update of every second. *)
componentDidUpdateOnce(h) ==
    /\ lastRender' = IF lastRender = Never THEN 0 ELSE lastRender
    /\ drawn' = IF lastRender = Never THEN h ELSE drawn
    /\ stageDidUpdate(showsStage(lastSnapshotStage') /\ (showsStage(lastSnapshotStage) \/ due(lastRender)))

componentDidUpdate(h) ==
    /\ lastRender' = IF due(lastRender) THEN 0 ELSE lastRender
    /\ drawn' = IF due(lastRender) THEN h ELSE drawn
    /\ stageDidUpdate(showsStage(lastSnapshotStage') /\ (showsStage(lastSnapshotStage) \/ due(lastRender)))

(* Mutant: refreshing stops when the query has ended. *)
resetTimerEnded == timer' = IF query' = Null \/ ~isQueryEnded(infos[query']) THEN RefreshInterval ELSE Off

resetTimer == timer' = IF query' = Null \/ ~queryEnded' THEN RefreshInterval ELSE Off

refreshLoop ==
    /\ timer' = Off
    /\ request' = Pending

(* componentDidMount *)
Open ==
    /\ ~page
    /\ page' = TRUE
    /\ refreshLoop
    /\ UNCHANGED <<service, query, initialized, queryEnded, stageRefresh, lastSnapshotStage,
                   lastRefresh, history, expanded, chartVars>>

Timeout ==
    /\ timer = 0
    /\ refreshLoop
    /\ UNCHANGED <<service, page, query, initialized, queryEnded, stageRefresh, lastSnapshotStage,
                   lastRefresh, history, expanded, chartVars>>

(* Does the answer add a sample to the histories? *)
samples(q) == ~queryEnded /\ (lastRefresh = Never => infos[q].state # "RUNNING")

snapshot(q) == IF stageRefresh THEN q ELSE lastSnapshotStage

sample(q) == [from |-> query, to |-> q, secs |-> IF lastRefresh = Never THEN 0 ELSE lastRefresh]

(* The first setState draws the histories as they were; the second, which  *)
(* adds the sample, finds that they were drawn just now.                   *)
Success ==
    /\ request \in 1..Len(infos)
    /\ request' = NoRequest
    /\ query' = request
    /\ lastSnapshotStage' = snapshot(request)
    /\ initialized' = TRUE
    /\ queryEnded' = infos[request].finalQueryInfo
    /\ lastRefresh' = 0
    /\ history' = IF samples(request) THEN addToHistory(sample(request), history) ELSE history
    /\ UNCHANGED <<service, page, stageRefresh, expanded>>
    /\ componentDidUpdate(history)
    /\ resetTimer

Failure ==
    /\ request = Failed
    /\ request' = NoRequest
    /\ initialized' = TRUE
    /\ UNCHANGED <<service, page, query, queryEnded, stageRefresh, lastSnapshotStage,
                   lastRefresh, history, expanded>>
    /\ componentDidUpdate(history)
    /\ resetTimer

(* The button writes lastSnapshotStages, which nothing reads. *)
handleStageRefreshClick ==
    /\ query # Null
    /\ stageRefresh' = ~stageRefresh
    /\ UNCHANGED <<service, request, page, timer, query, initialized, queryEnded,
                   lastSnapshotStage, lastRefresh, history, expanded>>
    /\ componentDidUpdate(history)

(* StageSummary.toggleExpanded updates the StageSummary only. *)
toggleExpanded ==
    /\ showsStage(lastSnapshotStage)
    /\ infos[lastSnapshotStage].outputStage = "planned"
    /\ expanded' = ~expanded
    /\ UNCHANGED <<service, request, page, timer, query, initialized, queryEnded, stageRefresh,
                   lastSnapshotStage, lastRefresh, history, lastRender, drawn>>
    /\ stageDidUpdate(TRUE)

KillClick ==
    /\ Kill(query)
    /\ UNCHANGED <<request, pageVars>>

(* A second passes. *)
later(t, max) == IF t < max THEN t + 1 ELSE t
Tick ==
    /\ timer # 0
    /\ timer' = IF timer = Off THEN Off ELSE timer - 1
    /\ lastRefresh' = later(lastRefresh, RefreshInterval)
    /\ lastRender' = later(lastRender, 1)
    /\ stageRender' = later(stageRender, 1)
    /\ UNCHANGED <<service, request, page, query, initialized, queryEnded, stageRefresh,
                   lastSnapshotStage, history, drawn, expanded, barChart>>

Next ==
    \/ ServiceNext /\ UNCHANGED <<request, pageVars>>
    \/ (Serve \/ Fault) /\ UNCHANGED pageVars
    \/ Open
    \/ Timeout
    \/ Success
    \/ Failure
    \/ handleStageRefreshClick
    \/ toggleExpanded
    \/ KillClick
    \/ Tick

Spec == Init /\ [][Next]_vars

(* Requests do not fail for ever, callbacks run, time passes. *)
Fairness ==
    /\ SF_vars(Serve /\ UNCHANGED pageVars)
    /\ WF_vars(Timeout)
    /\ WF_vars(Success)
    /\ WF_vars(Failure)
    /\ WF_vars(Tick)

LiveSpec == Spec /\ Fairness

-----------------------------------------------------------------------------
(* QueryDetail implements the view of a query. *)
View == INSTANCE QueryView WITH polling <- query = Null \/ ~queryEnded
ViewSpec == View!Spec

(* The samples of the sparklines are about adjoining periods: each starts  *)
(* with the answer the one before ended with, so no progress of the query  *)
(* is counted twice or missed, however many requests failed in between.    *)
SamplesAdjoin ==
    /\ \A i \in 1..Len(history) - 1 : history[i + 1].from = history[i].to
    /\ history # <<>> => history[Len(history)].to = query

(* MAX_HISTORY + 1 samples are kept, never more. *)
HistoryBounded == Len(history) <= MAX_HISTORY + 1

(* The sparklines on the page lack at most the newest sample: the throttle *)
(* of componentDidUpdate suppresses the drawing that would show it, but    *)
(* never those of two answers in a row.                                    *)
SparklinesLagByOne ==
    \A i \in 1..Len(history) - 1 : \E j \in 1..Len(drawn) : drawn[j] = history[i]

(* Once the query has its final info, the page shows it and stops.         *)
FinalInfoShown == (page /\ current.finalQueryInfo) ~> (queryEnded \/ removed)

(* A stage that stays expanded gets its bar charts while the page still    *)
(* refreshes, although the throttle may skip the update of the click.      *)
BarChartsDrawn ==
    (expanded /\ ~queryEnded) ~> (barChart # 0 \/ ~expanded \/ queryEnded \/ removed)

(* What the button says: with "Auto-Refresh: On", the list shows the       *)
(* stages of the query info on the page, if not now then soon, as long as  *)
(* the page itself still refreshes.                                        *)
AutoRefreshOn ==
    (stageRefresh /\ query # Null) ~> (lastSnapshotStage = query \/ ~stageRefresh \/ queryEnded \/ removed)

(* The sparklines tell the history of the query: samples of adjoining      *)
(* periods, no more than are kept, of which the page lacks at most the     *)
(* newest.                                                                 *)
SparklinesInv == TypeOK /\ SamplesAdjoin /\ HistoryBounded /\ SparklinesLagByOne

(* The stages on the page follow its refreshing: the list, while it is not *)
(* frozen, and the charts of a stage that stays expanded.                  *)
StagesFollow == BarChartsDrawn /\ AutoRefreshOn
=============================================================================
