------------------------------ MODULE ClusterHUD ------------------------------
(***************************************************************************)
(* components/ClusterHUD.jsx: the numbers at the top of the first page and *)
(* their sparklines, from /ui/api/stats every second.                      *)
(*                                                                         *)
(* The coordinator adds up the input of the queries that are not done and  *)
(* the input of those its QueryManagerStats has counted, which a listener  *)
(* does some time after a query is done.  Rows, bytes and CPU time follow  *)
(* the same pattern; input stands for all three.  The seconds between two  *)
(* answers may be any, so a rate is only known as a Number of History.     *)
(***************************************************************************)
EXTENDS History, FiniteSets, FiniteSetsExt

CONSTANTS
    Query,
    MaxInput    \* bound: input of a query

VARIABLES
    queryState,     \* of each query, "counted" when the listener has run
    input,          \* of each query
    activeWorkers,  \* number of active workers, one at most
    request,        \* "none", "open", "failed", "answered"
    answer,         \* the ClusterStats of an answer on its way
    timer,          \* seconds until refreshLoop, Off when none is due
    lastInput,      \* lastInputRows, ...; Null before the first answer
    runningQueries, rowInputRate, perWorkerCpuTimeRate,     \* histories
    lastRender,     \* seconds since the sparklines were drawn, or Never
    drawn           \* the histories they show

cluster == <<queryState, input, activeWorkers>>
histories == <<runningQueries, rowInputRate, perWorkerCpuTimeRate>>
pageVars == <<timer, lastInput, histories, lastRender, drawn>>
vars == <<cluster, request, answer, pageVars>>

Null == -1
Never == 2
Off == 2

(* ClusterStatsResource.getClusterStats *)
getClusterStats ==
    [runningQueries |-> Cardinality({q \in Query : queryState[q] = "running"}),
     activeWorkers |-> activeWorkers,
     totalInput |-> MapThenSumSet(LAMBDA q : input[q], {q \in Query : queryState[q] # "done"})]
NoAnswer == [runningQueries |-> 0, activeWorkers |-> 0, totalInput |-> 0]

TypeOK ==
    /\ queryState \in [Query -> {"queued", "running", "done", "counted"}]
    /\ input \in [Query -> 0..MaxInput]
    /\ activeWorkers \in 0..1
    /\ request \in {"none", "open", "failed", "answered"}
    /\ answer \in [runningQueries: Nat, activeWorkers: 0..1, totalInput: Nat]
    /\ timer \in {0, 1, Off}
    /\ lastInput \in Nat \cup {Null}
    /\ runningQueries \in Seq(Nat)
    /\ rowInputRate \in Seq(Number)
    /\ perWorkerCpuTimeRate \in Seq(Number)
    /\ lastRender \in {0, 1, Never}
    /\ request = "none" \/ timer = Off

(* componentDidMount sends the first request. *)
Init ==
    /\ queryState = [q \in Query |-> "queued"]
    /\ input = [q \in Query |-> 0]
    /\ activeWorkers = 1
    /\ request = "open"
    /\ answer = NoAnswer
    /\ timer = Off
    /\ lastInput = Null
    /\ runningQueries = <<>>
    /\ rowInputRate = <<>>
    /\ perWorkerCpuTimeRate = <<>>
    /\ lastRender = Never
    /\ drawn = <<<<>>, <<>>, <<>>>>

-----------------------------------------------------------------------------
Start(q) ==
    /\ queryState[q] = "queued"
    /\ queryState' = [queryState EXCEPT ![q] = "running"]
    /\ UNCHANGED <<input, activeWorkers>>

Consume(q) ==
    /\ queryState[q] = "running"
    /\ input[q] < MaxInput
    /\ input' = [input EXCEPT ![q] = @ + 1]
    /\ UNCHANGED <<queryState, activeWorkers>>

Done(q) ==
    /\ queryState[q] \in {"queued", "running"}
    /\ queryState' = [queryState EXCEPT ![q] = "done"]
    /\ UNCHANGED <<input, activeWorkers>>

(* QueryManagerStats.queryFinished *)
queryFinished(q) ==
    /\ queryState[q] = "done"
    /\ queryState' = [queryState EXCEPT ![q] = "counted"]
    /\ UNCHANGED <<input, activeWorkers>>

WorkersChange ==
    /\ activeWorkers' = 1 - activeWorkers
    /\ UNCHANGED <<queryState, input>>

Cluster ==
    /\ \/ \E q \in Query : Start(q) \/ Consume(q) \/ Done(q) \/ queryFinished(q)
       \/ WorkersChange
    /\ UNCHANGED <<request, answer, pageVars>>

Serve ==
    /\ request = "open"
    /\ request' = "answered"
    /\ answer' = getClusterStats
    /\ UNCHANGED <<cluster, pageVars>>

Fault ==
    /\ request = "open"
    /\ request' = "failed"
    /\ UNCHANGED <<cluster, answer, pageVars>>

-----------------------------------------------------------------------------
(* state.query is undefined, ended is never set: there is always a timer. *)
resetTimer == timer' = 1

refreshLoop ==
    /\ timer = 0
    /\ timer' = Off
    /\ request' = "open"
    /\ UNCHANGED <<cluster, answer, lastInput, histories, lastRender, drawn>>

(* The input of a period by its seconds, and by those and the workers. *)
perSecond(d) == IF d < 0 THEN {"negative"} ELSE IF d = 0 THEN {"zero"} ELSE {"fraction", "positive"}
perWorker(d, workers) ==
    IF workers > 0 THEN perSecond(d)
    ELSE {IF d < 0 THEN "-Infinity" ELSE IF d = 0 THEN "NaN" ELSE "Infinity"}

(* Mutant: drawn only after more than a second. *)
dueLater == lastRender = Never

(* componentDidUpdate draws at most once in a second. *)
due == lastRender \in {1, Never}

componentDidUpdate ==
    IF due THEN lastRender' = 0 /\ drawn' = histories'
           ELSE UNCHANGED <<lastRender, drawn>>

(* The rates of the period since the last answer, if there was one. *)
rates(d) ==
    IF lastInput = Null
    THEN rowInputRate' = <<>> /\ perWorkerCpuTimeRate' = <<>>
    ELSE /\ \E v \in perSecond(d) : rowInputRate' \in addExponentiallyWeightedToHistory(v, rowInputRate)
         /\ \E v \in perWorker(d, answer.activeWorkers) :
                perWorkerCpuTimeRate' \in addExponentiallyWeightedToHistory(v, perWorkerCpuTimeRate)

Success ==
    /\ request = "answered"
    /\ request' = "none"
    /\ answer' = NoAnswer
    /\ runningQueries' = addToHistory(answer.runningQueries, runningQueries)
    /\ rates(answer.totalInput - lastInput)
    /\ lastInput' = answer.totalInput
    /\ componentDidUpdate
    /\ resetTimer
    /\ UNCHANGED cluster

Failure ==
    /\ request = "failed"
    /\ request' = "none"
    /\ resetTimer
    /\ UNCHANGED <<cluster, answer, lastInput, histories, lastRender, drawn>>

(* A second passes. *)
Tick ==
    /\ timer # 0
    /\ timer' = IF timer = 1 THEN 0 ELSE timer
    /\ lastRender' = IF lastRender = 0 THEN 1 ELSE lastRender
    /\ UNCHANGED <<cluster, request, answer, lastInput, histories, drawn>>

Next ==
    \/ Cluster
    \/ Serve
    \/ Fault
    \/ refreshLoop
    \/ Success
    \/ Failure
    \/ Tick

Spec == Init /\ [][Next]_vars

(* Requests do not fail for ever, callbacks run, time passes. *)
Fairness ==
    /\ SF_vars(Serve)
    /\ WF_vars(refreshLoop)
    /\ WF_vars(Success)
    /\ WF_vars(Failure)
    /\ WF_vars(Tick)

LiveSpec == Spec /\ Fairness

-----------------------------------------------------------------------------
last(h) == h[Len(h)]

(* A rate belongs to the period between two answers: the histories of the  *)
(* rates are one shorter than those of the counts until both are full.     *)
RatesAlignWithCounts ==
    LET full == MAX_HISTORY + 1
    IN  \A h \in {rowInputRate, perWorkerCpuTimeRate} :
            \/ Len(h) = Len(runningQueries) - 1
            \/ Len(h) = Len(runningQueries) /\ Len(h) \in {0, full}

(* The throttle of componentDidUpdate drops no answer: the sparklines show *)
(* the histories as the last answer left them.                             *)
EveryAnswerDrawn == drawn = histories

(* When the queries are over and there is a worker, the average CPU time   *)
(* per worker returns to zero, also after the NaN or Infinity of a cluster *)
(* without workers, which no later average could leave.                    *)
RateSettles ==
    <>[](activeWorkers = 1 /\ \A q \in Query : queryState[q] = "counted")
        => <>[](perWorkerCpuTimeRate # <<>> /\ last(perWorkerCpuTimeRate) = "zero")
=============================================================================
