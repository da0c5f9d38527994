----------------------------- MODULE WorkerPages -----------------------------
(***************************************************************************)
(* worker.jsx and workers.jsx: the page of a worker, with its WorkerStatus *)
(* and its WorkerThreadList, and the page of all workers (WorkerList).     *)
(* The components share no state and have requests and timers of their     *)
(* own: the active one takes steps, and the others do not.                 *)
(***************************************************************************)
EXTENDS WorkerStatus

CONSTANTS Node, Coordinator, PoolGroup, QueryGroup, ThreadState, MaxClicks

VARIABLES
    active,     \* the component that takes steps
    nodes, listRequest, answer, listTimer, workers, listInitialized,
    live, requests, page, threads, threadsInitialized, selectedGroup, selectedThreadState

List == INSTANCE WorkerList WITH request <- listRequest, timer <- listTimer,
            initialized <- listInitialized
Threads == INSTANCE WorkerThreadList WITH initialized <- threadsInitialized

ASSUME NodeAssumption == Node \subseteq Nat /\ Coordinator \subseteq Node

(* The names of the groups and states are no special names. *)
ASSUME ThreadAssumption ==
    /\ PoolGroup \cap QueryGroup = {}
    /\ {Threads!ALL_THREADS, Threads!QUERY_THREADS} \cap (PoolGroup \cup QueryGroup) = {}
    /\ Threads!ALL_THREAD_STATE \notin ThreadState
    /\ MaxClicks \in Nat

listVars == <<nodes, listRequest, answer, listTimer, workers, listInitialized>>
threadVars == <<live, requests, page, threads, threadsInitialized, selectedGroup, selectedThreadState>>
workerVars == <<active, vars, listVars, threadVars>>

InStatus == active = "WorkerStatus" /\ UNCHANGED <<active, listVars, threadVars>>
InList == active = "WorkerList" /\ UNCHANGED <<active, vars, threadVars>>
InThreads == active = "WorkerThreadList" /\ UNCHANGED <<active, vars, listVars>>

WorkerInit ==
    /\ active \in {"WorkerStatus", "WorkerList", "WorkerThreadList"}
    /\ Init
    /\ List!Init
    /\ Threads!Init

WorkerNext ==
    \/ InStatus /\ Next
    \/ InList /\ List!Next
    \/ InThreads /\ Threads!Next

Answered ==
    \/ Success /\ InStatus
    \/ List!Serve /\ InList

TimerFires ==
    \/ refreshLoop /\ InStatus
    \/ List!refreshLoop /\ InList

RequestEnds == \E i \in 1..Len(requests) : (Threads!Serve(i) \/ Threads!Fault(i)) /\ InThreads

CallbackRuns ==
    \/ (List!Success \/ List!Failure) /\ InList
    \/ \E i \in 1..Len(requests) : (Threads!Success(i) \/ Threads!Failure(i)) /\ InThreads

(* Of the requests that a component sends again and again one is answered; *)
(* timers fire, callbacks run, and a request for a snapshot, which is sent *)
(* once, is answered or fails.                                             *)
WorkerFairness ==
    /\ SF_workerVars(Answered)
    /\ WF_workerVars(TimerFires \/ RequestEnds)
    /\ WF_workerVars(CallbackRuns)

WorkerSpec == WorkerInit /\ [][WorkerNext]_workerVars /\ WorkerFairness

-----------------------------------------------------------------------------
(* The properties of MemoryPool keep their names (see WorkerStatus).       *)

(* The type of the state of the pages. *)
WorkerTypeOK == TypeOK /\ List!TypeOK /\ Threads!TypeOK

(* What the worker page shows adds up: the queries listed account for the  *)
(* bar of the memory pool, rounded as it is, a full pool looks full, and   *)
(* every thread is listed under one group.                                 *)
WorkerPageInv ==
    /\ WorkerTypeOK
    /\ QueriesAccountForBar
    /\ FullPoolLooksFull
    /\ SharesWithinBar
    /\ Threads!GroupsPartition

(* The sparklines of WorkerStatus fill, a node that has left for good      *)
(* leaves the table of WorkerList, and a click for a snapshot has an       *)
(* outcome, although requests fail now and then.                           *)
RefreshingGoesOn ==
    /\ active = "WorkerStatus" => HistoryFills
    /\ List!GoneNodesLeave
    /\ Threads!ClickAnswered
=============================================================================
