----------------------------- MODULE QueryStatus -----------------------------
(***************************************************************************)
(* utils.js: how the pages name and colour the state of a query and of its *)
(* stages, and the progress bar of QueryHeader.jsx and QueryList.jsx, for  *)
(* every state that a query of the coordinator goes through.               *)
(***************************************************************************)
EXTENDS Integers, Sequences, FiniteSets

CONSTANTS
    Stage, Root,    \* the stages of the query, and the one without a parent
    MaxDrivers      \* bound: drivers of the query

ErrorType == {"USER_ERROR", "INTERNAL_ERROR", "INSUFFICIENT_RESOURCES", "EXTERNAL"}

VARIABLES
    state,                          \* of the query
    errorType,                      \* of a query that FAILED, else "none"
    canceled,                       \* is its errorCode USER_CANCELED?
    stageState,                     \* of each stage
    stageBlocked,                   \* the stages whose drivers are all blocked
    totalDrivers, completedDrivers
vars == <<state, errorType, canceled, stageState, stageBlocked, totalDrivers, completedDrivers>>

QueryState == <<"QUEUED", "WAITING_FOR_RESOURCES", "DISPATCHING", "PLANNING", "STARTING", "RUNNING">>
StageState == {"PLANNED", "SCHEDULING", "RUNNING", "PENDING", "FINISHED", "ABORTED", "FAILED"}

isDone(s) == stageState[s] \in {"FINISHED", "ABORTED", "FAILED"}
(* A query has no stages before it is planned. *)
stages == DOMAIN stageState
hasStages == stages # {}

TypeOK ==
    /\ state \in {QueryState[i] : i \in 1..6} \cup {"FINISHING", "FINISHED", "FAILED"}
    /\ errorType \in ErrorType \cup {"none"}
    /\ (errorType = "none") = (state # "FAILED")
    /\ canceled \in BOOLEAN
    /\ stages \in {{}, Stage} /\ stageState \in [stages -> StageState]
    /\ stageBlocked \subseteq {s \in stages : stageState[s] = "RUNNING"}
    /\ totalDrivers \in 0..MaxDrivers
    /\ completedDrivers \in 0..totalDrivers

Init ==
    /\ state = "QUEUED"
    /\ errorType = "none"
    /\ canceled = FALSE
    /\ stageState = [s \in {} |-> "PLANNED"]
    /\ stageBlocked = {}
    /\ totalDrivers = 0
    /\ completedDrivers = 0

-----------------------------------------------------------------------------
(* The coordinator *)
Advance ==
    /\ \E i \in 1..5 : state = QueryState[i] /\ state' = QueryState[i + 1]
    /\ stageState' = IF state' = "STARTING" THEN [s \in Stage |-> "PLANNED"] ELSE stageState
    /\ UNCHANGED <<errorType, canceled, stageBlocked, totalDrivers, completedDrivers>>

(* A stage also fails before its query does; once the query ended, the     *)
(* stages that did not are aborted.                                        *)
StageChange(s, new) ==
    /\ \/ /\ state \in {"STARTING", "RUNNING"}
          /\ <<stageState[s], new>> \in {<<"PLANNED", "SCHEDULING">>, <<"SCHEDULING", "RUNNING">>,
                  <<"RUNNING", "PENDING">>, <<"PENDING", "RUNNING">>, <<"RUNNING", "FINISHED">>}
       \/ state \in {"STARTING", "RUNNING"} /\ ~isDone(s) /\ new = "FAILED"
       \/ state \in {"FINISHED", "FAILED"} /\ ~isDone(s) /\ new = "ABORTED"
    /\ stageState' = [stageState EXCEPT ![s] = new]
    /\ stageBlocked' = stageBlocked \ {s}
    /\ UNCHANGED <<state, errorType, canceled, totalDrivers, completedDrivers>>

Block(s) ==
    /\ state \in {"STARTING", "RUNNING"}
    /\ stageState[s] = "RUNNING"
    /\ stageBlocked' = IF s \in stageBlocked THEN stageBlocked \ {s} ELSE stageBlocked \cup {s}
    /\ UNCHANGED <<state, errorType, canceled, stageState, totalDrivers, completedDrivers>>

Drivers ==
    /\ state \in {"STARTING", "RUNNING"}
    /\ \E s \in stages : ~isDone(s)
    /\ \/ totalDrivers < MaxDrivers /\ totalDrivers' = totalDrivers + 1 /\ UNCHANGED completedDrivers
       \/ completedDrivers < totalDrivers /\ completedDrivers' = completedDrivers + 1 /\ UNCHANGED totalDrivers
    /\ UNCHANGED <<state, errorType, canceled, stageState, stageBlocked>>

Finish ==
    /\ \/ state = "RUNNING" /\ stageState[Root] = "FINISHED" /\ state' = "FINISHING"
       \/ state = "FINISHING" /\ state' = "FINISHED"
    /\ UNCHANGED <<errorType, canceled, stageState, stageBlocked, totalDrivers, completedDrivers>>

Fail(type, byUser) ==
    /\ state \notin {"FINISHED", "FAILED"}
    /\ byUser => type = "USER_ERROR"
    /\ state' = "FAILED"
    /\ errorType' = type
    /\ canceled' = byUser
    /\ UNCHANGED <<stageState, stageBlocked, totalDrivers, completedDrivers>>

Next ==
    \/ Advance
    \/ \E s \in stages, new \in StageState : StageChange(s, new)
    \/ \E s \in stages : Block(s)
    \/ Drivers
    \/ Finish
    \/ \E type \in ErrorType, byUser \in BOOLEAN : Fail(type, byUser)

Spec == Init /\ [][Next]_vars

(* QueryInfo: what the pages read.  progressPercentage is the fraction of  *)
(* the drivers that completed, and absent before the query is scheduled.   *)
scheduled == hasStages /\ \A s \in stages : stageState[s] \in {"RUNNING", "PENDING"} \/ isDone(s)
fullyBlocked == hasStages /\ \A s \in stages : isDone(s) \/ s \in stageBlocked
progressPercentage ==
    IF ~scheduled \/ totalDrivers = 0 THEN {} ELSE {<<completedDrivers * 100, totalDrivers>>}

-----------------------------------------------------------------------------
(* Mutant: the colour of a running query forgets that it may be blocked. *)
getQueryStateColorRunning ==
    CASE state \in {"STARTING", "FINISHING"} -> IF fullyBlocked THEN "BLOCKED" ELSE "RUNNING"
      [] state = "FAILED" -> "UNKNOWN_ERROR"
      [] state \in {"RUNNING", "PLANNING", "FINISHED"} -> state
      [] OTHER -> "QUEUED"

getQueryStateColor ==
    CASE state \in {"STARTING", "FINISHING", "RUNNING"} -> IF fullyBlocked THEN "BLOCKED" ELSE "RUNNING"
      [] state = "FAILED" -> CASE errorType = "USER_ERROR" -> IF canceled THEN "CANCELED" ELSE "USER_ERROR"
                               [] errorType = "EXTERNAL" -> "EXTERNAL_ERROR"
                               [] errorType = "INSUFFICIENT_RESOURCES" -> "INSUFFICIENT_RESOURCES"
                               [] OTHER -> "UNKNOWN_ERROR"
      [] state \in {"PLANNING", "FINISHED"} -> state
      [] OTHER -> "QUEUED"

stageColors == [PLANNED |-> "QUEUED", SCHEDULING |-> "PLANNING", RUNNING |-> "RUNNING", PENDING |-> "#b5b5b5",
                FINISHED |-> "FINISHED", ABORTED |-> "CANCELED", FAILED |-> "UNKNOWN_ERROR"]

(* The states PENDING and those that no coordinator knows are grey. *)
getStageStateColor(s) ==
    IF stageState[s] = "RUNNING" /\ s \in stageBlocked THEN "BLOCKED" ELSE stageColors[stageState[s]]

(* The cases of the switch on the error type have no break: each runs into *)
(* the next, and the last assigns the message of them all.                 *)
getHumanReadableState ==
    CASE state = "RUNNING" -> IF scheduled /\ totalDrivers > 0 /\ fullyBlocked THEN "BLOCKED" ELSE "RUNNING"
      [] state = "FAILED" -> "EXTERNAL ERROR"
      [] OTHER -> state

(* A progress of 0 is as good as none to JavaScript. *)
meaningful == \E p \in progressPercentage : p[1] # 0
rounded == LET p == CHOOSE p \in progressPercentage : TRUE IN (2 * p[1] + p[2]) \div (2 * p[2])

getProgressBarPercentage == IF ~meaningful \/ state # "RUNNING" THEN 100 ELSE rounded

(* The state, and the percentage in parentheses when there is one. *)
getProgressBarTitle ==
    [state |-> getHumanReadableState,
     percentage |-> IF meaningful /\ state = "RUNNING" THEN {getProgressBarPercentage} ELSE {}]

-----------------------------------------------------------------------------
(* The bar is less than full only with the percentage it shows in its      *)
(* title, and it is full once the query ended: "progress bars should       *)
(* appear 'full' when query progress is not meaningful".                   *)
PartialBarHasTitle == getProgressBarPercentage # 100 => getProgressBarTitle.percentage = {getProgressBarPercentage}

(* A bar whose title gives a percentage has the colour of the state in the *)
(* title, blocked or running: the title and the colour decide this by      *)
(* different conditions.                                                   *)
TitleAndColorAgree ==
    getProgressBarTitle.percentage # {} => getProgressBarTitle.state = getQueryStateColor

endedColors == {"FINISHED", "CANCELED", "UNKNOWN_ERROR"}

(* When the query and all its stages have ended, every stage of the live   *)
(* plan and of the stage list is coloured as ended.                        *)
EndedStagesLookEnded ==
    (state \in {"FINISHED", "FAILED"} /\ \A s \in stages : isDone(s)) =>
        \A s \in stages : getStageStateColor(s) \in endedColors
=============================================================================
