------------------------------- MODULE TaskList -------------------------------
(***************************************************************************)
(* QueryDetail.jsx, TaskList and the part of StageSummary around it: the   *)
(* table of the tasks of a stage, filtered by their state, and the bar     *)
(* chart of their times.  A task id is the number of the task (its         *)
(* partition) and of its attempt: with task retries a failed task is       *)
(* followed by another attempt of the same number.                         *)
(***************************************************************************)
EXTENDS Integers, Sequences, FiniteSets, SequencesExt

CONSTANTS
    Host, Port,
    MaxTasks       \* bound: tasks of the stage, all attempts counted

VARIABLES
    tasks,         \* stage.tasks, as the page sorted it after drawing it
    expanded,
    taskFilter
vars == <<tasks, expanded, taskFilter>>

TaskState == {"PLANNED", "RUNNING", "FLUSHING", "FINISHED", "CANCELED", "ABORTED", "FAILED"}
TASK_FILTER == [ALL |-> TaskState, PLANNED |-> {"PLANNED"}, RUNNING |-> {"RUNNING"}, FINISHED |-> {"FINISHED"},
                FAILED |-> {"FAILED", "ABORTED", "CANCELED"}]

Task == [id : (0..MaxTasks) \X (0..MaxTasks), host : Host, port : Port, state : TaskState]

getTaskNumber(task) == task.id[1]
ids == {tasks[i].id : i \in DOMAIN tasks}

(* The ids of the tasks are distinct: the rows of the table are keyed by   *)
(* them, and so is the worker's answer that a row links to.                *)
TypeOK ==
    /\ tasks \in Seq(Task)
    /\ Cardinality(ids) = Len(tasks)
    /\ expanded \in BOOLEAN
    /\ taskFilter \in DOMAIN TASK_FILTER

Init ==
    /\ tasks = <<>>
    /\ expanded = FALSE
    /\ taskFilter = "ALL"

-----------------------------------------------------------------------------
(* componentDidUpdate sorts the tasks of an answer by number, in place.    *)
(* Attempts of one number stay in the order in which they came.            *)
componentDidUpdate(s) ==
    \A i, j \in DOMAIN s : i < j => getTaskNumber(s[i]) <= getTaskNumber(s[j])

(* Every answer has the tasks in some order: the stage keeps them in a     *)
(* hash map.                                                               *)
Refresh(new) == \E s \in SetToSeqs(new) : componentDidUpdate(s) /\ tasks' = s

retries(t, host, port) ==
    {[id |-> <<t.id[1], t.id[2] + 1>>, host |-> host, port |-> port, state |-> "PLANNED"]}

(* The next answer: with a further task, one in another state, or another  *)
(* attempt of one that failed.                                             *)
Schedule ==
    /\ Len(tasks) < MaxTasks
    /\ \E host \in Host, port \in Port :
        Refresh(ToSet(tasks) \cup
            {[id |-> <<Cardinality({i[1] : i \in ids}), 0>>, host |-> host, port |-> port, state |-> "PLANNED"]})
    /\ UNCHANGED <<expanded, taskFilter>>

Change(t, state) ==
    /\ <<t.state, state>> \in ({"PLANNED"} \X {"RUNNING"}) \cup ({"RUNNING"} \X {"FLUSHING", "FINISHED"})
            \cup ({"FLUSHING"} \X {"FINISHED"})
            \cup ({"PLANNED", "RUNNING", "FLUSHING"} \X {"CANCELED", "ABORTED", "FAILED"})
    /\ Refresh((ToSet(tasks) \ {t}) \cup {[t EXCEPT !.state = state]})
    /\ UNCHANGED <<expanded, taskFilter>>

Retry(t) ==
    /\ Len(tasks) < MaxTasks
    /\ t.state = "FAILED"
    /\ <<t.id[1], t.id[2] + 1>> \notin ids
    /\ \E host \in Host, port \in Port : Refresh(ToSet(tasks) \cup retries(t, host, port))
    /\ UNCHANGED <<expanded, taskFilter>>

toggleExpanded ==
    /\ expanded' = ~expanded
    /\ UNCHANGED <<tasks, taskFilter>>

handleTaskFilterClick(filter) ==
    /\ taskFilter' = filter
    /\ UNCHANGED <<tasks, expanded>>

Next ==
    \/ Schedule
    \/ \E t \in ToSet(tasks) : (\E state \in TaskState : Change(t, state)) \/ Retry(t)
    \/ toggleExpanded
    \/ \E filter \in DOMAIN TASK_FILTER : handleTaskFilterClick(filter)

Spec == Init /\ [][Next]_vars

-----------------------------------------------------------------------------
(* compareTaskId < 0, on ids of one length *)
compareTaskId(taskA, taskB) ==
    \/ taskA.id[1] < taskB.id[1]
    \/ taskA.id[1] = taskB.id[1] /\ taskA.id[2] < taskB.id[2]

renderTaskList == SelectSeq(IF expanded THEN tasks ELSE <<>>, LAMBDA t : t.state \in TASK_FILTER[taskFilter])
rows == SortSeq(renderTaskList, compareTaskId)

(* hostToPortNumber has the last port of each host so far. *)
showPortNumbers ==
    \E i, j \in DOMAIN renderTaskList :
        /\ j < i /\ renderTaskList[j].host = renderTaskList[i].host
        /\ \A k \in (j + 1)..(i - 1) : renderTaskList[k].host # renderTaskList[i].host
        /\ renderTaskList[j].port # renderTaskList[i].port

getHostAndPort(t) == <<t.host, t.port>>
getHostname(t) == <<t.host>>
hostColumn(t) == IF showPortNumbers THEN getHostAndPort(t) ELSE getHostname(t)

(* The bar chart of an expanded stage: the tooltip of bar i is "Task" and  *)
(* the number i - 1, in the order of the sorted tasks.                     *)
barTooltips == [i \in DOMAIN tasks |-> i - 1]

-----------------------------------------------------------------------------
(* Two tasks have one text in the host column exactly when they are on one *)
(* worker, whatever the filter leaves of the stage: "Display port on the   *)
(* task list in the web UI when multiple workers share the same host".     *)
WorkersToldApart ==
    \A i, j \in DOMAIN rows :
        hostColumn(rows[i]) = hostColumn(rows[j]) <=> getHostAndPort(rows[i]) = getHostAndPort(rows[j])

(* The rows of the attempts of a task are next to each other, the first    *)
(* attempt first, though the answers have them in any order.               *)
AttemptsInOrder ==
    \A i \in 2..Len(rows) :
        \/ rows[i - 1].id[1] < rows[i].id[1]
        \/ rows[i - 1].id[1] = rows[i].id[1] /\ rows[i - 1].id[2] < rows[i].id[2]

(* The tooltip of a bar names the task whose time it shows, as long as no  *)
(* task was retried: "Task {{offset:offset}} - {{value}}".                 *)
TooltipNamesTask ==
    expanded /\ (\A i \in DOMAIN tasks : tasks[i].id[2] = 0)
        => \A i \in DOMAIN tasks : barTooltips[i] = getTaskNumber(tasks[i])

Symmetry == Permutations(Host) \cup Permutations(Port)
=============================================================================
