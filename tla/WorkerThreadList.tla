-------------------------- MODULE WorkerThreadList --------------------------
(***************************************************************************)
(* components/WorkerThreadList.jsx: snapshots of a worker's threads, taken *)
(* when the user asks for one, and shown by group and state.               *)
(*                                                                         *)
(* Nothing stops the user from asking again while a request is open, so    *)
(* several may be, and their answers come in any order.  A thread is its   *)
(* group (its name up to the first "-<digits>") and its state; one thread  *)
(* of a group stands for all of them.                                      *)
(***************************************************************************)
EXTENDS Integers, Sequences, FiniteSets

CONSTANTS
    PoolGroup,      \* groups of threads that the worker always has
    QueryGroup,     \* groups of the threads of tasks (QUERY_THREAD_REGEX)
    ThreadState,    \* the states of THREAD_STATES that occur
    MaxClicks       \* bound: snapshots the user asks for

ALL_THREADS == "All Threads"
QUERY_THREADS == "Running Queries"
ALL_THREAD_STATE == "ALL"

Group == PoolGroup \cup QueryGroup
Thread == [group: Group, state: ThreadState]

VARIABLES
    live,           \* the threads the worker runs
    requests,       \* the request of each click
    page,           \* "open", or "crashed" when render has thrown
    threads,        \* the lists of the snapshot shown, NoLists before it
    initialized, selectedGroup, selectedThreadState

pageVars == <<page, threads, initialized, selectedGroup, selectedThreadState>>
vars == <<live, requests, pageVars>>

Request == [status: {"open", "failed", "answered", "handled"}, threads: SUBSET Thread]
NoLists == [g \in {} |-> {}]

(* The threads by group.  Only a group that has a thread gets a list. *)
processThreads(ts) ==
    LET queryThreads == {t \in ts : t.group \in QueryGroup}
        own == [g \in {t.group : t \in ts} |-> {t \in ts : t.group = g}]
    IN  [g \in {ALL_THREADS} \cup {QUERY_THREADS : t \in queryThreads} \cup DOMAIN own |->
            CASE g = ALL_THREADS -> ts [] g = QUERY_THREADS -> queryThreads [] OTHER -> own[g]]

filterThreads(group, state) ==
    {t \in threads[group] : t.state = state \/ state = ALL_THREAD_STATE}

(* What render shows; threads[selectedGroup] exists unless it has thrown. *)
view ==
    CASE page = "crashed" -> "nothing"
      [] page = "open" /\ threads = NoLists ->
            IF initialized THEN "Thread snapshot could not be loaded" ELSE "Capture Snapshot"
      [] page = "open" /\ threads # NoLists ->
            CASE filterThreads(selectedGroup, selectedThreadState) # {} -> "threads"
              [] selectedThreadState = ALL_THREAD_STATE -> "No threads in group"
              [] selectedGroup = ALL_THREADS -> "No threads with state"
              [] OTHER -> "No threads in group with state"

TypeOK ==
    /\ live \in SUBSET Thread
    /\ requests \in Seq(Request)
    /\ page \in {"open", "crashed"}
    /\ DOMAIN threads \subseteq Group \cup {ALL_THREADS, QUERY_THREADS}
    /\ \A g \in DOMAIN threads : threads[g] \subseteq Thread
    /\ initialized \in BOOLEAN
    /\ selectedGroup \in Group \cup {ALL_THREADS, QUERY_THREADS}
    /\ selectedThreadState \in ThreadState \cup {ALL_THREAD_STATE}

Init ==
    /\ live = {[group |-> g, state |-> CHOOSE s \in ThreadState : TRUE] : g \in PoolGroup}
    /\ requests = <<>>
    /\ page = "open"
    /\ threads = NoLists
    /\ initialized = FALSE
    /\ selectedGroup = ALL_THREADS
    /\ selectedThreadState = ALL_THREAD_STATE

-----------------------------------------------------------------------------
(* The worker: a thread starts, ends or changes its state. *)
ThreadChange(g) ==
    /\ \E new \in SUBSET {[group |-> g, state |-> s] : s \in ThreadState} :
            /\ Cardinality(new) <= 1
            /\ g \in PoolGroup => new # {}
            /\ live' = {t \in live : t.group # g} \cup new
    /\ UNCHANGED <<requests, pageVars>>

(* ThreadResource: the worker answers with its threads of that moment. *)
Serve(i) ==
    /\ requests[i].status = "open"
    /\ requests' = [requests EXCEPT ![i] = [status |-> "answered", threads |-> live]]
    /\ UNCHANGED <<live, pageVars>>

(* The worker is gone (404) or does not answer. *)
Fault(i) ==
    /\ requests[i].status = "open"
    /\ requests' = [requests EXCEPT ![i].status = "failed"]
    /\ UNCHANGED <<live, pageVars>>

-----------------------------------------------------------------------------
(* The buttons Capture Snapshot and New Snapshot. *)
handleNewSnapshotClick ==
    /\ view \notin {"nothing", "Thread snapshot could not be loaded"}
    /\ Len(requests) < MaxClicks
    /\ requests' = Append(requests, [status |-> "open", threads |-> {}])
    /\ initialized' = FALSE
    /\ UNCHANGED <<live, page, threads, selectedGroup, selectedThreadState>>

(* captureSnapshot's callbacks.  render reads the list of the selected     *)
(* group, a TypeError when the new snapshot has none.                      *)
Success(i) ==
    /\ requests[i].status = "answered"
    /\ requests' = [requests EXCEPT ![i].status = "handled"]
    /\ IF page = "open"
       THEN /\ threads' = processThreads(requests[i].threads)
            /\ initialized' = TRUE
            /\ page' = IF selectedGroup \in DOMAIN threads' THEN "open" ELSE "crashed"
       ELSE UNCHANGED <<threads, initialized, page>>
    /\ UNCHANGED <<live, selectedGroup, selectedThreadState>>

Failure(i) ==
    /\ requests[i].status = "failed"
    /\ requests' = [requests EXCEPT ![i].status = "handled"]
    /\ initialized' = (page = "open" \/ initialized)
    /\ UNCHANGED <<live, page, threads, selectedGroup, selectedThreadState>>

handleGroupClick(group) ==
    /\ page = "open"
    /\ group \in DOMAIN threads
    /\ selectedGroup' = group
    /\ UNCHANGED <<live, requests, page, threads, initialized, selectedThreadState>>

handleThreadStateClick(state) ==
    /\ page = "open"
    /\ threads # NoLists
    /\ selectedThreadState' = state
    /\ UNCHANGED <<live, requests, page, threads, initialized, selectedGroup>>

Next ==
    \/ \E g \in Group : ThreadChange(g)
    \/ \E i \in 1..Len(requests) : Serve(i) \/ Fault(i) \/ Success(i) \/ Failure(i)
    \/ handleNewSnapshotClick
    \/ \E g \in DOMAIN threads : handleGroupClick(g)
    \/ \E s \in ThreadState \cup {ALL_THREAD_STATE} : handleThreadStateClick(s)

Spec == Init /\ [][Next]_vars

(* Every request is answered or fails, and its callback runs. *)
Fairness ==
    \A i \in 1..MaxClicks :
        /\ WF_vars(i \in 1..Len(requests) /\ (Serve(i) \/ Fault(i)))
        /\ WF_vars(i \in 1..Len(requests) /\ (Success(i) \/ Failure(i)))

LiveSpec == Spec /\ Fairness

-----------------------------------------------------------------------------
(* Every thread of the snapshot shown is in the list of all threads and in *)
(* the list of one group, the one the menu offers for it.                  *)
GroupsPartition ==
    threads # NoLists =>
        \A t \in threads[ALL_THREADS] :
            Cardinality({g \in DOMAIN threads \cap Group : t \in threads[g]}) = 1

(* A click on Capture Snapshot or New Snapshot has an outcome: a snapshot, *)
(* or the end of waiting for it.                                           *)
ClickAnswered == (requests # <<>> /\ ~initialized) ~> (initialized \/ page = "crashed")
=============================================================================
