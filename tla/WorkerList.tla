------------------------------ MODULE WorkerList ------------------------------
(***************************************************************************)
(* components/WorkerList.jsx: the table of the nodes of the cluster.  The  *)
(* coordinator answers with a HashSet, whose order may be any, and the     *)
(* page sorts it.  Node identifiers are numbers, compared as localeCompare *)
(* compares the strings.                                                   *)
(***************************************************************************)
EXTENDS Integers, Sequences, FiniteSets, SequencesExt

CONSTANTS Node, Coordinator

VARIABLES
    nodes,          \* the coordinator's view: the state of each node
    request,        \* "none", "open", "failed", "answered"
    answer,         \* the rows of an answer that is on its way
    timer,          \* is a refreshLoop due?
    workers,        \* the rows of the page
    initialized

pageVars == <<timer, workers, initialized>>
vars == <<nodes, request, answer, pageVars>>

(* JsonNodeInfo *)
Row == [nodeId: Node, state: {"active", "inactive"}]
rows == {r \in Row : nodes[r.nodeId] = r.state}

coordinator(w) == w.nodeId \in Coordinator

TypeOK ==
    /\ nodes \in [Node -> {"absent", "active", "inactive"}]
    /\ request \in {"none", "open", "failed", "answered"}
    /\ answer \in Seq(Row)
    /\ timer \in BOOLEAN
    /\ workers \in Seq(Row)
    /\ initialized \in BOOLEAN
    /\ timer => request = "none"

(* componentDidMount sends the first request. *)
Init ==
    /\ nodes = [n \in Node |-> IF n \in Coordinator THEN "active" ELSE "absent"]
    /\ request = "open"
    /\ answer = <<>>
    /\ timer = FALSE
    /\ workers = <<>>
    /\ initialized = FALSE

-----------------------------------------------------------------------------
(* A node joins, is found inactive, or is forgotten; the coordinator that  *)
(* serves the page is always there.                                        *)
NodeChange(n) ==
    /\ n \notin Coordinator
    /\ \E s \in {"absent", "active", "inactive"} \ {nodes[n]} : nodes' = [nodes EXCEPT ![n] = s]
    /\ UNCHANGED <<request, answer, pageVars>>

(* WorkerResource.getWorkerList *)
Serve ==
    /\ request = "open"
    /\ request' = "answered"
    /\ answer' \in SetToSeqs(rows)
    /\ UNCHANGED <<nodes, pageVars>>

Fault ==
    /\ request = "open"
    /\ request' = "failed"
    /\ UNCHANGED <<nodes, answer, pageVars>>

-----------------------------------------------------------------------------
(* The function workers.sort is given. *)
precedes(a, b) ==
    \/ coordinator(a) /\ ~coordinator(b)
    \/ coordinator(a) = coordinator(b) /\ a.nodeId < b.nodeId

resetTimer == timer' = TRUE

refreshLoop ==
    /\ timer
    /\ timer' = FALSE
    /\ request' = "open"
    /\ UNCHANGED <<nodes, answer, workers, initialized>>

Success ==
    /\ request = "answered"
    /\ request' = "none"
    /\ answer' = <<>>
    /\ workers' = SortSeq(answer, precedes)
    /\ initialized' = TRUE
    /\ resetTimer
    /\ UNCHANGED nodes

(* Mutant: no timer after a failure. *)
FailureStops ==
    /\ request = "failed"
    /\ request' = "none"
    /\ initialized' = TRUE
    /\ UNCHANGED <<nodes, answer, timer, workers>>

Failure ==
    /\ request = "failed"
    /\ request' = "none"
    /\ initialized' = TRUE
    /\ resetTimer
    /\ UNCHANGED <<nodes, answer, workers>>

Next ==
    \/ \E n \in Node : NodeChange(n)
    \/ Serve
    \/ Fault
    \/ refreshLoop
    \/ Success
    \/ Failure

Spec == Init /\ [][Next]_vars

(* Requests do not fail for ever, timers and callbacks run. *)
Fairness ==
    /\ SF_vars(Serve)
    /\ WF_vars(refreshLoop)
    /\ WF_vars(Success)
    /\ WF_vars(Failure)

LiveSpec == Spec /\ Fairness

-----------------------------------------------------------------------------
(* A node that has left for good leaves the table, though requests fail    *)
(* now and then.                                                           *)
GoneNodesLeave ==
    \A n \in Node : <>[](nodes[n] = "absent") => <>[](\A i \in 1..Len(workers) : workers[i].nodeId # n)
=============================================================================
