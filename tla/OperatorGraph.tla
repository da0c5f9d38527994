---------------------------- MODULE OperatorGraph ----------------------------
(***************************************************************************)
(* StageDetail.jsx, StageOperatorGraph: the graph of the operators of a    *)
(* stage, one chain per pipeline, built from the plan of the stage and     *)
(* from the operator statistics that its tasks have reported so far.       *)
(*                                                                         *)
(* The plan is made of the kinds of nodes that getChildren knows how to    *)
(* descend into: a "project" stands for those with one source, a "join"    *)
(* for those with two, whose second source is a pipeline of its own, an    *)
(* "exchange" for those with several sources, each a pipeline of its own,  *)
(* and a "scan" for those without.  A "fused" node has one source and no   *)
(* operator: its work is done by the operator of another node.             *)
(***************************************************************************)
EXTENDS Integers, Sequences, FiniteSets, FiniteSetsExt, SequencesExt

CONSTANT
    MaxNodes     \* bound: nodes of the plan

Kind == {"project", "fused", "join", "exchange", "scan"}

VARIABLES
    plan,        \* the nodes, each with its kind and its parent; 1 is the root
    reported     \* the pipelines of which a task has reported its operators
vars == <<plan, reported>>

Node == DOMAIN plan
children(n) == SetToSortSeq({m \in Node : plan[m].parent = n}, <)
arity(kind) == CASE kind \in {"project", "fused"} -> {1}
                 [] kind = "join"                 -> {2}
                 [] kind = "exchange"             -> {1, 2}
                 [] kind = "scan"                 -> {0}
complete == Node # {} /\ \A n \in Node : Len(children(n)) \in arity(plan[n].kind)

-----------------------------------------------------------------------------
(* LocalExecutionPlanner: the pipeline of the operators of a node.  The    *)
(* second source of a join and every source of an exchange start one of    *)
(* their own, which is named here after its topmost node.                  *)
startsPipeline(n) ==
    LET p == plan[n].parent
    IN  \/ p = 0
        \/ plan[p].kind = "exchange"
        \/ plan[p].kind = "join" /\ children(p)[2] = n

RECURSIVE pipelineOf(_)
pipelineOf(n) == IF startsPipeline(n) THEN n ELSE pipelineOf(plan[n].parent)

(* Every node but a fused one has an operator in its pipeline; a join and  *)
(* an exchange end the pipelines that start below them, and the output of  *)
(* the stage ends that of the root.  Operator ids grow from source to sink.*)
operatorsOf(n) ==
    LET own == IF plan[n].kind = "fused" THEN {} ELSE {pipelineOf(n)}
        ended == {m \in Node : plan[m].parent = n /\ startsPipeline(m)}
    IN  {[planNodeId |-> n, pipelineId |-> p, operatorId |-> 2 * (MaxNodes - n)] : p \in own \cup ended}
            \cup (IF n = 1 THEN {[planNodeId |-> 1, pipelineId |-> 1, operatorId |-> 2 * MaxNodes]} ELSE {})

Operator == IF complete THEN UNION {operatorsOf(n) : n \in Node} ELSE {}
Pipeline == {o.pipelineId : o \in Operator}

(* stageStats.operatorSummaries *)
operatorSummaries == {o \in Operator : o.pipelineId \in reported}

-----------------------------------------------------------------------------
Init ==
    /\ plan = <<>>
    /\ reported = {}

(* The planner adds nodes, sources after their parents. *)
AddNode(kind, parent) ==
    /\ reported = {}
    /\ Len(plan) < MaxNodes
    /\ \/ parent = 0 /\ Len(plan) = 0
       \/ parent \in Node /\ \E k \in arity(plan[parent].kind) : Len(children(parent)) < k
    /\ plan' = Append(plan, [kind |-> kind, parent |-> parent])
    /\ UNCHANGED reported

(* Some task starts the first driver of a pipeline, and the page refreshes.*)
Report(p) ==
    /\ complete
    /\ p \in Pipeline /\ p \notin reported
    /\ reported' = reported \cup {p}
    /\ UNCHANGED plan

Next ==
    \/ \E kind \in Kind, parent \in {0} \cup Node : AddNode(kind, parent)
    \/ \E p \in Node : Report(p)

Spec == Init /\ [][Next]_vars

-----------------------------------------------------------------------------
getChildren(n) == children(n)

(* computeOperatorMap: the operators of a node, sorted from source to sink *)
linkedOperators(n, p) ==
    SetToSortSeq({o \in operatorSummaries : o.planNodeId = n /\ o.pipelineId = p},
                 LAMBDA a, b : a.operatorId < b.operatorId)

(* Of two sources with an operator in one pipeline the first one counts. *)
firstOf(results, p) ==
    LET having == {i \in DOMAIN results : p \in DOMAIN results[i]} IN results[Min(having)][p]

merged(results) == [p \in UNION {DOMAIN results[i] : i \in DOMAIN results} |-> firstOf(results, p)]

(* The chains of the sources, with the operators of the node at the end. *)
nodeResult(n, sourceResults) ==
    LET own == {o.pipelineId : o \in {o \in operatorSummaries : o.planNodeId = n}}
    IN  [p \in own \cup DOMAIN sourceResults |->
            (IF p \in DOMAIN sourceResults THEN sourceResults[p] ELSE <<>>)
                \o (IF p \in own THEN linkedOperators(n, p) ELSE <<>>)]

RECURSIVE computeOperatorGraphs(_)
computeOperatorGraphs(n) ==
    LET sources == getChildren(n)
    IN  nodeResult(n, merged([i \in DOMAIN sources |-> computeOperatorGraphs(sources[i])]))

operatorGraphs == IF complete THEN computeOperatorGraphs(1) ELSE <<>>

-----------------------------------------------------------------------------
(* The graph has every operator that the tasks have reported, in the chain *)
(* of its pipeline, and nothing else: no pipeline is lost on the way up    *)
(* the plan, whichever of them have reported so far.                       *)
EveryOperatorDrawn ==
    /\ DOMAIN operatorGraphs = {o.pipelineId : o \in operatorSummaries}
    /\ \A p \in DOMAIN operatorGraphs :
            ToSet(operatorGraphs[p]) = {o \in operatorSummaries : o.pipelineId = p}

(* Every chain leads from the source of the pipeline to its sink: the      *)
(* order of the plan and that of the operator ids agree, and no operator   *)
(* is its own successor.                                                   *)
ChainsLeadToSink ==
    \A p \in DOMAIN operatorGraphs : \A i \in 2..Len(operatorGraphs[p]) :
        operatorGraphs[p][i - 1].operatorId < operatorGraphs[p][i].operatorId
=============================================================================
