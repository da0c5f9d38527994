------------------------------ MODULE PlanGraph ------------------------------
(***************************************************************************)
(* LivePlan.jsx, getStages and updateD3Stage: the graph of the live plan,  *)
(* built from the plan fragments of the stages of a query.  A plan node is *)
(* local, or a remote source that reads other fragments, which it names in *)
(* its descriptor.                                                         *)
(* Nodes of the graph are named as in the code: "node-" for a plan node,   *)
(* "stage-...-root" for the box with the statistics of a stage; a cluster  *)
(* is a stage.                                                             *)
(***************************************************************************)
EXTENDS Integers, Sequences, FiniteSets, Graphs

CONSTANT MaxNodes      \* bound: nodes of the plan

VARIABLES
    plan,      \* the plan nodes, each with its kind, its stage, and what it feeds
    answer,    \* the stages in the answer that the page has, of those of the plan
    graph      \* state.graph, which the page adds to at every refresh
vars == <<plan, answer, graph>>

(* Stage 0 is the output stage; any other has the number of its root node. *)
Node == DOMAIN plan
stageRoots == {n \in Node : plan[n].feeds = 0 \/ plan[plan[n].feeds].kind = "remoteSource"}
rootOf(s) == CHOOSE n \in stageRoots : plan[n].stage = s
allStages == {plan[n].stage : n \in Node}
nodes(s) == {n \in Node : plan[n].stage = s}
children(n) == {m \in Node : plan[m].feeds = n /\ plan[m].stage = plan[n].stage}
sourceFragmentIds(n) == {plan[m].stage : m \in {m \in stageRoots : plan[m].feeds = n}}
subStages(s) == UNION {sourceFragmentIds(n) : n \in nodes(s)}

complete == \A n \in Node : plan[n].kind = "remoteSource" => sourceFragmentIds(n) # {}

Init ==
    /\ plan = <<>>
    /\ answer = {}
    /\ graph = [label |-> {}, edge |-> {}, parent |-> {}]

(* The planner: a further node, which feeds a local node of its stage, or, *)
(* as the root of a new stage, a remote source.                            *)
AddNode(kind, feeds) ==
    /\ answer = {}
    /\ Len(plan) < MaxNodes
    /\ feeds = 0 <=> Len(plan) = 0
    /\ plan' = Append(plan, [kind |-> kind, feeds |-> feeds,
                             stage |-> CASE feeds = 0 -> 0
                                         [] feeds # 0 /\ plan[feeds].kind = "remoteSource" -> Len(plan) + 1
                                         [] OTHER -> plan[feeds].stage])
    /\ UNCHANGED <<answer, graph>>

-----------------------------------------------------------------------------
(* getStages: flattenStage of the output stage and, first, of the stages   *)
(* below it, and flattenNode of their nodes                                *)
getStages == answer

(* Mutant: only the first of the fragments of a remote source is linked. *)
remoteEdgesFirst(n) ==
    {<<<<"stage", s, "root">>, <<"node", n>>>> :
        s \in {s \in sourceFragmentIds(n) \cap getStages : \A r \in sourceFragmentIds(n) : s <= r}}

remoteEdges(n) == {<<<<"stage", s, "root">>, <<"node", n>>>> : s \in sourceFragmentIds(n) \cap getStages}

(* What updateD3Stage sets in the graph. *)
updateD3Stage(s) ==
    [label  |-> {<<"stage", s, "root">>} \cup {<<"node", n>> : n \in nodes(s)},
     edge   |-> {<<<<"node", rootOf(s)>>, <<"stage", s, "root">>>>}
                    \cup UNION {{<<<<"node", m>>, <<"node", n>>>> : m \in children(n)} : n \in nodes(s)}
                    \cup UNION {remoteEdges(n) : n \in nodes(s)},
     parent |-> {<<<<"stage", s, "root">>, s>>} \cup {<<<<"node", n>>, s>> : n \in nodes(s)}]

updateD3Graph ==
    [f \in DOMAIN graph |-> graph[f] \cup UNION {updateD3Stage(s)[f] : s \in getStages}]

(* An answer has the output stage, and some or all of the stages below     *)
(* those that it has; later ones have more.                                *)
Answer(stages) ==
    /\ Node # {} /\ complete
    /\ 0 \in stages /\ answer \subseteq stages
    /\ \A s \in stages \ {0} : \E r \in stages : s \in subStages(r)
    /\ answer' = stages
    /\ UNCHANGED <<plan, graph>>

(* The page draws the answer that it has. *)
Draw ==
    /\ answer # {}
    /\ graph' = updateD3Graph
    /\ UNCHANGED <<plan, answer>>

Next ==
    \/ \E kind \in {"local", "remoteSource"}, feeds \in {0} \cup Node : AddNode(kind, feeds)
    \/ \E stages \in SUBSET allStages : Answer(stages)
    \/ Draw

Spec == Init /\ [][Next]_vars

-----------------------------------------------------------------------------
(* Every edge joins two nodes that have a label, and every such node is in *)
(* one cluster: setEdge makes a node without a label for an end that is    *)
(* not there, and such a node cannot be drawn.                             *)
EdgesJoinNodes ==
    /\ \A e \in graph.edge : e[1] \in graph.label /\ e[2] \in graph.label
    /\ \A n \in graph.label : Cardinality({p \in graph.parent : p[1] = n}) = 1

(* The drawn plan is whole: every node leads to the box of the output      *)
(* stage, over the remote sources of all stages between; also the second   *)
(* and further fragments of a remote source are linked to it.              *)
EveryNodeFeedsOutput ==
    LET output == <<"stage", 0, "root">>
        reaches == ConnectionsIn([node |-> graph.label, edge |-> graph.edge])
    IN  \A n \in graph.label \ {output} : reaches[n, output]
=============================================================================
