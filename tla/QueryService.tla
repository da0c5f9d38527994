---------------------------- MODULE QueryService ----------------------------
(***************************************************************************)
(* What the coordinator serves at /ui/api/query/{queryId} to the pages of  *)
(* the web interface about one query, and the request a page has open.     *)
(*                                                                         *)
(* The QueryInfo of a query changes while it is queued, runs and finishes. *)
(* It has no outputStage before the query is planned, is final some time   *)
(* after the query is done, loses its plan when it is pruned, and is gone  *)
(* (410) when the query is removed.  infos holds every value it has had, so*)
(* that the page's copy is an index into it: a larger one is more recent.  *)
(***************************************************************************)
EXTENDS Integers, Sequences

CONSTANT
    MaxProgress     \* bound: length of infos while the query still runs

ASSUME MaxProgressAssumption == MaxProgress \in Nat \ {0}

VARIABLES
    infos,      \* the values QueryInfo has had
    removed,    \* was the query removed from the QueryTracker?
    request     \* the open request: NoRequest, Pending, or what it returned

service == <<infos, removed>>

(* Values of request that are not the index of the info returned. *)
Failed == 0
Pending == -1
NoRequest == -2

(* A page's copy of the query before the first answer: null. *)
Null == 0

QueryInfo == [state: {"QUEUED", "RUNNING", "FINISHED", "FAILED"},
              outputStage: {"absent", "planned", "pruned"},
              finalQueryInfo: BOOLEAN]

current == infos[Len(infos)]
isDone(i) == i.state \in {"FINISHED", "FAILED"}

(* utils.js isQueryEnded, of the states the coordinator reports. *)
isQueryEnded(i) == i.state \in {"FINISHED", "FAILED", "CANCELED"}

ServiceTypeOK ==
    /\ infos \in Seq(QueryInfo)
    /\ Len(infos) >= 1
    /\ removed \in BOOLEAN

ServiceInit ==
    /\ infos = <<[state |-> "QUEUED", outputStage |-> "absent", finalQueryInfo |-> FALSE]>>
    /\ removed = FALSE

Publish(i) ==
    /\ ~removed
    /\ infos' = Append(infos, i)
    /\ UNCHANGED removed

(* The query is planned and its stages are scheduled. *)
Start ==
    /\ current.state = "QUEUED"
    /\ Publish([current EXCEPT !.state = "RUNNING", !.outputStage = "planned"])

(* Statistics change while the query runs. *)
Progress ==
    /\ current.state = "RUNNING"
    /\ Len(infos) < MaxProgress
    /\ Publish(current)

(* A query that fails before it starts has no final info to wait for. *)
Finish(state) ==
    /\ ~isDone(current)
    /\ Publish([current EXCEPT !.state = state,
                               !.finalQueryInfo = state = "FAILED" /\ current.outputStage = "absent"])

(* All tasks are done. *)
Finalize ==
    /\ isDone(current)
    /\ ~current.finalQueryInfo
    /\ Publish([current EXCEPT !.finalQueryInfo = TRUE])

(* pruneQueryInfo: without an output stage there is nothing to prune. *)
Prune ==
    /\ current.finalQueryInfo
    /\ current.outputStage = "planned"
    /\ Publish([current EXCEPT !.outputStage = "pruned"])

Expire ==
    /\ current.finalQueryInfo
    /\ ~removed
    /\ removed' = TRUE
    /\ UNCHANGED infos

(* Mutant: the coordinator does not check the state of the query. *)
KillUnchecked(query) ==
    /\ query # Null
    /\ ~isQueryEnded(infos[query])
    /\ Publish([current EXCEPT !.state = "FAILED"])

(* The kill button of QueryHeader, of a page that shows infos[query]: there*)
(* is one only while that copy has not ended, and the coordinator checks   *)
(* its own state (failQuery: CONFLICT, GONE).                              *)
Kill(query) ==
    /\ query # Null
    /\ ~isQueryEnded(infos[query])
    /\ IF removed \/ isDone(current) THEN UNCHANGED service ELSE Finish("FAILED")

ServiceNext ==
    \/ Start
    \/ Progress
    \/ \E state \in {"FINISHED", "FAILED"} : Finish(state)
    \/ Finalize
    \/ Prune
    \/ Expire

-----------------------------------------------------------------------------
(* The request: the coordinator's answer is the info of that moment, which *)
(* the page handles later.                                                 *)

(* Mutant: the answer may come from a cache. *)
ServeCached ==
    /\ request = Pending
    /\ \E i \in 1..Len(infos) : request' = i
    /\ UNCHANGED service

Serve ==
    /\ request = Pending
    /\ request' = IF removed THEN Failed ELSE Len(infos)
    /\ UNCHANGED service

Fault ==
    /\ request = Pending
    /\ request' = Failed
    /\ UNCHANGED service
=============================================================================
