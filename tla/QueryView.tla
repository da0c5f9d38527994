------------------------------ MODULE QueryView ------------------------------
(***************************************************************************)
(* What a page of the web interface promises about the query it shows: it  *)
(* refreshes its copy, never goes back to an older one, and stops with the *)
(* final info, which then stays.  The pages that refresh themselves        *)
(* (QueryDetail, StageDetail, LivePlan) implement this specification.      *)
(***************************************************************************)
EXTENDS Integers, Sequences

VARIABLES
    infos,      \* the values the coordinator's QueryInfo has had
    query,      \* the one the page shows, 0 before the first answer
    polling     \* does the page still refresh itself?

vars == <<infos, query, polling>>

Init ==
    /\ Len(infos) >= 1
    /\ query = 0
    /\ polling = TRUE

(* The coordinator's info changes; what it was remains what it was. *)
Change ==
    /\ Len(infos') = Len(infos) + 1
    /\ \A i \in 1..Len(infos) : infos'[i] = infos[i]
    /\ UNCHANGED <<query, polling>>

Show(i) ==
    /\ polling
    /\ i \in 1..Len(infos)
    /\ query <= i
    /\ query' = i
    /\ polling' = ~infos[i].finalQueryInfo
    /\ UNCHANGED infos

Next == Change \/ \E i \in 1..Len(infos) : Show(i)

Spec == Init /\ [][Next]_vars
=============================================================================
