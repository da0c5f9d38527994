------------------------------ MODULE QueryList ------------------------------
(***************************************************************************)
(* components/QueryList.jsx: the list of queries on the main page.  Once a *)
(* second it gets all queries from the coordinator, updates those it       *)
(* displays in place and appends new ones; every reorderInterval it filters*)
(* and sorts everything again.  The user filters, searches, sorts and      *)
(* limits the list at any time, also while a request is open.              *)
(*                                                                         *)
(* Only the page looks at the coordinator's list, so the moment at which   *)
(* it is read is that of the callback.                                     *)
(***************************************************************************)
EXTENDS Integers, Sequences, FiniteSets, SequencesExt, TLC

CONSTANTS
    Query,              \* the queries; a larger number was created later
    StateFilterChoice,  \* what the user may click on: state filters,
    ErrorTypeChoice,    \*   error types,
    SortTypeChoice,     \*   sort types,
    ReorderChoice,      \*   reorder intervals (0 for Off, 1 for any other),
    MaxQueriesChoice,   \*   numbers of queries (0 for All queries),
    SearchChoice,       \*   and what the user types
    EndChoice,          \* the states in which a query may end
    InitialMaxQueries   \* state.maxQueries of the constructor: 100

ASSUME QueryAssumption == Query \subseteq Nat /\ InitialMaxQueries \in Nat

VARIABLES
    queries,            \* the coordinator's queries: state of each, or "none"
    request,            \* "none", "open"
    timer,              \* is timeoutId armed?
    searchTimer,        \* is searchTimeoutId armed?
    allQueries, displayedQueries,
    reorderInterval,
    reorderDue,         \* is lastReorder at least reorderInterval ago?
    currentSortType, currentSortOrder,
    stateFilters, errorTypeFilters, searchString, maxQueries,
    initialized,
    searched            \* was displayedQueries computed with searchString?

choices == <<reorderInterval, currentSortType, currentSortOrder, stateFilters,
             errorTypeFilters, maxQueries>>
vars == <<queries, request, timer, searchTimer, allQueries, displayedQueries, reorderDue,
          choices, searchString, initialized, searched>>

ErrorType == {"USER_ERROR", "INTERNAL_ERROR", "INSUFFICIENT_RESOURCES", "EXTERNAL"}
State == {"QUEUED", "RUNNING", "FINISHED"} \cup ErrorType     \* FAILED by its error type
Info == [id: Query, state: State]

(* The coordinator's answer lists its queries in an order of its own. *)
queryList ==
    LET listed == SetToSortSeq({q \in Query : queries[q] \in State},
                               LAMBDA a, b : a % 2 < b % 2 \/ (a % 2 = b % 2 /\ a < b))
    IN  [i \in 1..Len(listed) |-> [id |-> listed[i], state |-> queries[listed[i]]]]

-----------------------------------------------------------------------------
(* FILTER_TYPE and ERROR_TYPE: does a filter let the query through? *)
passes(filter, q) == CASE filter = "RUNNING" -> q.state \notin ({"QUEUED", "FINISHED"} \cup ErrorType)
                       [] OTHER -> q.state = filter

(* What a search finds: "" everything, a state the queries in it, and a    *)
(* number the query with that id.                                          *)
matches(term, q) == term = "" \/ q.state = term \/ ToString(q.id) = term

filterQueries(s, states, errors, term) ==
    SelectSeq(s, LAMBDA q : (\E f \in states \cup errors : passes(f, q)) /\ matches(term, q))

(* SORT_TYPE: by creation, or by a statistic that grows while it runs. *)
sortKey(type, q) == IF type = "CREATED" THEN q.id
                    ELSE IF q.state = "QUEUED" THEN 0 ELSE Cardinality(Query) + 1 - q.id

(* Array.prototype.sort is stable. *)
sortQueries(s, type, order) ==
    LET key(i) == IF order = "ASCENDING" THEN sortKey(type, s[i]) ELSE -sortKey(type, s[i])
        sorted == SortSeq([i \in 1..Len(s) |-> i],
                          LAMBDA i, j : key(i) < key(j) \/ (key(i) = key(j) /\ i < j))
    IN  [i \in 1..Len(s) |-> s[sorted[i]]]

limit(s, max) == IF Len(s) > max THEN SubSeq(s, 1, max) ELSE s

sortAndLimitQueries(s, type, order, max) == limit(sortQueries(s, type, order), max)

(* What every handler displays: the queries of the last answer, filtered,  *)
(* sorted and limited with the new choices.                                *)
recomputed(states, errors, term, type, order, max) ==
    sortAndLimitQueries(filterQueries(allQueries, states, errors, term), type, order, max)

-----------------------------------------------------------------------------
TypeOK ==
    /\ queries \in [Query -> State \cup {"none", "removed"}]
    /\ request \in {"none", "open"}
    /\ timer \in BOOLEAN
    /\ searchTimer \in BOOLEAN
    /\ allQueries \in Seq(Info)
    /\ displayedQueries \in Seq(Info)
    /\ reorderInterval \in {0, 1}
    /\ reorderDue \in BOOLEAN
    /\ currentSortType \in {"CREATED", "CPU"}
    /\ currentSortOrder \in {"ASCENDING", "DESCENDING"}
    /\ stateFilters \subseteq {"QUEUED", "RUNNING", "FINISHED"}
    /\ errorTypeFilters \subseteq ErrorType
    /\ maxQueries \in MaxQueriesChoice \cup {InitialMaxQueries}
    /\ searchString \in SearchChoice \cup {""}
    /\ initialized \in BOOLEAN
    /\ searched \in BOOLEAN

(* The page is mounted, and its first request sent. *)
Init ==
    /\ queries = [q \in Query |-> "none"]
    /\ request = "open"
    /\ timer = FALSE
    /\ searchTimer = FALSE
    /\ allQueries = <<>>
    /\ displayedQueries = <<>>
    /\ reorderInterval = 1
    /\ reorderDue = FALSE
    /\ currentSortType = "CREATED"
    /\ currentSortOrder = "DESCENDING"
    /\ stateFilters = {"RUNNING", "QUEUED"}
    /\ errorTypeFilters = {"INTERNAL_ERROR", "INSUFFICIENT_RESOURCES", "EXTERNAL"}
    /\ maxQueries = InitialMaxQueries
    /\ searchString = ""
    /\ initialized = FALSE
    /\ searched = TRUE

-----------------------------------------------------------------------------
(* The coordinator. *)
Advance(q, state) ==
    /\ CASE state = "QUEUED"    -> queries[q] = "none"
         [] state = "RUNNING"   -> queries[q] = "QUEUED"
         [] state \in EndChoice -> queries[q] \in {"QUEUED", "RUNNING"}
         [] state = "removed"   -> queries[q] \in EndChoice
    /\ queries' = [queries EXCEPT ![q] = state]
    /\ UNCHANGED <<request, timer, searchTimer, allQueries, displayedQueries, reorderDue,
                   choices, searchString, initialized, searched>>

ReorderComesDue ==
    /\ ~reorderDue
    /\ reorderDue' = TRUE
    /\ UNCHANGED <<queries, request, timer, searchTimer, allQueries, displayedQueries,
                   choices, searchString, initialized, searched>>

(* refreshLoop, which also drops a search that is due. *)
refreshLoop ==
    /\ timer
    /\ timer' = FALSE
    /\ searchTimer' = FALSE
    /\ request' = "open"
    /\ UNCHANGED <<queries, allQueries, displayedQueries, reorderDue, choices,
                   searchString, initialized, searched>>

(* The displayed queries that are still there, with their new info. *)
updatedQueries ==
    LET kept == SelectSeq(displayedQueries, LAMBDA q : queries[q.id] \in State)
    IN  [i \in 1..Len(kept) |-> [id |-> kept[i].id, state |-> queries[kept[i].id]]]

(* The others, in the order of the answer. *)
newQueries ==
    filterQueries(SelectSeq(queryList, LAMBDA q : \A i \in 1..Len(updatedQueries) : updatedQueries[i].id # q.id),
                  stateFilters, errorTypeFilters, searchString)

reorders == reorderInterval # 0 /\ reorderDue

(* Mutant: only the new queries are filtered again. *)
refreshedUnfiltered ==
    IF reorders
    THEN sortQueries(updatedQueries \o newQueries, currentSortType, currentSortOrder)
    ELSE updatedQueries \o sortQueries(newQueries, currentSortType, currentSortOrder)

refreshed ==
    IF reorders
    THEN sortQueries(filterQueries(updatedQueries, stateFilters, errorTypeFilters, searchString) \o newQueries,
                     currentSortType, currentSortOrder)
    ELSE updatedQueries \o sortQueries(newQueries, currentSortType, currentSortOrder)

(* resetTimer always arms the timer: this component has no state.query. *)
Success ==
    /\ request = "open"
    /\ request' = "none"
    /\ allQueries' = queryList
    /\ displayedQueries' = IF maxQueries # 0 THEN limit(refreshed, maxQueries) ELSE refreshed
    /\ reorderDue' = (reorderDue /\ ~reorders)
    /\ initialized' = TRUE
    /\ searched' = TRUE
    /\ timer' = TRUE
    /\ UNCHANGED <<queries, searchTimer, choices, searchString>>

Failure ==
    /\ request = "open"
    /\ request' = "none"
    /\ initialized' = TRUE
    /\ timer' = TRUE
    /\ UNCHANGED <<queries, searchTimer, allQueries, displayedQueries, reorderDue, choices,
                   searchString, searched>>

-----------------------------------------------------------------------------
(* The user. *)
handleSearchStringChange(term) ==
    /\ term # searchString
    /\ searchString' = term
    /\ searchTimer' = TRUE
    /\ searched' = FALSE
    /\ UNCHANGED <<queries, request, timer, allQueries, displayedQueries, reorderDue,
                   choices, initialized>>

executeSearch ==
    /\ searchTimer
    /\ searchTimer' = FALSE
    /\ displayedQueries' = recomputed(stateFilters, errorTypeFilters, searchString,
                                      currentSortType, currentSortOrder, maxQueries)
    /\ searched' = TRUE
    /\ UNCHANGED <<queries, request, timer, allQueries, reorderDue, choices, searchString, initialized>>

handleMaxQueriesClick(max) ==
    /\ maxQueries' = max
    /\ displayedQueries' = recomputed(stateFilters, errorTypeFilters, searchString,
                                      currentSortType, currentSortOrder, max)
    /\ searched' = TRUE
    /\ UNCHANGED <<queries, request, timer, searchTimer, allQueries, reorderDue, reorderInterval,
                   currentSortType, currentSortOrder, stateFilters, errorTypeFilters, searchString, initialized>>

handleReorderClick(interval) ==
    /\ reorderInterval # interval
    /\ reorderInterval' = interval
    /\ UNCHANGED <<queries, request, timer, searchTimer, allQueries, displayedQueries, reorderDue,
                   currentSortType, currentSortOrder, stateFilters, errorTypeFilters, maxQueries,
                   searchString, initialized, searched>>

handleSortClick(type) ==
    /\ currentSortType' = type
    /\ currentSortOrder' = IF currentSortType = type /\ currentSortOrder = "DESCENDING"
                           THEN "ASCENDING" ELSE "DESCENDING"
    /\ displayedQueries' = recomputed(stateFilters, errorTypeFilters, searchString,
                                      type, currentSortOrder', maxQueries)
    /\ searched' = TRUE
    /\ UNCHANGED <<queries, request, timer, searchTimer, allQueries, reorderDue, reorderInterval,
                   stateFilters, errorTypeFilters, maxQueries, searchString, initialized>>

toggled(filters, f) == IF f \in filters THEN filters \ {f} ELSE filters \cup {f}

(* Mutant: the queries are filtered with the filters before the click. *)
handleStateFilterClickOld(filter) ==
    /\ stateFilters' = toggled(stateFilters, filter)
    /\ displayedQueries' = recomputed(stateFilters, errorTypeFilters, searchString,
                                      currentSortType, currentSortOrder, maxQueries)
    /\ searched' = TRUE
    /\ UNCHANGED <<queries, request, timer, searchTimer, allQueries, reorderDue, reorderInterval,
                   currentSortType, currentSortOrder, errorTypeFilters, maxQueries, searchString, initialized>>

handleStateFilterClick(filter) ==
    /\ stateFilters' = toggled(stateFilters, filter)
    /\ displayedQueries' = recomputed(stateFilters', errorTypeFilters, searchString,
                                      currentSortType, currentSortOrder, maxQueries)
    /\ searched' = TRUE
    /\ UNCHANGED <<queries, request, timer, searchTimer, allQueries, reorderDue, reorderInterval,
                   currentSortType, currentSortOrder, errorTypeFilters, maxQueries, searchString, initialized>>

handleErrorTypeFilterClick(type) ==
    /\ errorTypeFilters' = toggled(errorTypeFilters, type)
    /\ displayedQueries' = recomputed(stateFilters, errorTypeFilters', searchString,
                                      currentSortType, currentSortOrder, maxQueries)
    /\ searched' = TRUE
    /\ UNCHANGED <<queries, request, timer, searchTimer, allQueries, reorderDue, reorderInterval,
                   currentSortType, currentSortOrder, stateFilters, maxQueries, searchString, initialized>>

(* What render puts in the place of an empty list. *)
label == CASE displayedQueries # <<>> -> ""
           [] displayedQueries = <<>> /\ ~initialized -> "Loading"
           [] displayedQueries = <<>> /\ initialized /\ allQueries = <<>> -> "No queries"
           [] displayedQueries = <<>> /\ initialized /\ allQueries # <<>> -> "No queries matched filters"

Coordinator == \E q \in Query, state \in {"QUEUED", "RUNNING", "removed"} \cup EndChoice : Advance(q, state)

User ==
    \/ \E term \in SearchChoice : handleSearchStringChange(term)
    \/ \E max \in MaxQueriesChoice : handleMaxQueriesClick(max)
    \/ \E interval \in ReorderChoice : handleReorderClick(interval)
    \/ \E type \in SortTypeChoice : handleSortClick(type)
    \/ \E filter \in StateFilterChoice : handleStateFilterClick(filter)
    \/ \E type \in ErrorTypeChoice : handleErrorTypeFilterClick(type)

Next ==
    \/ Coordinator
    \/ ReorderComesDue
    \/ refreshLoop
    \/ Success
    \/ Failure
    \/ executeSearch
    \/ User

Spec == Init /\ [][Next]_vars

(* Timers fire, requests do not fail for ever, time passes. *)
Fairness ==
    /\ WF_vars(refreshLoop)
    /\ SF_vars(Success)
    /\ WF_vars(executeSearch)
    /\ WF_vars(ReorderComesDue)

LiveSpec == Spec /\ Fairness

-----------------------------------------------------------------------------
Elements(s) == {s[i] : i \in 1..Len(s)}
passing(q) == (\E f \in stateFilters \cup errorTypeFilters : passes(f, q)) /\ matches(searchString, q)

(* Whatever the user did between two answers, the list shows queries of    *)
(* the last answer, with the info of that answer, and none of them twice   *)
(* (DisplayedQueriesList uses queryId as the key).                         *)
DisplayedFromLastAnswer ==
    /\ Elements(displayedQueries) \subseteq Elements(allQueries)
    /\ \A i, j \in 1..Len(displayedQueries) :
           displayedQueries[i].id = displayedQueries[j].id => i = j

(* The list is never longer than the user asked for. *)
LimitRespected == maxQueries # 0 => Len(displayedQueries) <= maxQueries

(* A query that passes the filters and the search is on the list, unless   *)
(* the list is full; a query is not lost because it failed a filter        *)
(* earlier, or was cut off by the limit, or because the two ways to        *)
(* compute the list (refresh and click) disagree.  Only between a change   *)
(* of the search string and the next computation the list is behind.       *)
NothingHidden ==
    searched =>
        \/ Len(displayedQueries) >= maxQueries
        \/ \A i \in 1..Len(allQueries) :
               passing(allQueries[i]) => allQueries[i] \in Elements(displayedQueries)

(* A reorder gives the list a click would give, up to queries that compare *)
(* as equal, although it starts from the list on the page, in which some   *)
(* queries are missing and some no longer pass.  (With "All queries" a     *)
(* click empties the list, and a reorder lists all that pass.)             *)
keys(s) == [i \in 1..Len(s) |-> sortKey(currentSortType, s[i])]
ReorderLikeClick ==
    [][reorderDue /\ ~reorderDue' =>
          /\ keys(displayedQueries') =
                keys(sortAndLimitQueries(filterQueries(queryList, stateFilters, errorTypeFilters, searchString),
                                         currentSortType, currentSortOrder,
                                         IF maxQueries # 0 THEN maxQueries ELSE Len(queryList)))
          /\ \A i \in 1..Len(displayedQueries') : passing(displayedQueries'[i])]_vars

(* With reordering on, a query that no longer passes the filters or the    *)
(* search does not stay on the list: it goes, or passes again.             *)
StaleEntriesGo ==
    \A q \in Query :
        (reorderInterval # 0 /\ \E i \in 1..Len(displayedQueries) :
                                   displayedQueries[i].id = q /\ ~passing(displayedQueries[i]))
            ~> (reorderInterval = 0 \/ \A i \in 1..Len(displayedQueries) :
                                          displayedQueries[i].id = q => passing(displayedQueries[i]))
=============================================================================
