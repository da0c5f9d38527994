---------------------------- MODULE WorkerStatus ----------------------------
(***************************************************************************)
(* components/WorkerStatus.jsx: the page about a worker, with its memory   *)
(* pool.  The coordinator passes the worker's answer on.  It is handled in *)
(* the step that makes it: nothing else reads or writes the page between.  *)
(***************************************************************************)
EXTENDS MemoryPool, History

VARIABLES
    request,        \* is a request open?
    timer,          \* is a refreshLoop due?
    serverInfo,     \* the pool of the last answer, Null before
    initialized,
    loads           \* the samples of processCpuLoad, heapPercentUsed, ...

pageVars == <<request, timer, serverInfo, initialized, loads>>
vars == <<pool, pageVars>>

Null == <<>>

(* Math.round(n * 100.0 / size) *)
round(n, size) == (2 * n * 100 + size) \div (2 * size)

(* renderPoolBar: the widths of the three segments, in percent. *)
width(bytes, size) ==
    LET percentage == round(bytes, size)
    IN  IF bytes = 0 THEN 0 ELSE IF percentage > 15 THEN percentage ELSE 15

renderPoolBar(info) ==
    LET reserved == width(info.reservedBytes, info.maxBytes)
        revocable == width(info.reservedRevocableBytes, info.maxBytes)
    IN  [reserved |-> reserved, revocable |-> revocable, free |-> 100 - (revocable + reserved)]

(* Mutant: the second loop forgets what the first has found. *)
renderPoolQueriesRevocable(info) ==
    LET reservations == info.queryMemoryReservations
        revocableReservations == info.queryMemoryRevocableReservations
    IN  [q \in DOMAIN reservations \cup DOMAIN revocableReservations |->
            IF q \in DOMAIN revocableReservations THEN <<0, revocableReservations[q]>>
                                                  ELSE <<reservations[q], 0>>]

(* renderPoolQueries: reserved and revocable bytes of the queries listed. *)
renderPoolQueries(info) ==
    LET reservations == info.queryMemoryReservations
        revocableReservations == info.queryMemoryRevocableReservations
    IN  [q \in DOMAIN reservations \cup DOMAIN revocableReservations |->
            <<IF q \in DOMAIN reservations THEN reservations[q] ELSE 0,
              IF q \in DOMAIN revocableReservations THEN revocableReservations[q] ELSE 0>>]

(* renderPoolQuery: the percentage beside a query of the list. *)
renderPoolQuery(q) == round(renderPoolQueries(serverInfo)[q][1], serverInfo.maxBytes)

TypeOK ==
    /\ PoolTypeOK
    /\ request \in BOOLEAN
    /\ timer \in BOOLEAN
    /\ serverInfo # Null => serverInfo.maxBytes = MaxBytes
    /\ initialized \in BOOLEAN
    /\ loads \in Seq({"load"})
    /\ ~(request /\ timer)

(* componentDidMount sends the first request. *)
Init ==
    /\ PoolInit
    /\ request = TRUE
    /\ timer = FALSE
    /\ serverInfo = Null
    /\ initialized = FALSE
    /\ loads = <<>>

-----------------------------------------------------------------------------
(* state.query is undefined, ended is never set: there is always a timer. *)
resetTimer == timer' = TRUE

refreshLoop ==
    /\ timer
    /\ timer' = FALSE
    /\ request' = TRUE
    /\ UNCHANGED <<pool, serverInfo, initialized, loads>>

Success ==
    /\ request
    /\ request' = FALSE
    /\ serverInfo' = getInfo
    /\ initialized' = TRUE
    /\ loads' = addToHistory("load", loads)
    /\ resetTimer
    /\ UNCHANGED pool

Failure ==
    /\ request
    /\ request' = FALSE
    /\ initialized' = TRUE
    /\ resetTimer
    /\ UNCHANGED <<pool, serverInfo, loads>>

Next ==
    \/ PoolNext /\ UNCHANGED pageVars
    \/ refreshLoop
    \/ Success
    \/ Failure

Spec == Init /\ [][Next]_vars

(* Timers run, and requests do not fail for ever. *)
Fairness == WF_vars(refreshLoop) /\ SF_vars(Success)

LiveSpec == Spec /\ Fairness

-----------------------------------------------------------------------------
total(column) ==
    LET rows == renderPoolQueries(serverInfo)
    IN  MapThenSumSet(LAMBDA q : rows[q][column], DOMAIN rows)

(* The bar of the pool and the list of its queries agree: the queries      *)
(* listed account for all of the reserved and of the revocable bytes, also *)
(* when a query holds both, or one that held memory has given it back.     *)
QueriesAccountForBar ==
    serverInfo # Null => total(1) = serverInfo.reservedBytes /\ total(2) = serverInfo.reservedRevocableBytes

(* The bar of a pool that is full or over-committed has no free segment,   *)
(* although its percentages are rounded.                                   *)
FullPoolLooksFull ==
    serverInfo # Null /\ serverInfo.reservedBytes + serverInfo.reservedRevocableBytes >= serverInfo.maxBytes =>
        renderPoolBar(serverInfo).free <= 0

(* The bar and the list show no query with a larger share than the bar     *)
(* gives to all of them.                                                   *)
SharesWithinBar ==
    serverInfo # Null => \A q \in DOMAIN renderPoolQueries(serverInfo) :
        renderPoolQuery(q) <= renderPoolBar(serverInfo).reserved

(* A task waits for memory only while there is none: one free of several   *)
(* tasks that gets the pool out of over-commitment wakes all of them.      *)
WaitersHaveCause == waiting # {} => freeBytes <= 0

(* The pool is over-committed by at most one reservation of each waiter.   *)
OverCommitBounded == freeBytes >= -(MaxReserve * Cardinality(waiting))

(* The sparklines fill: failures do not end the refreshing. *)
HistoryFills == <>(Len(loads) > MAX_HISTORY)
=============================================================================
