----------------------------- MODULE MemoryPool -----------------------------
(***************************************************************************)
(* MemoryPool.java: the memory of a worker, reserved by the tasks of its   *)
(* queries (one task of each here).  Its methods are synchronized.  The    *)
(* pool may be over-committed: reserve always succeeds, but returns a      *)
(* future that its caller waits on before it reserves more.                *)
(***************************************************************************)
EXTENDS Integers, FiniteSets, FiniteSetsExt

CONSTANTS
    Query,          \* the queries with a task on this worker
    MaxBytes,       \* the size of the pool
    MaxReserve      \* bound: bytes of one reservation

ASSUME PoolAssumption ==
    /\ IsFiniteSet(Query)
    /\ MaxBytes \in Nat \ {0}
    /\ MaxReserve \in Nat \ {0}

VARIABLES
    queryMemoryReservations,            \* bytes per query; 0: not in the map
    queryRevocableMemoryReservations,
    reservedBytes, reservedRevocableBytes,
    waiting                             \* the queries waiting on the future

pool == <<queryMemoryReservations, queryRevocableMemoryReservations,
          reservedBytes, reservedRevocableBytes, waiting>>

PoolTypeOK ==
    /\ queryMemoryReservations \in [Query -> Nat]
    /\ queryRevocableMemoryReservations \in [Query -> Nat]
    /\ reservedBytes \in Nat
    /\ reservedRevocableBytes \in Nat
    /\ waiting \subseteq Query

PoolInit ==
    /\ queryMemoryReservations = [q \in Query |-> 0]
    /\ queryRevocableMemoryReservations = [q \in Query |-> 0]
    /\ reservedBytes = 0
    /\ reservedRevocableBytes = 0
    /\ waiting = {}

(* getFreeBytes: negative when over-committed. *)
freeBytes == MaxBytes - reservedBytes - reservedRevocableBytes

reserve(q, bytes) ==
    /\ q \notin waiting
    /\ queryMemoryReservations' = [queryMemoryReservations EXCEPT ![q] = @ + bytes]
    /\ reservedBytes' = reservedBytes + bytes
    /\ waiting' = IF freeBytes - bytes <= 0 THEN waiting \cup {q} ELSE waiting
    /\ UNCHANGED <<queryRevocableMemoryReservations, reservedRevocableBytes>>

(* Mutant: revocable memory is never waited for. *)
reserveRevocableNoWait(q, bytes) ==
    /\ queryRevocableMemoryReservations' = [queryRevocableMemoryReservations EXCEPT ![q] = @ + bytes]
    /\ reservedRevocableBytes' = reservedRevocableBytes + bytes
    /\ UNCHANGED <<queryMemoryReservations, reservedBytes, waiting>>

reserveRevocable(q, bytes) ==
    /\ q \notin waiting
    /\ queryRevocableMemoryReservations' = [queryRevocableMemoryReservations EXCEPT ![q] = @ + bytes]
    /\ reservedRevocableBytes' = reservedRevocableBytes + bytes
    /\ waiting' = IF freeBytes - bytes <= 0 THEN waiting \cup {q} ELSE waiting
    /\ UNCHANGED <<queryMemoryReservations, reservedBytes>>

(* A caller that is refused does without, and does not wait. *)
tryReserve(q, bytes) ==
    /\ freeBytes - bytes >= 0
    /\ queryMemoryReservations' = [queryMemoryReservations EXCEPT ![q] = @ + bytes]
    /\ reservedBytes' = reservedBytes + bytes
    /\ UNCHANGED <<queryRevocableMemoryReservations, reservedRevocableBytes, waiting>>

(* Mutant: the future is completed only when the pool is empty. *)
releasedLate(free) == IF free = MaxBytes THEN {} ELSE waiting

(* The future is completed as soon as there is free memory. *)
released(free) == IF free > 0 THEN {} ELSE waiting

free(q, bytes) ==
    /\ queryMemoryReservations[q] >= bytes
    /\ queryMemoryReservations' = [queryMemoryReservations EXCEPT ![q] = @ - bytes]
    /\ reservedBytes' = reservedBytes - bytes
    /\ waiting' = released(freeBytes + bytes)
    /\ UNCHANGED <<queryRevocableMemoryReservations, reservedRevocableBytes>>

freeRevocable(q, bytes) ==
    /\ queryRevocableMemoryReservations[q] >= bytes
    /\ queryRevocableMemoryReservations' = [queryRevocableMemoryReservations EXCEPT ![q] = @ - bytes]
    /\ reservedRevocableBytes' = reservedRevocableBytes - bytes
    /\ waiting' = released(freeBytes + bytes)
    /\ UNCHANGED <<queryMemoryReservations, reservedBytes>>

PoolNext ==
    \E q \in Query, bytes \in 1..MaxReserve :
        \/ reserve(q, bytes)
        \/ reserveRevocable(q, bytes)
        \/ tryReserve(q, bytes)
        \/ free(q, bytes)
        \/ freeRevocable(q, bytes)

(* getInfo: a query without memory is in neither map. *)
getInfo ==
    [maxBytes |-> MaxBytes,
     reservedBytes |-> reservedBytes,
     reservedRevocableBytes |-> reservedRevocableBytes,
     queryMemoryReservations |->
        [q \in {p \in Query : queryMemoryReservations[p] > 0} |-> queryMemoryReservations[q]],
     queryMemoryRevocableReservations |->
        [q \in {p \in Query : queryRevocableMemoryReservations[p] > 0} |-> queryRevocableMemoryReservations[q]]]
=============================================================================
