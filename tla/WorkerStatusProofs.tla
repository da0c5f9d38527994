------------------------- MODULE WorkerStatusProofs -------------------------
(***************************************************************************)
(* The over-commitment of a memory pool is bounded, and nobody waits for   *)
(* memory that is there: for pools of every size, any finite number of     *)
(* queries and reservations of any size.                                   *)
(***************************************************************************)
EXTENDS WorkerStatus, FiniteSetTheorems, TLAPS

(* The sums of the pool are integers here: that they never get below zero  *)
(* is a fact about the sum over all queries, which needs an induction.     *)
IInv ==
    /\ reservedBytes \in Int
    /\ reservedRevocableBytes \in Int
    /\ waiting \subseteq Query
    /\ WaitersHaveCause
    /\ OverCommitBounded

(* A pool without waiters is not over-committed, by the bound. *)
LEMMA NoWaiters ==
    /\ OverCommitBounded /\ waiting = {} => freeBytes >= 0
    /\ waiting = {} /\ freeBytes \in Int /\ freeBytes >= 0 => OverCommitBounded
<1>1. waiting = {} => Cardinality(waiting) = 0
  BY FS_EmptySet
<1>2. waiting = {} => MaxReserve * Cardinality(waiting) = 0
  BY <1>1, PoolAssumption
<1>3. QED
  BY <1>2 DEF OverCommitBounded

(* One more waiter raises the bound by one reservation. *)
LEMMA OneMoreWaiter ==
    ASSUME waiting \subseteq Query, NEW q \in Query, q \notin waiting
    PROVE  /\ MaxReserve * Cardinality(waiting) \in Int
           /\ MaxReserve * Cardinality(waiting \cup {q}) = MaxReserve * Cardinality(waiting) + MaxReserve
<1>1. IsFiniteSet(waiting)
  BY FS_Subset, PoolAssumption
<1>2. Cardinality(waiting) \in Nat /\ Cardinality(waiting \cup {q}) = Cardinality(waiting) + 1
  BY <1>1, FS_AddElement, FS_CardinalityType
<1>3. \A c \in Nat : MaxReserve * c \in Int /\ MaxReserve * (c + 1) = MaxReserve * c + MaxReserve
  BY PoolAssumption
<1>4. QED
  BY <1>2, <1>3

(* The bound is a number. *)
LEMMA BoundType == waiting \subseteq Query => MaxReserve * Cardinality(waiting) \in Int
<1> SUFFICES ASSUME waiting \subseteq Query PROVE MaxReserve * Cardinality(waiting) \in Int
  OBVIOUS
<1>1. Cardinality(waiting) \in Nat
  BY FS_Subset, FS_CardinalityType, PoolAssumption
<1>2. QED
  BY <1>1, PoolAssumption

-----------------------------------------------------------------------------
(* An empty pool satisfies the invariant. *)
LEMMA InitInv == Init => IInv
<1> SUFFICES ASSUME Init PROVE IInv
  OBVIOUS
<1>1. reservedBytes = 0 /\ reservedRevocableBytes = 0 /\ waiting = {}
  BY DEF Init, PoolInit
<1>2. freeBytes \in Int /\ freeBytes >= 0
  BY <1>1, PoolAssumption DEF freeBytes
<1>3. QED
  BY <1>1, <1>2, NoWaiters DEF IInv, WaitersHaveCause

(* What reserve and reserveRevocable have in common: the caller does not   *)
(* wait yet, and does when it leaves no memory free.                       *)
LEMMA ReserveInv ==
    ASSUME IInv, NEW q \in Query, NEW bytes \in 1..MaxReserve, q \notin waiting,
           reservedBytes' \in Int, reservedRevocableBytes' \in Int,
           freeBytes' = freeBytes - bytes,
           waiting' = IF freeBytes - bytes <= 0 THEN waiting \cup {q} ELSE waiting
    PROVE  IInv'
<1>1. freeBytes \in Int /\ bytes \in Int /\ bytes > 0 /\ bytes <= MaxReserve /\ MaxReserve \in Int
  BY PoolAssumption DEF IInv, freeBytes
<1>2. CASE freeBytes - bytes <= 0
  <2>1. waiting' = waiting \cup {q} /\ waiting' \subseteq Query
    BY <1>2 DEF IInv
  <2>2. OverCommitBounded'
    BY <1>1, <2>1, OneMoreWaiter DEF IInv, OverCommitBounded
  <2>3. WaitersHaveCause'
    BY <1>2 DEF WaitersHaveCause
  <2>4. QED
    BY <2>1, <2>2, <2>3 DEF IInv
<1>3. CASE ~(freeBytes - bytes <= 0)
  <2>1. waiting = {} /\ waiting' = {}
    BY <1>1, <1>3 DEF IInv, WaitersHaveCause
  <2>2. freeBytes' \in Int /\ freeBytes' >= 0
    BY <1>1, <1>3
  <2>3. OverCommitBounded'
    <3>1. Cardinality(waiting') = 0
      BY <2>1, FS_EmptySet
    <3>2. QED
      BY <2>2, <3>1, PoolAssumption DEF OverCommitBounded
  <2>4. QED
    BY <2>1, <2>3 DEF IInv, WaitersHaveCause
<1>4. QED
  BY <1>2, <1>3

(* What free and freeRevocable have in common. *)
LEMMA FreeInv ==
    ASSUME IInv, NEW bytes \in 1..MaxReserve,
           reservedBytes' \in Int, reservedRevocableBytes' \in Int,
           freeBytes' = freeBytes + bytes,
           waiting' = released(freeBytes + bytes)
    PROVE  IInv'
<1>1. freeBytes \in Int /\ bytes \in Int /\ bytes > 0
  BY PoolAssumption DEF IInv, freeBytes
<1>2. CASE freeBytes + bytes > 0
  <2>1. waiting' = {}
    BY <1>2 DEF released
  <2>2. Cardinality(waiting') = 0
    BY <2>1, FS_EmptySet
  <2>3. OverCommitBounded'
    BY <1>1, <1>2, <2>2, PoolAssumption DEF OverCommitBounded
  <2>4. QED
    BY <2>1, <2>3 DEF IInv, WaitersHaveCause
<1>3. CASE ~(freeBytes + bytes > 0)
  <2>1. waiting' = waiting
    BY <1>3 DEF released
  <2>2. OverCommitBounded'
    BY <1>1, <2>1, BoundType DEF IInv, OverCommitBounded
  <2>3. WaitersHaveCause'
    BY <1>1, <1>3 DEF WaitersHaveCause
  <2>4. QED
    BY <2>1, <2>2, <2>3 DEF IInv
<1>4. QED
  BY <1>2, <1>3

(* tryReserve takes only what is free: then nobody waits. *)
LEMMA TryReserveInv ==
    ASSUME IInv, NEW q \in Query, NEW bytes \in 1..MaxReserve, tryReserve(q, bytes)
    PROVE  IInv'
<1>1. freeBytes \in Int /\ bytes \in Int /\ bytes > 0 /\ freeBytes - bytes >= 0
  BY PoolAssumption DEF IInv, freeBytes, tryReserve
<1>2. waiting = {} /\ waiting' = {}
  BY <1>1 DEF IInv, WaitersHaveCause, tryReserve
<1>3. freeBytes' = freeBytes - bytes /\ reservedBytes' \in Int /\ reservedRevocableBytes' \in Int
  BY PoolAssumption DEF freeBytes, tryReserve, IInv
<1>4. Cardinality(waiting') = 0
  BY <1>2, FS_EmptySet
<1>5. OverCommitBounded'
  BY <1>1, <1>3, <1>4, PoolAssumption DEF OverCommitBounded
<1>6. QED
  BY <1>2, <1>3, <1>5 DEF IInv, WaitersHaveCause

(* Every method of MemoryPool keeps the invariant. *)
LEMMA PoolNextInv ==
    ASSUME IInv, PoolNext
    PROVE  IInv'
<1> SUFFICES ASSUME NEW q \in Query, NEW bytes \in 1..MaxReserve,
                    \/ reserve(q, bytes) \/ reserveRevocable(q, bytes) \/ tryReserve(q, bytes)
                    \/ free(q, bytes) \/ freeRevocable(q, bytes)
             PROVE  IInv'
  BY DEF PoolNext
<1>1. CASE reserve(q, bytes)
  <2>1. reservedBytes' \in Int /\ reservedRevocableBytes' \in Int /\ freeBytes' = freeBytes - bytes
    BY <1>1, PoolAssumption DEF reserve, IInv, freeBytes
  <2>2. q \notin waiting /\ waiting' = IF freeBytes - bytes <= 0 THEN waiting \cup {q} ELSE waiting
    BY <1>1 DEF reserve
  <2>3. QED
    BY <2>1, <2>2, ReserveInv
<1>2. CASE reserveRevocable(q, bytes)
  <2>1. reservedBytes' \in Int /\ reservedRevocableBytes' \in Int /\ freeBytes' = freeBytes - bytes
    BY <1>2, PoolAssumption DEF reserveRevocable, IInv, freeBytes
  <2>2. q \notin waiting /\ waiting' = IF freeBytes - bytes <= 0 THEN waiting \cup {q} ELSE waiting
    BY <1>2 DEF reserveRevocable
  <2>3. QED
    BY <2>1, <2>2, ReserveInv
<1>3. CASE free(q, bytes)
  <2>1. /\ reservedBytes' \in Int /\ reservedRevocableBytes' \in Int
        /\ freeBytes' = freeBytes + bytes /\ waiting' = released(freeBytes + bytes)
    BY <1>3, PoolAssumption DEF free, IInv, freeBytes
  <2>2. QED
    BY <2>1, FreeInv
<1>4. CASE freeRevocable(q, bytes)
  <2>1. /\ reservedBytes' \in Int /\ reservedRevocableBytes' \in Int
        /\ freeBytes' = freeBytes + bytes /\ waiting' = released(freeBytes + bytes)
    BY <1>4, PoolAssumption DEF freeRevocable, IInv, freeBytes
  <2>2. QED
    BY <2>1, FreeInv
<1>5. QED
  BY <1>1, <1>2, <1>3, <1>4, TryReserveInv

(* So does every step: the page does not change the pool. *)
LEMMA NextInv == IInv /\ [Next]_vars => IInv'
<1> SUFFICES ASSUME IInv, [Next]_vars PROVE IInv'
  OBVIOUS
<1>1. CASE PoolNext
  BY <1>1, PoolNextInv
<1>2. CASE UNCHANGED pool
  BY <1>2 DEF pool, IInv, WaitersHaveCause, OverCommitBounded, freeBytes
<1>3. QED
  BY <1>1, <1>2 DEF Next, vars, refreshLoop, Success, Failure

(* The invariant holds throughout. *)
LEMMA Invariance == Spec => []IInv
BY InitInv, NextInv, PTL DEF Spec

(* reserve over-commits a pool by less than one reservation for every      *)
(* query that now waits for it.                                            *)
THEOREM OverCommit == Spec => []OverCommitBounded
<1>1. IInv => OverCommitBounded
  BY DEF IInv
<1>2. QED
  BY <1>1, Invariance, PTL

(* free and freeRevocable complete the future as soon as memory is free.   *)
THEOREM Waiters == Spec => []WaitersHaveCause
<1>1. IInv => WaitersHaveCause
  BY DEF IInv
<1>2. QED
  BY <1>1, Invariance, PTL
=============================================================================
