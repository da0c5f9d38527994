------------------------ MODULE OutputBufferMemoryProofs ------------------------
(***************************************************************************)
(* Proofs about OutputBufferMemoryManager, for any drivers, any page sizes *)
(* and any bounds.  TypeOK and MemoryInv are inductive together: the bytes *)
(* stay natural numbers because BytesGivenBack holds.                      *)
(***************************************************************************)
EXTENDS OutputBufferMemoryManager, TLAPS

Future == MemoryFuture \cup {NoFuture}

(* The memory pool keeps its types when it is asked for memory, and a      *)
(* future that it makes is not one that somebody waits for.                *)
LEMMA ReserveFacts ==
    ASSUME TypeOK, NEW f \in Future, Reserve(f)
    PROVE  /\ poolFuture' \in Future
           /\ due' = due
           /\ f # NoFuture => f = poolFuture' /\ f \in MemoryFuture
           /\ poolFuture' = poolFuture \/ (poolFuture = NoFuture /\ poolFuture' # blockedOnMemory)
  BY NoFutureAssumption DEF TypeOK, Reserve, Future, Unused

(* free completes the future only together with its listeners.             *)
LEMMA FreeFacts ==
    ASSUME TypeOK, Free
    PROVE  /\ poolFuture' \in Future
           /\ due' \in Nat /\ due' >= due
           /\ ~Completes => poolFuture' = poolFuture /\ due' = due
           /\ Completes => /\ poolFuture \in MemoryFuture
                           /\ poolFuture' = NoFuture
                           /\ due' = due + listeners[poolFuture]
  <1>1. Completes => poolFuture \in MemoryFuture
    BY DEF TypeOK, Completes
  <1>2. CASE Completes
    BY <1>1, <1>2 DEF TypeOK, Free, Future
  <1>3. CASE ~Completes
    BY <1>3 DEF TypeOK, Free, Future
  <1> QED BY <1>2, <1>3

-----------------------------------------------------------------------------
(* What updateMemoryUsage and close leave behind, once the bytes are set:  *)
(* the part of the invariant that is not about the bytes.                  *)
Reasonable ==
    /\ bufferBlockedFuture \in BOOLEAN
    /\ blockedOnMemory \in Future
    /\ driver \in [Driver -> DriverState]
    /\ poolFuture \in Future
    /\ listeners \in [MemoryFuture -> Nat]
    /\ due \in Nat
    /\ \A d \in Driver : driver[d] = "waiting" => bufferBlockedFuture
    /\ ~IsDone(blockedOnMemory) => listeners[blockedOnMemory] > 0
    /\ bufferBlockedFuture => IsBufferFull \/ ~IsDone(blockedOnMemory) \/ due + checked > 0

(* The drivers after a step that notifies the waiting ones, or does not.   *)
LEMMA NotifiedFacts ==
    ASSUME NEW next \in [Driver -> DriverState]
    PROVE  /\ Notified(next) \in [Driver -> DriverState]
           /\ \A d \in Driver : Notified(next)[d] # "waiting"
           /\ \A d \in Driver : Notified(next)[d] = "failed" <=> next[d] = "failed"
  BY DEF Notified, DriverState

LEMMA NotBlockedFacts ==
    ASSUME TypeOK,
           NEW next \in [Driver -> DriverState],
           \A d \in Driver : next[d] = "waiting" => bufferBlockedFuture,
           NotBlockedOnMemory(next),
           bufferedBytes' \in Nat, blockOnFull' = blockOnFull, checked' = checked,
           poolFuture' \in Future, due' \in Nat
    PROVE  /\ Reasonable'
           /\ \A d \in Driver : driver'[d] = "failed" <=> next[d] = "failed"
  <1>1. /\ blockedOnMemory' = NoFuture
        /\ listeners' \in [MemoryFuture -> Nat]
    BY DEF TypeOK, NotBlockedOnMemory
  <1>2. IsDone(blockedOnMemory)'
    BY <1>1 DEF IsDone
  <1>3. CASE bufferedBytes' <= MaxBufferedBytes \/ ~blockOnFull
    <2>1. bufferBlockedFuture' = FALSE /\ driver' = Notified(next)
      BY <1>3 DEF NotBlockedOnMemory
    <2> QED BY <1>1, <1>2, <2>1, NotifiedFacts DEF Reasonable, Future
  <1>4. CASE ~(bufferedBytes' <= MaxBufferedBytes \/ ~blockOnFull)
    <2>1. bufferBlockedFuture' = bufferBlockedFuture /\ driver' = next
      BY <1>4 DEF NotBlockedOnMemory
    <2>2. IsBufferFull'
      BY <1>4, SizeAssumption DEF IsBufferFull, TypeOK
    <2>3. bufferBlockedFuture' \in BOOLEAN
      BY <2>1 DEF TypeOK
    <2> QED BY <1>1, <1>2, <2>1, <2>2, <2>3 DEF Reasonable, Future
  <1> QED BY <1>3, <1>4

LEMMA WaitFacts ==
    ASSUME TypeOK, MemoryInv,
           NEW next \in [Driver -> DriverState],
           \A d \in Driver : next[d] = "waiting" => bufferBlockedFuture,
           NEW f \in MemoryFuture, Reserve(f), WaitForMemory(f, next)
    PROVE  /\ Reasonable'
           /\ \A d \in Driver : driver'[d] = "failed" <=> next[d] = "failed"
  <1>1. /\ blockedOnMemory' = f
        /\ bufferBlockedFuture' = bufferBlockedFuture
        /\ driver' = next
    BY DEF WaitForMemory
  <1>2. f # NoFuture /\ f \in Future
    BY NoFutureAssumption DEF Future
  <1>3. f = poolFuture' /\ due' = due /\ poolFuture' \in Future
        /\ (poolFuture' = poolFuture \/ poolFuture' # blockedOnMemory)
    BY <1>2, ReserveFacts
  <1>4. ~IsDone(blockedOnMemory)'
    BY <1>1, <1>2, <1>3 DEF IsDone
  <1>5. listeners' \in [MemoryFuture -> Nat]
    BY DEF TypeOK, WaitForMemory
  <1>6. listeners'[f] > 0
    <2>1. CASE blockedOnMemory # f
      BY <2>1 DEF TypeOK, WaitForMemory
    <2>2. CASE blockedOnMemory = f
      <3>1. ~IsDone(blockedOnMemory)
        BY <2>2, <1>2, <1>3 DEF IsDone
      <3> QED BY <2>2, <3>1 DEF MemoryInv, WaitForMemory
    <2> QED BY <2>1, <2>2
  <1>7. bufferBlockedFuture' \in BOOLEAN /\ due' \in Nat
    BY <1>1, <1>3 DEF TypeOK
  <1> QED BY <1>1, <1>2, <1>3, <1>4, <1>5, <1>6, <1>7 DEF Reasonable

LEMMA SetBytesFacts ==
    ASSUME TypeOK, MemoryInv,
           NEW bytes \in Nat,
           NEW next \in [Driver -> DriverState],
           \A d \in Driver : next[d] = "waiting" => bufferBlockedFuture,
           SetBytes(bytes, next),
           bufferedBytes' \in Nat, blockOnFull' = blockOnFull, checked' = checked
    PROVE  /\ Reasonable'
           /\ \A d \in Driver : driver'[d] = "failed" <=> next[d] = "failed"
           /\ usedBytes' = bytes
           /\ otherBytes' = otherBytes
  <1>1. usedBytes' = bytes /\ otherBytes' = otherBytes
    BY DEF SetBytes
  <1>2. CASE bytes = usedBytes /\ UNCHANGED <<poolFuture, due>> /\ NotBlockedOnMemory(next)
    <2>1. poolFuture' \in Future /\ due' \in Nat
      BY <1>2 DEF TypeOK, Future
    <2> QED BY <1>1, <1>2, <2>1, NotBlockedFacts
  <1>3. CASE bytes < usedBytes /\ Free /\ NotBlockedOnMemory(next)
    BY <1>1, <1>3, FreeFacts, NotBlockedFacts
  <1>4. ASSUME NEW f \in Future, Reserve(f),
               IF f = NoFuture THEN NotBlockedOnMemory(next) ELSE WaitForMemory(f, next)
        PROVE  /\ Reasonable'
               /\ \A d \in Driver : driver'[d] = "failed" <=> next[d] = "failed"
    <2>1. poolFuture' \in Future /\ due' \in Nat
      BY <1>4, ReserveFacts DEF TypeOK
    <2>2. CASE f = NoFuture
      BY <1>4, <2>1, <2>2, NotBlockedFacts
    <2>3. CASE f # NoFuture
      BY <1>4, <2>3, WaitFacts DEF Future
    <2> QED BY <2>2, <2>3
  <1> QED BY <1>1, <1>2, <1>3, <1>4 DEF SetBytes, Future

-----------------------------------------------------------------------------
(* The two halves of the invariant that a step may disturb separately: the *)
(* futures and the bytes.                                                  *)
FuturesOK ==
    /\ bufferBlockedFuture \in BOOLEAN
    /\ blockedOnMemory \in Future
    /\ driver \in [Driver -> DriverState]
    /\ poolFuture \in Future
    /\ listeners \in [MemoryFuture -> Nat]
    /\ due \in Nat
    /\ checked \in Nat
    /\ \A d \in Driver : driver[d] = "waiting" => bufferBlockedFuture
    /\ ~IsDone(blockedOnMemory) => listeners[blockedOnMemory] > 0
    /\ ~Failed /\ bufferBlockedFuture =>
          IsBufferFull \/ ~IsDone(blockedOnMemory) \/ due + checked > 0

BytesOK ==
    /\ bufferedBytes \in Nat
    /\ closed \in BOOLEAN
    /\ blockOnFull \in BOOLEAN
    /\ pages \in Nat
    /\ usedBytes \in Nat
    /\ otherBytes \in Nat
    /\ BytesGivenBack

LEMMA Halves == TypeOK /\ MemoryInv <=> FuturesOK /\ BytesOK
  BY DEF TypeOK, MemoryInv, FuturesOK, BytesOK, Future

LEMMA HalvesPrimed == FuturesOK' /\ BytesOK' => TypeOK' /\ MemoryInv'
  BY DEF TypeOK, MemoryInv, FuturesOK, BytesOK, Future

LEMMA UpdateFacts ==
    ASSUME TypeOK, MemoryInv,
           NEW bytesAdded \in Int, ~closed => bufferedBytes + bytesAdded >= 0,
           NEW next \in [Driver -> DriverState],
           \A d \in Driver : next[d] = "waiting" => bufferBlockedFuture,
           \A d \in Driver : next[d] = "failed" <=> driver[d] = "failed",
           UpdateMemoryUsage(bytesAdded, next), checked' = checked
    PROVE  /\ FuturesOK'
           /\ Failed' <=> Failed
           /\ closed' = closed /\ blockOnFull' = blockOnFull /\ otherBytes' = otherBytes
           /\ closed => bufferedBytes' = bufferedBytes /\ usedBytes' = usedBytes
           /\ ~closed => bufferedBytes' = bufferedBytes + bytesAdded /\ usedBytes' = bufferedBytes'
  <1>1. checked' \in Nat
    BY DEF TypeOK
  <1>2. CASE closed
    <2>1. driver' = next /\ UNCHANGED <<buffer, pool>>
      BY <1>2 DEF UpdateMemoryUsage
    <2>2. UNCHANGED <<bufferedBytes, closed, blockOnFull, bufferBlockedFuture, blockedOnMemory,
                      usedBytes, otherBytes, poolFuture, listeners, due>>
      BY <2>1 DEF buffer, pool
    <2>3. Failed' <=> Failed
      BY <2>1 DEF Failed
    <2>4. /\ IsDone(blockedOnMemory)' <=> IsDone(blockedOnMemory)
          /\ IsBufferFull' <=> IsBufferFull
      BY <2>2 DEF IsDone, IsBufferFull
    <2>5. FuturesOK
      BY Halves
    <2>6. /\ bufferBlockedFuture' \in BOOLEAN
          /\ \A d \in Driver : driver'[d] = "waiting" => bufferBlockedFuture'
          /\ ~IsDone(blockedOnMemory)' => listeners'[blockedOnMemory'] > 0
          /\ ~Failed' /\ bufferBlockedFuture' =>
               IsBufferFull' \/ ~IsDone(blockedOnMemory)' \/ due' + checked' > 0
      BY <2>1, <2>2, <2>3, <2>4, <2>5 DEF FuturesOK
    <2>7. FuturesOK'
      BY <1>1, <2>1, <2>2, <2>5, <2>6 DEF FuturesOK
    <2> QED BY <1>2, <2>2, <2>3, <2>7
  <1>3. CASE ~closed
    <2>1. /\ bufferedBytes' = bufferedBytes + bytesAdded
          /\ closed' = closed /\ blockOnFull' = blockOnFull
          /\ SetBytes(bufferedBytes + bytesAdded, next)
      BY <1>3 DEF UpdateMemoryUsage
    <2>2. bufferedBytes + bytesAdded \in Nat
      BY <1>3 DEF TypeOK
    <2>3. /\ Reasonable'
          /\ \A d \in Driver : driver'[d] = "failed" <=> next[d] = "failed"
          /\ usedBytes' = bufferedBytes + bytesAdded
          /\ otherBytes' = otherBytes
      BY <2>1, <2>2, SetBytesFacts
    <2>4. FuturesOK'
      BY <1>1, <2>3 DEF Reasonable, FuturesOK
    <2>5. Failed' <=> Failed
      BY <2>3 DEF Failed
    <2> QED BY <1>3, <2>1, <2>3, <2>4, <2>5
  <1> QED BY <1>2, <1>3

-----------------------------------------------------------------------------
(* The steps that count bytes.                                             *)

LEMMA EnqueueKeeps ==
    ASSUME TypeOK, MemoryInv, NEW d \in Driver, NEW n \in PageSize, Enqueue(d, n)
    PROVE  FuturesOK' /\ BytesOK'
  <1> DEFINE next == [driver EXCEPT ![d] = "running"]
  <1>1. n \in Nat /\ n > 0
    BY SizeAssumption
  <1>2. pages' = pages + n /\ UpdateMemoryUsage(n, next) /\ checked' = checked /\ driver[d] = "writing"
    BY DEF Enqueue
  <1>3. next \in [Driver -> DriverState]
    BY DEF TypeOK, DriverState
  <1>4. \A e \in Driver : /\ next[e] = "waiting" => bufferBlockedFuture
                          /\ next[e] = "failed" <=> driver[e] = "failed"
    BY <1>2 DEF TypeOK, MemoryInv
  <1>5. ~closed => bufferedBytes + n >= 0
    BY <1>1 DEF TypeOK
  <1> HIDE DEF next
  <1>6. /\ FuturesOK'
        /\ Failed' <=> Failed
        /\ closed' = closed /\ blockOnFull' = blockOnFull /\ otherBytes' = otherBytes
        /\ closed => bufferedBytes' = bufferedBytes /\ usedBytes' = usedBytes
        /\ ~closed => bufferedBytes' = bufferedBytes + n /\ usedBytes' = bufferedBytes'
    BY <1>1, <1>2, <1>3, <1>4, <1>5, UpdateFacts
  <1>7. BytesGivenBack'
    BY <1>1, <1>2, <1>6, Halves DEF BytesOK, BytesGivenBack
  <1> QED BY <1>1, <1>2, <1>6, <1>7, Halves DEF BytesOK

LEMMA ReleaseKeeps ==
    ASSUME TypeOK, MemoryInv, NEW n \in PageSize, Release(n)
    PROVE  FuturesOK' /\ BytesOK'
  <1>1. n \in Nat /\ n > 0 /\ -n \in Int
    BY SizeAssumption
  <1>2. n <= pages /\ pages' = pages - n /\ UpdateMemoryUsage(-n, driver) /\ checked' = checked
    BY DEF Release
  <1>3. driver \in [Driver -> DriverState]
    BY DEF TypeOK
  <1>4. \A e \in Driver : /\ driver[e] = "waiting" => bufferBlockedFuture
                          /\ driver[e] = "failed" <=> driver[e] = "failed"
    BY DEF MemoryInv
  <1>5. ~closed => bufferedBytes + (-n) >= 0
    BY <1>1, <1>2, Halves DEF BytesOK, BytesGivenBack
  <1>6. /\ FuturesOK'
        /\ Failed' <=> Failed
        /\ closed' = closed /\ blockOnFull' = blockOnFull /\ otherBytes' = otherBytes
        /\ closed => bufferedBytes' = bufferedBytes /\ usedBytes' = usedBytes
        /\ ~closed => bufferedBytes' = bufferedBytes + (-n) /\ usedBytes' = bufferedBytes'
    BY <1>1, <1>2, <1>3, <1>4, <1>5, UpdateFacts
  <1>7. BytesGivenBack'
    BY <1>1, <1>2, <1>6, Halves DEF BytesOK, BytesGivenBack
  <1>8. pages' \in Nat /\ bufferedBytes' \in Nat /\ usedBytes' \in Nat
    BY <1>1, <1>2, <1>5, <1>6, Halves DEF BytesOK
  <1> QED BY <1>6, <1>7, <1>8, Halves DEF BytesOK

LEMMA CloseKeeps ==
    ASSUME TypeOK, MemoryInv, Close
    PROVE  FuturesOK' /\ BytesOK'
  <1>1. /\ closed' = TRUE
        /\ bufferedBytes' = 0
        /\ SetBytes(0, driver)
        /\ blockOnFull' = blockOnFull /\ pages' = pages /\ checked' = checked
    BY DEF Close
  <1>2. driver \in [Driver -> DriverState]
    BY DEF TypeOK
  <1>3. \A e \in Driver : driver[e] = "waiting" => bufferBlockedFuture
    BY DEF MemoryInv
  <1>4. Reasonable' /\ usedBytes' = 0 /\ otherBytes' = otherBytes
    BY <1>1, <1>2, <1>3, SetBytesFacts
  <1>5. FuturesOK'
    BY <1>1, <1>4, Halves DEF Reasonable, FuturesOK
  <1>6. BytesGivenBack'
    BY <1>1, <1>4 DEF BytesGivenBack
  <1> QED BY <1>1, <1>4, <1>5, <1>6, Halves DEF BytesOK

(* setBytes throws: bufferedBytes alone has changed.                       *)
LEMMA EnqueueFailsKeeps ==
    ASSUME TypeOK, MemoryInv, NEW d \in Driver, NEW n \in PageSize, EnqueueFails(d, n)
    PROVE  FuturesOK' /\ BytesOK'
  <1>1. n \in Nat /\ n > 0
    BY SizeAssumption
  <1>2. /\ ~closed
        /\ bufferedBytes' = bufferedBytes + n
        /\ driver' = [driver EXCEPT ![d] = "failed"]
        /\ UNCHANGED <<closed, blockOnFull, bufferBlockedFuture, blockedOnMemory, pages, checked>>
        /\ UNCHANGED <<usedBytes, otherBytes, poolFuture, listeners, due>>
    BY DEF EnqueueFails, pool
  <1>3. Failed'
    BY <1>2 DEF Failed, TypeOK
  <1>4. IsDone(blockedOnMemory)' <=> IsDone(blockedOnMemory)
    BY <1>2 DEF IsDone
  <1>5. driver' \in [Driver -> DriverState]
    BY <1>2 DEF TypeOK, DriverState
  <1>6. \A e \in Driver : driver'[e] = "waiting" => bufferBlockedFuture'
    BY <1>2 DEF TypeOK, MemoryInv
  <1>7. bufferBlockedFuture' \in BOOLEAN
    BY <1>2 DEF TypeOK
  <1>8. FuturesOK'
    BY <1>2, <1>3, <1>4, <1>5, <1>6, <1>7, Halves DEF FuturesOK
  <1>9. BytesGivenBack'
    BY <1>1, <1>2, <1>3, Halves DEF BytesOK, BytesGivenBack
  <1> QED BY <1>1, <1>2, <1>8, <1>9, Halves DEF BytesOK

LEMMA ReleaseFailsKeeps ==
    ASSUME TypeOK, MemoryInv, NEW n \in PageSize, ReleaseFails(n)
    PROVE  FuturesOK' /\ BytesOK'
  <1>1. n \in Nat /\ n > 0
    BY SizeAssumption
  <1>2. /\ n <= pages /\ ~closed /\ bufferedBytes - n > usedBytes
        /\ pages' = pages - n /\ bufferedBytes' = bufferedBytes - n
        /\ UNCHANGED <<closed, blockOnFull, bufferBlockedFuture, blockedOnMemory, driver, checked>>
        /\ UNCHANGED <<usedBytes, otherBytes, poolFuture, listeners, due>>
    BY DEF ReleaseFails, pool
  <1>3. Failed
    BY <1>1, <1>2, Halves DEF BytesOK, BytesGivenBack
  <1>4. Failed'
    BY <1>2, <1>3 DEF Failed
  <1>5. IsDone(blockedOnMemory)' <=> IsDone(blockedOnMemory)
    BY <1>2 DEF IsDone
  <1>6. /\ \A e \in Driver : driver'[e] = "waiting" => bufferBlockedFuture'
        /\ bufferBlockedFuture' \in BOOLEAN
    BY <1>2 DEF TypeOK, MemoryInv
  <1>7. FuturesOK'
    BY <1>2, <1>4, <1>5, <1>6, Halves DEF FuturesOK
  <1>8. BytesGivenBack'
    BY <1>1, <1>2, <1>4, Halves DEF BytesOK, BytesGivenBack
  <1>9. pages' \in Nat /\ bufferedBytes' \in Nat
    BY <1>1, <1>2, Halves DEF BytesOK
  <1> QED BY <1>2, <1>7, <1>8, <1>9, Halves DEF BytesOK

-----------------------------------------------------------------------------
(* The steps that leave the bytes alone.                                   *)

LEMMA BytesUntouched ==
    ASSUME TypeOK, MemoryInv, Failed' <=> Failed, otherBytes' \in Nat, blockOnFull' \in BOOLEAN,
           UNCHANGED <<bufferedBytes, closed, pages, usedBytes>>
    PROVE  BytesOK'
  <1>1. BytesGivenBack'
    BY Halves DEF BytesOK, BytesGivenBack
  <1> QED BY <1>1, Halves DEF BytesOK

LEMMA OthersReserveKeeps ==
    ASSUME TypeOK, MemoryInv, NEW n \in PageSize, OthersReserve(n)
    PROVE  FuturesOK' /\ BytesOK'
  <1>1. /\ otherBytes' = otherBytes + n
        /\ UNCHANGED <<bufferedBytes, closed, blockOnFull, bufferBlockedFuture, blockedOnMemory>>
        /\ UNCHANGED <<usedBytes, listeners, driver, pages, checked>>
    BY DEF OthersReserve, buffer
  <1>2. PICK f \in Future : Reserve(f)
    BY DEF OthersReserve, Future
  <1>3. /\ poolFuture' \in Future /\ due' = due
        /\ poolFuture' = poolFuture \/ (poolFuture = NoFuture /\ poolFuture' # blockedOnMemory)
    BY <1>2, ReserveFacts
  <1>4. IsDone(blockedOnMemory)' <=> IsDone(blockedOnMemory)
    BY <1>1, <1>3 DEF IsDone
  <1>5. (Failed' <=> Failed) /\ (IsBufferFull' <=> IsBufferFull)
    BY <1>1 DEF Failed, IsBufferFull
  <1>6. otherBytes' \in Nat /\ blockOnFull' \in BOOLEAN
    BY <1>1, SizeAssumption DEF TypeOK
  <1>7. FuturesOK
    BY Halves
  <1>8. /\ bufferBlockedFuture' \in BOOLEAN
        /\ \A d \in Driver : driver'[d] = "waiting" => bufferBlockedFuture'
        /\ ~IsDone(blockedOnMemory)' => listeners'[blockedOnMemory'] > 0
        /\ ~Failed' /\ bufferBlockedFuture' =>
             IsBufferFull' \/ ~IsDone(blockedOnMemory)' \/ due' + checked' > 0
    BY <1>1, <1>3, <1>4, <1>5, <1>7 DEF FuturesOK
  <1>9. FuturesOK'
    BY <1>1, <1>3, <1>7, <1>8 DEF FuturesOK
  <1> QED BY <1>1, <1>5, <1>6, <1>9, BytesUntouched

LEMMA SumGrows ==
    \A a, b, c \in Nat : b >= a => (a + c > 0 => b + c > 0) /\ (b > 0 => b + c > 0)
  OBVIOUS

(* The pool completes its future: whoever is blocked on it has a listener, *)
(* which is due from now on.                                               *)
LEMMA OthersFreeKeeps ==
    ASSUME TypeOK, MemoryInv, NEW n \in PageSize, OthersFree(n)
    PROVE  FuturesOK' /\ BytesOK'
  <1>1. /\ n <= otherBytes /\ otherBytes' = otherBytes - n
        /\ Free
        /\ listeners' = [f \in MemoryFuture |-> IF Dropped(f) THEN 0 ELSE listeners[f]]
        /\ UNCHANGED <<bufferedBytes, closed, blockOnFull, bufferBlockedFuture, blockedOnMemory>>
        /\ UNCHANGED <<usedBytes, driver, pages, checked>>
    BY DEF OthersFree, buffer
  <1>2. (Failed' <=> Failed) /\ (IsBufferFull' <=> IsBufferFull)
    BY <1>1 DEF Failed, IsBufferFull
  <1>3. otherBytes' \in Nat /\ blockOnFull' \in BOOLEAN
    BY <1>1, SizeAssumption DEF TypeOK
  <1>4. FuturesOK
    BY Halves
  <1>5. /\ bufferBlockedFuture' \in BOOLEAN
        /\ \A d \in Driver : driver'[d] = "waiting" => bufferBlockedFuture'
        /\ listeners' \in [MemoryFuture -> Nat]
        /\ poolFuture' \in Future /\ due' \in Nat /\ due' >= due
    BY <1>1, <1>4, FreeFacts DEF FuturesOK
  <1>6. /\ ~IsDone(blockedOnMemory)' => listeners'[blockedOnMemory'] > 0
        /\ ~IsDone(blockedOnMemory) => ~IsDone(blockedOnMemory)' \/ due' > 0
    <2>1. CASE Completes
      <3>1. IsDone(blockedOnMemory)'
        BY <1>1, <2>1, FreeFacts DEF IsDone
      <3>2. ~IsDone(blockedOnMemory) => listeners[poolFuture] > 0
        BY <1>4 DEF FuturesOK, IsDone
      <3>3. due' = due + listeners[poolFuture] /\ listeners[poolFuture] \in Nat
        BY <1>1, <2>1, FreeFacts DEF TypeOK
      <3>4. ~IsDone(blockedOnMemory) => due' > 0
        BY <3>2, <3>3 DEF TypeOK
      <3> QED BY <3>1, <3>4
    <2>2. CASE ~Completes
      <3>1. poolFuture' = poolFuture
        BY <1>1, <2>2, FreeFacts
      <3>2. IsDone(blockedOnMemory)' <=> IsDone(blockedOnMemory)
        BY <1>1, <3>1 DEF IsDone
      <3>3. \A f \in MemoryFuture : listeners'[f] = listeners[f]
        BY <1>1, <2>2 DEF Dropped
      <3>4. ~IsDone(blockedOnMemory) => blockedOnMemory \in MemoryFuture
        BY DEF TypeOK, IsDone
      <3> QED BY <1>1, <1>4, <3>2, <3>3, <3>4 DEF FuturesOK
    <2> QED BY <2>1, <2>2
  <1>7. ~Failed' /\ bufferBlockedFuture' =>
             IsBufferFull' \/ ~IsDone(blockedOnMemory)' \/ due' + checked' > 0
    <2>1. /\ due + checked > 0 => due' + checked' > 0
          /\ due' > 0 => due' + checked' > 0
      <3>1. checked' = checked /\ checked \in Nat /\ due \in Nat
        BY <1>1, <1>4 DEF FuturesOK
      <3>2. due' \in Nat /\ due' >= due
        BY <1>5
      <3> QED BY <3>1, <3>2, SumGrows
    <2>2. (~Failed' /\ bufferBlockedFuture') => (~Failed /\ bufferBlockedFuture)
      BY <1>1, <1>2
    <2>3. ~Failed /\ bufferBlockedFuture => IsBufferFull \/ ~IsDone(blockedOnMemory) \/ due + checked > 0
      BY <1>4 DEF FuturesOK
    <2> QED BY <1>2, <1>6, <2>1, <2>2, <2>3
  <1>8. FuturesOK'
    BY <1>1, <1>4, <1>5, <1>6, <1>7 DEF FuturesOK
  <1> QED BY <1>1, <1>2, <1>3, <1>8, BytesUntouched

(* A driver asks for the future, and waits only with a reason.             *)
LEMMA IsFullKeeps ==
    ASSUME TypeOK, MemoryInv, NEW d \in Driver, IsFull(d)
    PROVE  FuturesOK' /\ BytesOK'
  <1>1. /\ driver[d] = "running"
        /\ UNCHANGED <<bufferedBytes, closed, blockOnFull, blockedOnMemory, pages, checked>>
        /\ UNCHANGED <<usedBytes, otherBytes, poolFuture, listeners, due>>
    BY DEF IsFull, pool
  <1>2. /\ IsDone(blockedOnMemory)' <=> IsDone(blockedOnMemory)
        /\ IsBufferFull' <=> IsBufferFull
    BY <1>1 DEF IsDone, IsBufferFull
  <1>3. FuturesOK
    BY Halves
  <1>4. PICK s \in {"writing", "waiting"} :
          /\ driver' = [driver EXCEPT ![d] = s]
          /\ s = "waiting" => bufferBlockedFuture' = TRUE
          /\ s = "writing" => bufferBlockedFuture' = bufferBlockedFuture
          /\ s = "waiting" => bufferBlockedFuture \/ ~IsDone(blockedOnMemory) \/ IsBufferFull
    BY DEF IsFull
  <1>5. Failed' <=> Failed
    BY <1>1, <1>4 DEF Failed, TypeOK
  <1>6. driver' \in [Driver -> DriverState] /\ bufferBlockedFuture' \in BOOLEAN
    BY <1>4 DEF TypeOK, DriverState
  <1>7. \A e \in Driver : driver'[e] = "waiting" => bufferBlockedFuture'
    BY <1>3, <1>4 DEF TypeOK, FuturesOK
  <1>8. /\ ~IsDone(blockedOnMemory)' => listeners'[blockedOnMemory'] > 0
        /\ ~Failed' /\ bufferBlockedFuture' =>
             IsBufferFull' \/ ~IsDone(blockedOnMemory)' \/ due' + checked' > 0
    BY <1>1, <1>2, <1>3, <1>4, <1>5 DEF FuturesOK
  <1>9. FuturesOK'
    BY <1>1, <1>3, <1>6, <1>7, <1>8 DEF FuturesOK
  <1>10. otherBytes' \in Nat /\ blockOnFull' \in BOOLEAN
    BY <1>1 DEF TypeOK
  <1> QED BY <1>1, <1>5, <1>9, <1>10, BytesUntouched

(* The steps that clear bufferBlockedFuture, or find a reason not to.      *)
LEMMA SetNoBlockOnFullKeeps ==
    ASSUME TypeOK, MemoryInv, SetNoBlockOnFull
    PROVE  FuturesOK' /\ BytesOK'
  <1>1. /\ blockOnFull' = FALSE
        /\ UNCHANGED <<bufferedBytes, closed, blockedOnMemory, pages, checked>>
        /\ UNCHANGED <<usedBytes, otherBytes, poolFuture, listeners, due>>
    BY DEF SetNoBlockOnFull, pool
  <1>2. IsDone(blockedOnMemory)' <=> IsDone(blockedOnMemory)
    BY <1>1 DEF IsDone
  <1>3. FuturesOK /\ driver \in [Driver -> DriverState]
    BY Halves DEF TypeOK
  <1>4. \/ IsDone(blockedOnMemory) /\ bufferBlockedFuture' = FALSE /\ driver' = Notified(driver)
        \/ ~IsDone(blockedOnMemory) /\ bufferBlockedFuture' = bufferBlockedFuture /\ driver' = driver
    BY DEF SetNoBlockOnFull
  <1>5. /\ driver' \in [Driver -> DriverState]
        /\ \A d \in Driver : driver'[d] = "failed" <=> driver[d] = "failed"
        /\ \A d \in Driver : driver'[d] = "waiting" => bufferBlockedFuture'
    BY <1>3, <1>4, NotifiedFacts DEF FuturesOK
  <1>6. Failed' <=> Failed
    BY <1>5 DEF Failed
  <1>7. /\ bufferBlockedFuture' \in BOOLEAN
        /\ ~IsDone(blockedOnMemory)' => listeners'[blockedOnMemory'] > 0
        /\ ~Failed' /\ bufferBlockedFuture' =>
             IsBufferFull' \/ ~IsDone(blockedOnMemory)' \/ due' + checked' > 0
    BY <1>1, <1>2, <1>3, <1>4 DEF FuturesOK
  <1>8. FuturesOK'
    BY <1>1, <1>3, <1>5, <1>7 DEF FuturesOK
  <1>9. otherBytes' \in Nat /\ blockOnFull' \in BOOLEAN
    BY <1>1 DEF TypeOK
  <1> QED BY <1>1, <1>6, <1>8, <1>9, BytesUntouched

LEMMA NotifyIfNotFullKeeps ==
    ASSUME TypeOK, MemoryInv, NotifyIfNotFull
    PROVE  FuturesOK' /\ BytesOK'
  <1>1. /\ checked > 0 /\ checked' = checked - 1
        /\ UNCHANGED <<bufferedBytes, closed, blockOnFull, blockedOnMemory, pages>>
        /\ UNCHANGED <<usedBytes, otherBytes, poolFuture, listeners, due>>
    BY DEF NotifyIfNotFull, pool
  <1>2. /\ IsDone(blockedOnMemory)' <=> IsDone(blockedOnMemory)
        /\ IsBufferFull' <=> IsBufferFull
    BY <1>1 DEF IsDone, IsBufferFull
  <1>3. FuturesOK /\ driver \in [Driver -> DriverState]
    BY Halves DEF TypeOK
  <1>4. \/ bufferBlockedFuture' = FALSE /\ driver' = Notified(driver)
        \/ /\ IsBufferFull \/ ~IsDone(blockedOnMemory)
           /\ bufferBlockedFuture' = bufferBlockedFuture /\ driver' = driver
    BY DEF NotifyIfNotFull
  <1>5. /\ driver' \in [Driver -> DriverState]
        /\ \A d \in Driver : driver'[d] = "failed" <=> driver[d] = "failed"
        /\ \A d \in Driver : driver'[d] = "waiting" => bufferBlockedFuture'
    BY <1>3, <1>4, NotifiedFacts DEF FuturesOK
  <1>6. Failed' <=> Failed
    BY <1>5 DEF Failed
  <1>7. /\ bufferBlockedFuture' \in BOOLEAN
        /\ ~IsDone(blockedOnMemory)' => listeners'[blockedOnMemory'] > 0
        /\ ~Failed' /\ bufferBlockedFuture' =>
             IsBufferFull' \/ ~IsDone(blockedOnMemory)' \/ due' + checked' > 0
    BY <1>1, <1>2, <1>3, <1>4 DEF FuturesOK
  <1>8. checked' \in Nat
    BY <1>1, <1>3 DEF FuturesOK
  <1>9. FuturesOK'
    BY <1>1, <1>3, <1>5, <1>7, <1>8 DEF FuturesOK
  <1>10. otherBytes' \in Nat /\ blockOnFull' \in BOOLEAN
    BY <1>1 DEF TypeOK
  <1> QED BY <1>1, <1>6, <1>9, <1>10, BytesUntouched

LEMMA OnMemoryAvailableKeeps ==
    ASSUME TypeOK, MemoryInv, OnMemoryAvailable
    PROVE  FuturesOK' /\ BytesOK'
  <1>1. /\ due > 0 /\ due' = due - 1
        /\ (IsBufferFull /\ checked' = checked) \/ checked' = checked + 1
        /\ UNCHANGED <<bufferedBytes, closed, blockOnFull, bufferBlockedFuture, blockedOnMemory>>
        /\ UNCHANGED <<usedBytes, otherBytes, poolFuture, listeners, driver, pages>>
    BY DEF OnMemoryAvailable, buffer
  <1>2. /\ IsDone(blockedOnMemory)' <=> IsDone(blockedOnMemory)
        /\ IsBufferFull' <=> IsBufferFull
        /\ Failed' <=> Failed
    BY <1>1 DEF IsDone, IsBufferFull, Failed
  <1>3. FuturesOK
    BY Halves
  <1>4. /\ due' \in Nat /\ checked' \in Nat
        /\ IsBufferFull' \/ due' + checked' > 0
    BY <1>1, <1>2, <1>3 DEF FuturesOK
  <1>5. /\ bufferBlockedFuture' \in BOOLEAN
        /\ \A d \in Driver : driver'[d] = "waiting" => bufferBlockedFuture'
        /\ ~IsDone(blockedOnMemory)' => listeners'[blockedOnMemory'] > 0
        /\ ~Failed' /\ bufferBlockedFuture' =>
             IsBufferFull' \/ ~IsDone(blockedOnMemory)' \/ due' + checked' > 0
    BY <1>1, <1>2, <1>3, <1>4 DEF FuturesOK
  <1>6. FuturesOK'
    BY <1>1, <1>3, <1>4, <1>5 DEF FuturesOK
  <1>7. otherBytes' \in Nat /\ blockOnFull' \in BOOLEAN
    BY <1>1 DEF TypeOK
  <1> QED BY <1>1, <1>2, <1>6, <1>7, BytesUntouched

LEMMA WakeUpKeeps ==
    ASSUME TypeOK, MemoryInv, NEW d \in Driver, WakeUp(d)
    PROVE  FuturesOK' /\ BytesOK'
  <1>1. /\ driver[d] = "notified" /\ driver' = [driver EXCEPT ![d] = "running"]
        /\ UNCHANGED <<bufferedBytes, closed, blockOnFull, bufferBlockedFuture, blockedOnMemory>>
        /\ UNCHANGED <<usedBytes, otherBytes, poolFuture, listeners, due, pages, checked>>
    BY DEF WakeUp, buffer, pool
  <1>2. /\ IsDone(blockedOnMemory)' <=> IsDone(blockedOnMemory)
        /\ IsBufferFull' <=> IsBufferFull
    BY <1>1 DEF IsDone, IsBufferFull
  <1>3. FuturesOK
    BY Halves
  <1>4. Failed' <=> Failed
    BY <1>1 DEF Failed, TypeOK
  <1>5. /\ driver' \in [Driver -> DriverState]
        /\ \A e \in Driver : driver'[e] = "waiting" => bufferBlockedFuture'
    BY <1>1, <1>3 DEF FuturesOK, DriverState
  <1>6. /\ bufferBlockedFuture' \in BOOLEAN
        /\ ~IsDone(blockedOnMemory)' => listeners'[blockedOnMemory'] > 0
        /\ ~Failed' /\ bufferBlockedFuture' =>
             IsBufferFull' \/ ~IsDone(blockedOnMemory)' \/ due' + checked' > 0
    BY <1>1, <1>2, <1>3, <1>4 DEF FuturesOK
  <1>7. FuturesOK'
    BY <1>1, <1>3, <1>5, <1>6 DEF FuturesOK
  <1>8. otherBytes' \in Nat /\ blockOnFull' \in BOOLEAN
    BY <1>1 DEF TypeOK
  <1> QED BY <1>1, <1>4, <1>7, <1>8, BytesUntouched

LEMMA StutterKeeps ==
    ASSUME TypeOK, MemoryInv, UNCHANGED vars
    PROVE  TypeOK' /\ MemoryInv'
  <1>1. /\ UNCHANGED <<bufferedBytes, closed, blockOnFull, bufferBlockedFuture, blockedOnMemory>>
        /\ UNCHANGED <<usedBytes, otherBytes, poolFuture, listeners, due, driver, pages, checked>>
    BY DEF vars, buffer, pool
  <1>2. TypeOK'
    BY <1>1 DEF TypeOK
  <1>3. MemoryInv'
    BY <1>1 DEF MemoryInv, BytesGivenBack, IsDone, IsBufferFull, Failed
  <1> QED BY <1>2, <1>3

-----------------------------------------------------------------------------
LEMMA InitHolds == Init => TypeOK /\ MemoryInv
  <1> SUFFICES ASSUME Init PROVE TypeOK /\ MemoryInv
    OBVIOUS
  <1>1. TypeOK
    BY DEF Init, TypeOK, DriverState
  <1>2. MemoryInv
    BY DEF Init, MemoryInv, BytesGivenBack, IsDone, Failed
  <1> QED BY <1>1, <1>2

LEMMA NextKeeps == TypeOK /\ MemoryInv /\ [Next]_vars => TypeOK' /\ MemoryInv'
  <1> SUFFICES ASSUME TypeOK, MemoryInv, [Next]_vars PROVE TypeOK' /\ MemoryInv'
    OBVIOUS
  <1>1. ASSUME NEW n \in PageSize, OthersReserve(n) PROVE TypeOK' /\ MemoryInv'
    BY <1>1, OthersReserveKeeps, HalvesPrimed
  <1>2. ASSUME NEW n \in PageSize, OthersFree(n) PROVE TypeOK' /\ MemoryInv'
    BY <1>2, OthersFreeKeeps, HalvesPrimed
  <1>3. ASSUME NEW n \in PageSize, Release(n) PROVE TypeOK' /\ MemoryInv'
    BY <1>3, ReleaseKeeps, HalvesPrimed
  <1>4. ASSUME NEW n \in PageSize, ReleaseFails(n) PROVE TypeOK' /\ MemoryInv'
    BY <1>4, ReleaseFailsKeeps, HalvesPrimed
  <1>5. ASSUME NEW n \in PageSize, NEW d \in Driver, Enqueue(d, n) PROVE TypeOK' /\ MemoryInv'
    BY <1>5, EnqueueKeeps, HalvesPrimed
  <1>6. ASSUME NEW n \in PageSize, NEW d \in Driver, EnqueueFails(d, n) PROVE TypeOK' /\ MemoryInv'
    BY <1>6, EnqueueFailsKeeps, HalvesPrimed
  <1>7. ASSUME NEW d \in Driver, IsFull(d) PROVE TypeOK' /\ MemoryInv'
    BY <1>7, IsFullKeeps, HalvesPrimed
  <1>8. ASSUME NEW d \in Driver, WakeUp(d) PROVE TypeOK' /\ MemoryInv'
    BY <1>8, WakeUpKeeps, HalvesPrimed
  <1>9. CASE SetNoBlockOnFull
    BY <1>9, SetNoBlockOnFullKeeps, HalvesPrimed
  <1>10. CASE Close
    BY <1>10, CloseKeeps, HalvesPrimed
  <1>11. CASE OnMemoryAvailable
    BY <1>11, OnMemoryAvailableKeeps, HalvesPrimed
  <1>12. CASE NotifyIfNotFull
    BY <1>12, NotifyIfNotFullKeeps, HalvesPrimed
  <1>13. CASE UNCHANGED vars
    BY <1>13, StutterKeeps
  <1> QED
    BY <1>1, <1>2, <1>3, <1>4, <1>5, <1>6, <1>7, <1>8, <1>9, <1>10, <1>11, <1>12, <1>13 DEF Next

(* The state keeps its types; in particular updateMemoryUsage never makes  *)
(* bufferedBytes negative, which its checkArgument would refuse.           *)
THEOREM TypeCorrect == Spec => []TypeOK
  <1>1. TypeOK /\ MemoryInv /\ [Next]_vars => (TypeOK /\ MemoryInv)'
    BY NextKeeps
  <1> QED BY <1>1, InitHolds, PTL DEF Spec

(* The inductive invariant of the memory manager.                          *)
THEOREM MemoryInvariant == Spec => []MemoryInv
  <1>1. TypeOK /\ MemoryInv /\ [Next]_vars => (TypeOK /\ MemoryInv)'
    BY NextKeeps
  <1> QED BY <1>1, InitHolds, PTL DEF Spec

(* Whatever releases, reservations of other tasks and callbacks come in    *)
(* between, a driver that waits for getBufferBlockedFuture has somebody to *)
(* wake it.                                                                *)
THEOREM NoWakeupIsLost == Spec => []NoLostWakeup
  <1>1. MemoryInv => NoLostWakeup
    BY DEF MemoryInv, NoLostWakeup
  <1> QED BY <1>1, MemoryInvariant, PTL

(* Every byte that updateMemoryUsage counts is given back by a release or  *)
(* by close.                                                               *)
THEOREM NoByteIsLost == Spec => []BytesGivenBack
  <1>1. MemoryInv => BytesGivenBack
    BY DEF MemoryInv
  <1> QED BY <1>1, MemoryInvariant, PTL
=============================================================================
