---------------------- MODULE OutputBufferMemoryManager ----------------------
(***************************************************************************)
(* io.trino.execution.buffer.OutputBufferMemoryManager: back pressure on   *)
(* the drivers of a task.  A driver that finds the output buffer full, or  *)
(* the memory pool exhausted, waits for bufferBlockedFuture; releasing     *)
(* pages, free memory in the pool and closing the buffer complete it.      *)
(*                                                                         *)
(* The memory pool, which other tasks use too, is modelled with its future *)
(* "there is free memory again".  A step is one critical section; what     *)
(* the executor runs later (onMemoryAvailable, completing a future) is a   *)
(* step of its own.  The listener that updateMemoryUsage adds right after  *)
(* the lock counts as added: added to a future that is done by then, it    *)
(* runs at once.                                                           *)
(***************************************************************************)
EXTENDS Integers, FiniteSets

CONSTANTS
    Driver,             \* the drivers that fill the buffer
    MemoryFuture,       \* identities of the futures of the memory pool
    NoFuture,           \* null, and NOT_BLOCKED where a future is returned
    MaxBufferedBytes,   \* maxBufferedBytes
    PoolSize,           \* maxBytes of the memory pool
    PageSize,           \* the sizes of what a driver enqueues
    MaxBytes,           \* bound: bytes in the buffer, and of the other tasks
    MaxCallbacks        \* bound: onMemoryAvailable calls registered or due

ASSUME NoFutureAssumption == NoFuture \notin MemoryFuture
ASSUME SizeAssumption == /\ MaxBufferedBytes \in Nat \ {0}
                         /\ PoolSize \in Nat
                         /\ PageSize \subseteq Nat \ {0}
                         /\ MaxBytes \in Nat
                         /\ MaxCallbacks \in Nat

VARIABLES
    bufferedBytes, closed, blockOnFull,
    bufferBlockedFuture,    \* is it not null?
    blockedOnMemory,        \* NoFuture for NOT_BLOCKED
    driver,                 \* what each driver does
    pages,                  \* bytes of the pages in the buffer, or entering it
    usedBytes,              \* LocalMemoryContext.usedBytes
    otherBytes,             \* MemoryPool: reserved for everyone else
    poolFuture,             \* MemoryPool.future, NoFuture if it is null
    listeners,              \* callbacks registered with each pool future
    due,                    \* onMemoryAvailable calls that did not start yet
    checked                 \* ... that found the buffer not full so far

DriverState == {"running", "writing", "waiting", "notified", "failed"}

buffer == <<bufferedBytes, closed, blockOnFull, bufferBlockedFuture, blockedOnMemory>>
pool == <<usedBytes, otherBytes, poolFuture, listeners, due>>
vars == <<buffer, pool, driver, pages, checked>>

Init ==
    /\ bufferedBytes = 0
    /\ closed = FALSE
    /\ blockOnFull = TRUE
    /\ bufferBlockedFuture = FALSE
    /\ blockedOnMemory = NoFuture
    /\ driver = [d \in Driver |-> "running"]
    /\ pages = 0
    /\ usedBytes = 0
    /\ otherBytes = 0
    /\ poolFuture = NoFuture
    /\ listeners = [f \in MemoryFuture |-> 0]
    /\ due = 0
    /\ checked = 0

-----------------------------------------------------------------------------
(* The memory pool.                                                        *)

(* The pool completes a future when it drops it.                           *)
IsDone(f) == f = NoFuture \/ f # poolFuture

FreeBytes(used, other) == PoolSize - used - other

(* A future that nothing refers to any more.                               *)
Unused(f) == f # blockedOnMemory /\ f # poolFuture /\ listeners[f] = 0

(* reserve: the caller gets the future of an exhausted pool, which is made *)
(* if need be.  Below its guaranteed memory a task is never blocked.       *)
Reserve(f) ==
    /\ IF FreeBytes(usedBytes', otherBytes') <= 0
       THEN /\ \/ poolFuture # NoFuture /\ UNCHANGED poolFuture
               \/ poolFuture = NoFuture /\ poolFuture' \in {g \in MemoryFuture : Unused(g)}
            /\ f \in {poolFuture', NoFuture}
       ELSE UNCHANGED poolFuture /\ f = NoFuture
    /\ UNCHANGED due

(* free: the future is completed if there is memory again, and with it     *)
(* every listener is handed to the executor.                               *)
Completes == poolFuture # NoFuture /\ FreeBytes(usedBytes', otherBytes') > 0

Free ==
    /\ poolFuture' = IF Completes THEN NoFuture ELSE poolFuture
    /\ due' = IF Completes THEN due + listeners[poolFuture] ELSE due

Dropped(f) == Completes /\ f = poolFuture

OthersReserve(n) ==
    /\ otherBytes + n <= MaxBytes
    /\ otherBytes' = otherBytes + n
    /\ UNCHANGED usedBytes
    /\ \E f \in MemoryFuture \cup {NoFuture} : Reserve(f)
    /\ UNCHANGED <<buffer, listeners, driver, pages, checked>>

OthersFree(n) ==
    /\ n <= otherBytes
    /\ otherBytes' = otherBytes - n
    /\ UNCHANGED usedBytes
    /\ Free
    /\ listeners' = [f \in MemoryFuture |-> IF Dropped(f) THEN 0 ELSE listeners[f]]
    /\ UNCHANGED <<buffer, driver, pages, checked>>

-----------------------------------------------------------------------------
(* Updating the memory usage.                                              *)

IsBufferFull == bufferedBytes > MaxBufferedBytes /\ blockOnFull

(* The waiting drivers are notified on the executor, and the next one that *)
(* blocks gets a new future.                                               *)
Notified(next) == [d \in Driver |-> IF next[d] = "waiting" THEN "notified" ELSE next[d]]

(* What is registered or due of onMemoryAvailable is bounded.              *)
CallbacksLeft(f) == due + checked + listeners[f] < MaxCallbacks

(* The future that setBytes returned is not done: wait for it, once.       *)
(* Mutant: onMemoryAvailable is not registered. *)
WaitWithoutListener(f, next) ==
    /\ blockedOnMemory' = f
    /\ UNCHANGED <<listeners, bufferBlockedFuture>>
    /\ driver' = next

WaitForMemory(f, next) ==
    /\ blockedOnMemory' = f
    /\ listeners' = IF blockedOnMemory # f THEN [listeners EXCEPT ![f] = @ + 1] ELSE listeners
    /\ blockedOnMemory # f => CallbacksLeft(f)
    /\ UNCHANGED bufferBlockedFuture
    /\ driver' = next

(* It is done: the drivers go on, unless the buffer is full.               *)
NotBlockedOnMemory(next) ==
    /\ blockedOnMemory' = NoFuture
    /\ IF bufferedBytes' <= MaxBufferedBytes \/ ~blockOnFull
       THEN bufferBlockedFuture' = FALSE /\ driver' = Notified(next)
       ELSE UNCHANGED bufferBlockedFuture /\ driver' = next
    /\ listeners' = [f \in MemoryFuture |-> IF usedBytes' < usedBytes /\ Dropped(f)
                                            THEN 0 ELSE listeners[f]]

(* LocalMemoryContext.setBytes, and what updateMemoryUsage does with the   *)
(* future it returns.                                                      *)
SetBytes(bytes, next) ==
    /\ usedBytes' = bytes
    /\ UNCHANGED otherBytes
    /\ \/ /\ bytes = usedBytes
          /\ UNCHANGED <<poolFuture, due>>
          /\ NotBlockedOnMemory(next)
       \/ /\ bytes < usedBytes
          /\ Free
          /\ NotBlockedOnMemory(next)
       \/ /\ bytes > usedBytes
          /\ \E f \in MemoryFuture \cup {NoFuture} :
                /\ Reserve(f)
                /\ IF f = NoFuture THEN NotBlockedOnMemory(next) ELSE WaitForMemory(f, next)

(* updateMemoryUsage; "next" is what the drivers do afterwards.  Nothing   *)
(* is counted after close.                                                 *)
UpdateMemoryUsage(bytesAdded, next) ==
    IF closed
    THEN driver' = next /\ UNCHANGED <<buffer, pool>>
    ELSE /\ bufferedBytes' = bufferedBytes + bytesAdded
         /\ UNCHANGED <<closed, blockOnFull>>
         /\ SetBytes(bufferedBytes + bytesAdded, next)

-----------------------------------------------------------------------------
(* The drivers and the readers.                                            *)

(* getBufferBlockedFuture.                                                 *)
IsFull(d) ==
    /\ driver[d] = "running"
    /\ IF ~bufferBlockedFuture /\ IsDone(blockedOnMemory) /\ ~IsBufferFull
       THEN /\ driver' = [driver EXCEPT ![d] = "writing"]
            /\ UNCHANGED bufferBlockedFuture
       ELSE /\ driver' = [driver EXCEPT ![d] = "waiting"]
            /\ bufferBlockedFuture' = TRUE
    /\ UNCHANGED <<bufferedBytes, closed, blockOnFull, blockedOnMemory, pool, pages, checked>>

(* enqueue: the bytes are counted before the pages enter the buffer.       *)
Enqueue(d, n) ==
    /\ driver[d] = "writing"
    /\ bufferedBytes + n <= MaxBytes /\ pages + n <= MaxBytes
    /\ pages' = pages + n
    /\ UpdateMemoryUsage(n, [driver EXCEPT ![d] = "running"])
    /\ UNCHANGED checked

(* The task exceeds its memory limit: setBytes throws after bufferedBytes  *)
(* was changed, the pages do not enter the buffer, and the driver fails.   *)
EnqueueFails(d, n) ==
    /\ driver[d] = "writing"
    /\ ~closed
    /\ bufferedBytes + n <= MaxBytes
    /\ bufferedBytes' = bufferedBytes + n
    /\ driver' = [driver EXCEPT ![d] = "failed"]
    /\ UNCHANGED <<closed, blockOnFull, bufferBlockedFuture, blockedOnMemory, pool, pages, checked>>

(* A reader acknowledged pages, or its buffer was destroyed.               *)
Release(n) ==
    /\ n <= pages
    /\ pages' = pages - n
    /\ UpdateMemoryUsage(-n, driver)
    /\ UNCHANGED checked

(* The bytes of a failed enqueue stay counted.  They may make a release a  *)
(* reservation, which throws like that of the driver did.                  *)
ReleaseFails(n) ==
    /\ n <= pages
    /\ ~closed
    /\ bufferedBytes - n > usedBytes
    /\ pages' = pages - n
    /\ bufferedBytes' = bufferedBytes - n
    /\ UNCHANGED <<closed, blockOnFull, bufferBlockedFuture, blockedOnMemory, pool, driver, checked>>

(* setNoBlockOnFull: there are no more pages, or the buffer is going away. *)
SetNoBlockOnFull ==
    /\ blockOnFull
    /\ blockOnFull' = FALSE
    /\ IF IsDone(blockedOnMemory)
       THEN bufferBlockedFuture' = FALSE /\ driver' = Notified(driver)
       ELSE UNCHANGED <<bufferBlockedFuture, driver>>
    /\ UNCHANGED <<bufferedBytes, closed, blockedOnMemory, pool, pages, checked>>

(* close, which follows setNoBlockOnFull: everything is given back.        *)
(* Mutant: the memory context keeps its bytes. *)
CloseKeepingBytes ==
    /\ ~blockOnFull /\ ~closed
    /\ closed' = TRUE
    /\ UNCHANGED <<bufferedBytes, blockOnFull, bufferBlockedFuture, blockedOnMemory, pool, driver, pages, checked>>

Close ==
    /\ ~blockOnFull /\ ~closed
    /\ closed' = TRUE
    /\ bufferedBytes' = 0
    /\ SetBytes(0, driver)
    /\ UNCHANGED <<blockOnFull, pages, checked>>

(* onMemoryAvailable looks at the buffer before it takes the lock ...      *)
OnMemoryAvailable ==
    /\ due > 0
    /\ due' = due - 1
    /\ checked' = IF IsBufferFull THEN checked ELSE checked + 1
    /\ UNCHANGED <<buffer, usedBytes, otherBytes, poolFuture, listeners, driver, pages>>

(* ... and again under the lock.                                           *)
NotifyIfNotFull ==
    /\ checked > 0
    /\ checked' = checked - 1
    /\ IF IsBufferFull \/ ~IsDone(blockedOnMemory)
       THEN UNCHANGED <<bufferBlockedFuture, driver>>
       ELSE bufferBlockedFuture' = FALSE /\ driver' = Notified(driver)
    /\ UNCHANGED <<bufferedBytes, closed, blockOnFull, blockedOnMemory, pool, pages>>

(* Mutant: nobody is notified after close. *)
WakeUpUnlessClosed(d) ==
    /\ driver[d] = "notified"
    /\ ~closed
    /\ driver' = [driver EXCEPT ![d] = "running"]
    /\ UNCHANGED <<buffer, pool, pages, checked>>

(* notifyListener: the executor completes the future of the driver.        *)
WakeUp(d) ==
    /\ driver[d] = "notified"
    /\ driver' = [driver EXCEPT ![d] = "running"]
    /\ UNCHANGED <<buffer, pool, pages, checked>>

-----------------------------------------------------------------------------
Next ==
    \/ \E n \in PageSize : \/ OthersReserve(n) \/ OthersFree(n)
                           \/ Release(n) \/ ReleaseFails(n)
                           \/ \E d \in Driver : Enqueue(d, n) \/ EnqueueFails(d, n)
    \/ \E d \in Driver : IsFull(d) \/ WakeUp(d)
    \/ SetNoBlockOnFull \/ Close \/ OnMemoryAvailable \/ NotifyIfNotFull

Spec == Init /\ [][Next]_vars

Failed == \E d \in Driver : driver[d] = "failed"

(* The executor runs what it is given, the readers of the buffer go on     *)
(* reading, and the output buffer of a task that failed is aborted.        *)
Fairness ==
    /\ WF_vars(OnMemoryAvailable) /\ WF_vars(NotifyIfNotFull)
    /\ \A d \in Driver : WF_vars(WakeUp(d))
    /\ WF_vars(\E n \in PageSize : Release(n))
    /\ WF_vars(Failed /\ (SetNoBlockOnFull \/ Close))

FairSpec == Spec /\ Fairness

-----------------------------------------------------------------------------
(* The type of the state.                                                  *)
TypeOK ==
    /\ bufferedBytes \in Nat
    /\ closed \in BOOLEAN
    /\ blockOnFull \in BOOLEAN
    /\ bufferBlockedFuture \in BOOLEAN
    /\ blockedOnMemory \in MemoryFuture \cup {NoFuture}
    /\ driver \in [Driver -> DriverState]
    /\ pages \in Nat
    /\ usedBytes \in Nat
    /\ otherBytes \in Nat
    /\ poolFuture \in MemoryFuture \cup {NoFuture}
    /\ listeners \in [MemoryFuture -> Nat]
    /\ due \in Nat
    /\ checked \in Nat

(* No lost wake-up: a driver waits only while the buffer is full, or while *)
(* the future it is blocked on has a listener, or while a call of          *)
(* onMemoryAvailable is due.  Whichever of updateMemoryUsage,              *)
(* setNoBlockOnFull, close and onMemoryAvailable comes first, the last of  *)
(* the conditions to go away wakes the driver.                             *)
NoLostWakeup ==
    ~Failed => \A d \in Driver : driver[d] = "waiting" =>
        \/ IsBufferFull
        \/ ~IsDone(blockedOnMemory) /\ listeners[blockedOnMemory] > 0
        \/ due + checked > 0

(* The bytes of every page are counted once and given back once: a release *)
(* never makes bufferedBytes negative (the checkArgument of                *)
(* updateMemoryUsage), the task's memory context holds what is counted,    *)
(* and a closed manager holds nothing, however late a page is added or     *)
(* released.                                                               *)
BytesGivenBack ==
    /\ ~closed => pages <= bufferedBytes /\ usedBytes <= bufferedBytes
    /\ ~closed /\ ~Failed => pages = bufferedBytes /\ usedBytes = bufferedBytes
    /\ closed => bufferedBytes = 0 /\ usedBytes = 0

(* The inductive invariant behind the two: drivers wait only for a future  *)
(* that is there; the manager listens to the memory future that it is      *)
(* blocked on; and a future that is there has a reason to be.  A release   *)
(* that fails, possible only after an enqueue that failed, may lose the    *)
(* reason without completing the future (updateMemoryUsage throws in       *)
(* setBytes): abort of the task's buffer has to do it.                     *)
MemoryInv ==
    /\ \A d \in Driver : driver[d] = "waiting" => bufferBlockedFuture
    /\ ~IsDone(blockedOnMemory) => listeners[blockedOnMemory] > 0
    /\ ~Failed /\ bufferBlockedFuture =>
          IsBufferFull \/ ~IsDone(blockedOnMemory) \/ due + checked > 0
    /\ BytesGivenBack

(* A driver that waits for the buffer eventually goes on, even if the      *)
(* other tasks never free any memory.                                      *)
DriversGoOn == \A d \in Driver : driver[d] = "waiting" ~> driver[d] = "running"
=============================================================================
