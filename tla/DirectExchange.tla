---------------------------- MODULE DirectExchange ----------------------------
(***************************************************************************)
(* io.trino.operator.DirectExchangeClient with its                         *)
(* StreamingDirectExchangeBuffer: one consumer reads the pages of several  *)
(* tasks.  The exchange keeps one HttpPageBufferClient per task, asks some *)
(* of them for pages while its buffer has room, and wakes the consumer     *)
(* when there is something to read.                                        *)
(*                                                                         *)
(* A client is reduced to what the exchange sees of it: a request that is  *)
(* scheduled, sent, and answered by a callback (the module PageTransport   *)
(* has the rest).  A step is one critical section of the exchange or of    *)
(* its buffer.  Every page has the same size.                              *)
(***************************************************************************)
EXTENDS Integers, Sequences, FiniteSets, SequencesExt

CONSTANTS
    Client,         \* the clients, one for each task that is read
    Pages,          \* how many pages each task produces
    MaxResponse,    \* pages in one response
    Capacity        \* bufferCapacityInBytes, in pages

ASSUME ClientAssumption == IsFiniteSet(Client)
ASSUME SizeAssumption == Pages \in Nat /\ MaxResponse \in Nat \ {0} /\ Capacity \in Nat \ {0}

VARIABLES
    (* DirectExchangeClient *)
    allClients, noMoreLocations, queuedClients, completedClients, closed,
    (* StreamingDirectExchangeBuffer *)
    bufferedPages,  \* the task of each page
    activeTasks, noMoreTasks, failure, bufferClosed,
    blocked,        \* is the future that the consumer waits for not done yet?
    unblocking,     \* the executor was told to complete it
    (* the clients *)
    stage,          \* what each client does for the exchange
    pages,          \* pages in the response that a callback is handling
    left,           \* pages that the task still has
    atEnd,          \* HttpPageBufferClient.completed
    clientClosed,   \* HttpPageBufferClient.closed
    destroying,     \* the DELETE that close() sent is not answered yet
    (* the consumer *)
    consumer,
    polled,         \* history: pages of each task that the consumer got
    outcome         \* history: how each client was completed

exchange == <<allClients, noMoreLocations, completedClients, closed>>
buffer == <<bufferedPages, activeTasks, noMoreTasks, failure, bufferClosed, blocked, unblocking>>
clients == <<pages, left, atEnd, clientClosed, destroying>>
vars == <<exchange, queuedClients, buffer, stage, clients, consumer, polled, outcome>>

Stage == {"idle", "scheduled", "get", "delete", "adding", "returning",
          "failing", "taskFailed", "finishing"}

Init ==
    /\ allClients = {}
    /\ noMoreLocations = FALSE
    /\ queuedClients = << >>
    /\ completedClients = {}
    /\ closed = FALSE
    /\ bufferedPages = << >>
    /\ activeTasks = {}
    /\ noMoreTasks = FALSE
    /\ failure = FALSE
    /\ bufferClosed = FALSE
    /\ blocked = TRUE
    /\ unblocking = FALSE
    /\ stage = [c \in Client |-> "idle"]
    /\ pages = [c \in Client |-> 0]
    /\ left = [c \in Client |-> Pages]
    /\ atEnd = [c \in Client |-> FALSE]
    /\ clientClosed = [c \in Client |-> FALSE]
    /\ destroying = [c \in Client |-> FALSE]
    /\ consumer = "running"
    /\ polled = [c \in Client |-> 0]
    /\ outcome = [c \in Client |-> "none"]

-----------------------------------------------------------------------------
(* Scheduling requests.                                                    *)

BufferFinished == ~failure /\ noMoreTasks /\ activeTasks = {} /\ bufferedPages = << >>

(* Clients that are neither queued nor completed, as the exchange counts.  *)
PendingClients(queue, completed, all) ==
    Cardinality(all) - Len(queue) - Cardinality(completed)

(* How many clients may be taken from the queue: the number that the       *)
(* exchange computes from the average response is at least one, and the    *)
(* clients that are pending count.  A mistake would be to round it down to *)
(* zero.                                                                   *)
WantedRoundedDown(queue, pending) == 0 .. Len(queue)

Wanted(queue, pending) ==
    {n \in 0 .. Len(queue) : n = Len(queue) \/ n + pending >= 1}

(* getRemainingCapacityInBytes is positive.                                *)
HasRoom == Len(bufferedPages') < Capacity

(* scheduleRequestIfNecessary, at the end of a critical section that       *)
(* leaves the given queue and stages.  A client that is closed or busy     *)
(* ignores the request.                                                    *)
ScheduleRequestIfNecessary(queue, stages) ==
    IF \/ (BufferFinished' \/ failure') /\ Cardinality(completedClients') = Cardinality(allClients')
       \/ ~HasRoom
    THEN queuedClients' = queue /\ stage' = stages
    ELSE \E n \in Wanted(queue, PendingClients(queue, completedClients', allClients')) :
           /\ queuedClients' = SubSeq(queue, n + 1, Len(queue))
           /\ stage' = [c \in Client |->
                          IF /\ c \in ToSet(SubSeq(queue, 1, n))
                             /\ stages[c] = "idle" /\ ~clientClosed'[c]
                          THEN "scheduled" ELSE stages[c]]

(* addLocation, for a split that names a task not seen before.             *)
AddLocation(c) ==
    /\ ~closed
    /\ c \notin allClients
    /\ ~noMoreLocations
    /\ allClients' = allClients \cup {c}
    /\ activeTasks' = IF bufferClosed THEN activeTasks ELSE activeTasks \cup {c}
    /\ UNCHANGED <<noMoreLocations, completedClients, closed, bufferedPages, noMoreTasks, failure,
                   bufferClosed, blocked, unblocking, clients, consumer, polled, outcome>>
    /\ ScheduleRequestIfNecessary(Append(queuedClients, c), stage)

(* unblockIfNecessary.                                                     *)
Unblock == unblocking' = (unblocking \/ blocked) /\ UNCHANGED blocked

NoMoreLocations ==
    /\ ~noMoreLocations
    /\ noMoreLocations' = TRUE
    /\ noMoreTasks' = TRUE
    /\ IF activeTasks = {} THEN Unblock ELSE UNCHANGED <<blocked, unblocking>>
    /\ UNCHANGED <<allClients, completedClients, closed, bufferedPages, activeTasks, failure,
                   bufferClosed, clients, consumer, polled, outcome>>
    /\ ScheduleRequestIfNecessary(queuedClients, stage)

-----------------------------------------------------------------------------
(* A client, as the exchange sees it.                                      *)

(* initiateRequest: a GET, or a DELETE once the end of the buffer was      *)
(* seen; nothing if the client was closed in the meantime.                 *)
InitiateRequest(c) ==
    /\ stage[c] = "scheduled"
    /\ stage' = [stage EXCEPT ![c] = IF clientClosed[c] THEN "idle"
                                     ELSE IF atEnd[c] THEN "delete" ELSE "get"]
    /\ UNCHANGED <<exchange, queuedClients, buffer, clients, consumer, polled, outcome>>

(* A GET is answered with n pages of the task, or with the end of them.    *)
(* close() cancels a request that is not answered.                         *)
GetSucceeds(c, n) ==
    /\ stage[c] = "get"
    /\ ~clientClosed[c]
    /\ n <= left[c]
    /\ stage' = [stage EXCEPT ![c] = "adding"]
    /\ pages' = [pages EXCEPT ![c] = n]
    /\ left' = [left EXCEPT ![c] = @ - n]
    /\ IF n = 0 /\ left[c] = 0
       THEN \E end \in BOOLEAN : atEnd' = [atEnd EXCEPT ![c] = end]
       ELSE UNCHANGED atEnd
    /\ UNCHANGED <<exchange, queuedClients, buffer, clientClosed, destroying, consumer, polled, outcome>>

(* A DELETE is answered; clientFinished is called next.                    *)
DeleteSucceeds(c) ==
    /\ stage[c] = "delete"
    /\ ~clientClosed[c]
    /\ stage' = [stage EXCEPT ![c] = "finishing"]
    /\ clientClosed' = [clientClosed EXCEPT ![c] = TRUE]
    /\ UNCHANGED <<exchange, queuedClients, buffer, pages, left, atEnd, destroying, consumer, polled, outcome>>

(* The request fails for now, or for good.                                 *)
RequestFails(c) ==
    /\ stage[c] \in {"get", "delete"}
    /\ stage' = [stage EXCEPT ![c] = "returning"]
    /\ UNCHANGED <<exchange, queuedClients, buffer, clients, consumer, polled, outcome>>

RequestFailsForGood(c) ==
    /\ stage[c] \in {"get", "delete"}
    /\ stage' = [stage EXCEPT ![c] = "failing"]
    /\ UNCHANGED <<exchange, queuedClients, buffer, clients, consumer, polled, outcome>>

(* The response says that the task failed.                                 *)
TaskHasFailed(c) ==
    /\ stage[c] = "get"
    /\ ~clientClosed[c]
    /\ stage' = [stage EXCEPT ![c] = "taskFailed"]
    /\ UNCHANGED <<exchange, queuedClients, buffer, clients, consumer, polled, outcome>>

(* DirectExchangeClient.addPages, which throws if the client is completed. *)
(* A closed buffer ignores the pages.                                      *)
AddPages(c) ==
    /\ stage[c] = "adding"
    /\ IF c \in completedClients
       THEN stage' = [stage EXCEPT ![c] = "idle"] /\ UNCHANGED <<bufferedPages, blocked, unblocking>>
       ELSE /\ stage' = [stage EXCEPT ![c] = "returning"]
            /\ IF pages[c] = 0 \/ bufferClosed
               THEN UNCHANGED <<bufferedPages, blocked, unblocking>>
               ELSE /\ bufferedPages' = bufferedPages \o [i \in 1 .. pages[c] |-> c]
                    /\ Unblock
    /\ pages' = [pages EXCEPT ![c] = 0]
    /\ UNCHANGED <<exchange, queuedClients, activeTasks, noMoreTasks, failure, bufferClosed,
                   left, atEnd, clientClosed, destroying, consumer, polled, outcome>>

(* The client goes back to the queue, and a mistake: also if it failed.    *)
RequeueCompleted(c) ==
    IF c \in ToSet(queuedClients) THEN queuedClients ELSE Append(queuedClients, c)

Requeue(c) ==
    IF c \in completedClients' \cup ToSet(queuedClients) THEN queuedClients ELSE Append(queuedClients, c)

(* requestComplete.                                                        *)
RequestComplete(c) ==
    /\ stage[c] = "returning"
    /\ UNCHANGED <<exchange, buffer, clients, consumer, polled, outcome>>
    /\ ScheduleRequestIfNecessary(Requeue(c), [stage EXCEPT ![c] = "idle"])

(* clientFinished, for the DELETE of a client that has seen the end, and a *)
(* mistake: the consumer is not woken after the last task.                 *)
TaskFinishedQuietly(c) ==
    /\ activeTasks' = IF c \in completedClients \/ bufferClosed THEN activeTasks ELSE activeTasks \ {c}
    /\ UNCHANGED <<blocked, unblocking>>

TaskFinished(c) ==
    IF c \in completedClients \/ bufferClosed
    THEN UNCHANGED <<activeTasks, blocked, unblocking>>
    ELSE /\ activeTasks' = activeTasks \ {c}
         /\ IF noMoreTasks /\ activeTasks' = {} THEN Unblock ELSE UNCHANGED <<blocked, unblocking>>

Complete(c, how) ==
    /\ completedClients' = completedClients \cup {c}
    /\ outcome' = IF c \in completedClients THEN outcome ELSE [outcome EXCEPT ![c] = how]

ClientFinished(c) ==
    /\ stage[c] = "finishing"
    /\ Complete(c, "finished")
    /\ TaskFinished(c)
    /\ UNCHANGED <<allClients, noMoreLocations, closed, bufferedPages, noMoreTasks, failure, bufferClosed,
                   clients, consumer, polled>>
    /\ ScheduleRequestIfNecessary(queuedClients, [stage EXCEPT ![c] = "idle"])

(* clientFailed: the buffer goes on waiting for a failed task, which the   *)
(* coordinator will report.  A mistake would be to count it as finished.   *)
ForgetFailedTask(c, taskFailed) ==
    IF c \in completedClients \/ bufferClosed
    THEN UNCHANGED <<failure, activeTasks, blocked, unblocking>>
    ELSE /\ failure' = (failure \/ ~taskFailed)
         /\ activeTasks' = activeTasks \ {c}
         /\ Unblock

TaskFailed(c, taskFailed) ==
    IF c \in completedClients \/ bufferClosed \/ taskFailed
    THEN UNCHANGED <<failure, activeTasks, blocked, unblocking>>
    ELSE /\ failure' = TRUE
         /\ activeTasks' = activeTasks \ {c}
         /\ Unblock

CloseClient(c) ==
    /\ clientClosed' = [clientClosed EXCEPT ![c] = TRUE]
    /\ destroying' = [destroying EXCEPT ![c] = @ \/ ~clientClosed[c]]

ClientFailed(c) ==
    /\ stage[c] \in {"failing", "taskFailed"}
    /\ Complete(c, stage[c])
    /\ TaskFailed(c, stage[c] = "taskFailed")
    /\ IF c \in completedClients THEN UNCHANGED <<clientClosed, destroying>> ELSE CloseClient(c)
    /\ UNCHANGED <<allClients, noMoreLocations, closed, bufferedPages, noMoreTasks, bufferClosed,
                   pages, left, atEnd, consumer, polled>>
    /\ ScheduleRequestIfNecessary(queuedClients, [stage EXCEPT ![c] = "returning"])

(* The DELETE that close() sent is answered, fails for now or for good.    *)
DestroySucceeds(c) ==
    /\ destroying[c]
    /\ destroying' = [destroying EXCEPT ![c] = FALSE]
    /\ Complete(c, "finished")
    /\ TaskFinished(c)
    /\ UNCHANGED <<allClients, noMoreLocations, closed, bufferedPages, noMoreTasks, failure, bufferClosed,
                   pages, left, atEnd, clientClosed, consumer, polled>>
    /\ ScheduleRequestIfNecessary(queuedClients, stage)

DestroyFails(c, forGood) ==
    /\ destroying[c]
    /\ destroying' = [destroying EXCEPT ![c] = FALSE]
    /\ IF forGood
       THEN Complete(c, "failing") /\ TaskFailed(c, FALSE)
       ELSE UNCHANGED <<completedClients, outcome, failure, activeTasks, blocked, unblocking>>
    /\ UNCHANGED <<allClients, noMoreLocations, closed, bufferedPages, noMoreTasks, bufferClosed,
                   pages, left, atEnd, clientClosed, consumer, polled>>
    /\ ScheduleRequestIfNecessary(Requeue(c), stage)

(* close of the exchange: every client, then the buffer.                   *)
CloseExchange ==
    /\ ~closed
    /\ closed' = TRUE
    /\ clientClosed' = [c \in Client |-> clientClosed[c] \/ c \in allClients]
    /\ destroying' = [c \in Client |-> destroying[c] \/ (c \in allClients /\ ~clientClosed[c])]
    /\ bufferedPages' = << >>
    /\ activeTasks' = {}
    /\ noMoreTasks' = TRUE
    /\ bufferClosed' = TRUE
    /\ Unblock
    /\ UNCHANGED <<allClients, noMoreLocations, completedClients, queuedClients, failure, stage,
                   pages, left, atEnd, consumer, polled, outcome>>

-----------------------------------------------------------------------------
(* The consumer.                                                           *)

(* The executor completes the future.                                      *)
CompleteFuture ==
    /\ unblocking
    /\ unblocking' = FALSE
    /\ blocked' = FALSE
    /\ UNCHANGED <<exchange, queuedClients, bufferedPages, activeTasks, noMoreTasks, failure, bufferClosed,
                   stage, clients, consumer, polled, outcome>>

(* StreamingDirectExchangeBuffer.pollPage: a new future if the buffer is   *)
(* empty and may get more pages.                                           *)
ResetBlocked ==
    IF bufferedPages' = << >> /\ ~BufferFinished' /\ ~blocked
    THEN blocked' = TRUE /\ unblocking' = FALSE
    ELSE UNCHANGED <<blocked, unblocking>>

(* The head of the buffer goes to the consumer.                            *)
PollHead ==
    /\ bufferedPages' = Tail(bufferedPages)
    /\ polled' = [polled EXCEPT ![Head(bufferedPages)] = @ + 1]

PollPage ==
    /\ consumer = "running"
    /\ UNCHANGED <<exchange, queuedClients, activeTasks, noMoreTasks, failure, bufferClosed,
                   stage, clients, outcome>>
    /\ \/ /\ failure
          /\ consumer' = "failed"
          /\ UNCHANGED <<bufferedPages, blocked, unblocking, polled>>
       \/ /\ ~failure /\ bufferClosed
          /\ consumer' = "empty"
          /\ UNCHANGED <<bufferedPages, blocked, unblocking, polled>>
       \/ /\ ~failure /\ ~bufferClosed /\ bufferedPages = << >>
          /\ consumer' = "empty"
          /\ UNCHANGED <<bufferedPages, polled>>
          /\ ResetBlocked
       \/ /\ ~failure /\ ~bufferClosed /\ bufferedPages # << >>
          /\ consumer' = "polled"
          /\ PollHead
          /\ ResetBlocked

(* DirectExchangeClient.pollPage goes on after the buffer's lock.  Without *)
(* that a full buffer would never be filled again.                         *)
(* Mutant: no request is scheduled. *)
GoOnAfterPoll ==
    /\ consumer = "polled"
    /\ consumer' = "running"
    /\ UNCHANGED <<exchange, queuedClients, buffer, stage, clients, polled, outcome>>

ScheduleAfterPoll ==
    /\ consumer = "polled"
    /\ consumer' = "running"
    /\ UNCHANGED <<exchange, buffer, clients, polled, outcome>>
    /\ ScheduleRequestIfNecessary(queuedClients, stage)

(* isFinished, and isBlocked if it is not.                                 *)
IsFinished ==
    /\ consumer = "empty"
    /\ consumer' = IF closed \/ (BufferFinished /\ Cardinality(completedClients) = Cardinality(allClients))
                   THEN "finished" ELSE "unfinished"
    /\ UNCHANGED <<exchange, queuedClients, buffer, stage, clients, polled, outcome>>

IsBlocked ==
    /\ consumer = "unfinished"
    /\ consumer' = IF blocked THEN "waiting" ELSE "running"
    /\ UNCHANGED <<exchange, queuedClients, buffer, stage, clients, polled, outcome>>

WakeUp ==
    /\ consumer = "waiting"
    /\ ~blocked
    /\ consumer' = "running"
    /\ UNCHANGED <<exchange, queuedClients, buffer, stage, clients, polled, outcome>>

-----------------------------------------------------------------------------
Callback(c) == AddPages(c) \/ RequestComplete(c) \/ ClientFinished(c) \/ ClientFailed(c)

Answer(c) ==
    \/ \E n \in 0 .. MaxResponse : GetSucceeds(c, n)
    \/ DeleteSucceeds(c) \/ TaskHasFailed(c)
    \/ RequestFails(c) \/ RequestFailsForGood(c)

Consume == PollPage \/ ScheduleAfterPoll \/ IsFinished \/ IsBlocked \/ WakeUp

Next ==
    \/ \E c \in Client : AddLocation(c) \/ InitiateRequest(c) \/ Answer(c) \/ Callback(c)
                           \/ DestroySucceeds(c) \/ \E forGood \in BOOLEAN : DestroyFails(c, forGood)
    \/ NoMoreLocations \/ CloseExchange \/ CompleteFuture \/ Consume

Spec == Init /\ [][Next]_vars

(* What the exchange does itself happens; a request that is sent again and *)
(* again is eventually answered with progress, or given up for good by     *)
(* Backoff; the plan names all tasks sooner or later.                      *)
Progress(c) ==
    \/ \E n \in 1 .. MaxResponse : GetSucceeds(c, n)
    \/ GetSucceeds(c, 0) /\ atEnd'[c]
    \/ DeleteSucceeds(c) \/ TaskHasFailed(c) \/ RequestFailsForGood(c)

Fairness ==
    /\ \A c \in Client : /\ WF_vars(InitiateRequest(c)) /\ WF_vars(Callback(c))
                         /\ WF_vars(Answer(c)) /\ SF_vars(Progress(c))
    /\ WF_vars(NoMoreLocations) /\ WF_vars(CompleteFuture) /\ WF_vars(Consume)

(* An exchange that nobody closes.                                         *)
OpenNext == Next /\ ~closed'

FairSpec == Init /\ [][OpenNext]_vars /\ Fairness

-----------------------------------------------------------------------------
(* The type of the state.                                                  *)
TypeOK ==
    /\ allClients \in SUBSET Client
    /\ noMoreLocations \in BOOLEAN
    /\ queuedClients \in Seq(Client)
    /\ completedClients \in SUBSET Client
    /\ closed \in BOOLEAN
    /\ bufferedPages \in Seq(Client)
    /\ activeTasks \in SUBSET Client
    /\ noMoreTasks \in BOOLEAN
    /\ failure \in BOOLEAN
    /\ bufferClosed \in BOOLEAN
    /\ blocked \in BOOLEAN
    /\ unblocking \in BOOLEAN
    /\ stage \in [Client -> Stage]
    /\ pages \in [Client -> 0 .. MaxResponse]
    /\ left \in [Client -> 0 .. Pages]
    /\ atEnd \in [Client -> BOOLEAN]
    /\ clientClosed \in [Client -> BOOLEAN]
    /\ destroying \in [Client -> BOOLEAN]
    /\ consumer \in {"running", "polled", "empty", "unfinished", "waiting", "finished", "failed"}
    /\ polled \in [Client -> 0 .. Pages]
    /\ outcome \in [Client -> {"none", "finished", "failing", "taskFailed"}]

(* The exchange is finished only when it has everything: unless it was     *)
(* closed, a consumer that is told so has got every page of every task,    *)
(* and no task or client failed (isFinished, taskFinished and the early    *)
(* return of taskFailed).                                                  *)
FinishedHasEverything ==
    consumer = "finished" /\ ~closed =>
        /\ noMoreLocations
        /\ \A c \in allClients : outcome[c] = "finished" /\ polled[c] = Pages

(* No client is lost: as long as the exchange is open, a client that is    *)
(* not completed is queued or at work, and never both; a completed one is  *)
(* not queued.  PendingClients, which scheduleRequestIfNecessary computes  *)
(* by subtraction, is the number of clients at work.                       *)
NoClientLost ==
    ~closed =>
        /\ \A c \in allClients \ completedClients : c \in ToSet(queuedClients) <=> stage[c] = "idle"
        /\ ToSet(queuedClients) \cap completedClients = {}
        /\ PendingClients(queuedClients, completedClients, allClients)
             = Cardinality({c \in allClients \ completedClients : stage[c] # "idle"})

(* The exchange never stalls: with room in its buffer and clients left to  *)
(* read from, some client is at work, or the consumer is about to schedule *)
(* one after taking a page.                                                *)
NeverStalls ==
    /\ ~closed
    /\ Len(bufferedPages) < Capacity
    /\ completedClients # allClients
    => consumer = "polled" \/ \E c \in allClients \ completedClients : stage[c] # "idle"

(* No lost wake-up: the future that the consumer waits for is completed,   *)
(* or about to be, whenever there is a page to poll, a failure to throw,   *)
(* or nothing more to wait for.                                            *)
ConsumerWoken ==
    consumer = "waiting" /\ (bufferedPages # << >> \/ failure \/ BufferFinished) =>
        unblocking \/ ~blocked

(* The buffer exceeds its capacity by no more than one response of every   *)
(* client.                                                                 *)
BufferBounded == Len(bufferedPages) < Capacity + Cardinality(Client) * MaxResponse

(* The bookkeeping of the exchange: types, no client lost, and a buffer    *)
(* that exceeds its capacity no further than the clients at work make it.  *)
ExchangeInv == TypeOK /\ NoClientLost /\ BufferBounded

(* The consumer of an exchange that nobody closes gets to the end or to a  *)
(* failure, unless a task failed: then taskFailed returns early, and the   *)
(* consumer waits until the coordinator cancels it.                        *)
ConsumerEnds ==
    <>(consumer \in {"finished", "failed"} \/ \E c \in Client : outcome[c] = "taskFailed")
=============================================================================
