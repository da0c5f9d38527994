----------------------------- MODULE ClientBuffer -----------------------------
(***************************************************************************)
(* io.trino.execution.buffer.ClientBuffer: the queue of serialized pages   *)
(* that one consumer reads from one task.  A page is read by its sequence  *)
(* id; asking for sequence id s acknowledges, and drops, the pages before  *)
(* s.  At most one read waits for pages.                                   *)
(*                                                                         *)
(* The module defines what each method does to the buffer while it holds   *)
(* the lock, as operators on a buffer record.  The actions that call them, *)
(* and what the methods do after releasing the lock, are in the modules    *)
(* that put a buffer between threads and a network.                        *)
(***************************************************************************)
EXTENDS Integers, Sequences, Folds

CONSTANTS
    Page,           \* the serialized pages
    RetainedSize,   \* getRetainedSizeInBytes() of every page
    Read,           \* identities of the reads that may wait in the buffer
    NoRead          \* the null pendingRead

ASSUME RetainedSizeAssumption == RetainedSize \in [Page -> Nat]
ASSUME NoReadAssumption == NoRead \notin Read

(* The fields of a ClientBuffer that counts the given number of bytes.     *)
Buffer(bytes) ==
          [pages : Seq(Page),
           currentSequenceId : Nat,
           noMorePages : BOOLEAN,
           destroyed : BOOLEAN,
           pendingRead : Read \cup {NoRead},
           bufferedBytes : {bytes}]

NewBuffer == [pages |-> << >>,
              currentSequenceId |-> 0,
              noMorePages |-> FALSE,
              destroyed |-> FALSE,
              pendingRead |-> NoRead,
              bufferedBytes |-> 0]

(* The retained size of a list of pages.                                   *)
Bytes(ps) == MapThenFoldSet(+, 0, LAMBDA i : RetainedSize[ps[i]],
                            LAMBDA s : CHOOSE i \in s : TRUE, DOMAIN ps)

-----------------------------------------------------------------------------
AddPages(b, ps) ==
    [b EXCEPT !.pages = @ \o ps, !.bufferedBytes = @ + Bytes(ps)]

(* enqueuePages, setNoMorePages and destroy take the pending read out of   *)
(* the buffer; the caller completes it once the lock is released.          *)
EnqueuePages(b, ps) ==
    IF b.noMorePages THEN b
    ELSE [AddPages(b, ps) EXCEPT !.pendingRead = NoRead]

SetNoMorePages(b) ==
    IF b.noMorePages THEN b
    ELSE [b EXCEPT !.noMorePages = TRUE, !.pendingRead = NoRead]

(* Mutant: the pages are kept. *)
DestroyKeepingPages(b) ==
    [b EXCEPT !.bufferedBytes = 0,
              !.noMorePages = TRUE,
              !.destroyed = TRUE,
              !.pendingRead = NoRead]

Destroy(b) ==
    [b EXCEPT !.pages = << >>,
              !.bufferedBytes = 0,
              !.noMorePages = TRUE,
              !.destroyed = TRUE,
              !.pendingRead = NoRead]

(* The checkArgument of acknowledgePages: the sequence id is past the end  *)
(* of the queue.                                                           *)
InvalidAcknowledge(b, sequenceId) ==
    ~b.destroyed /\ sequenceId > b.currentSequenceId + Len(b.pages)

AcknowledgePages(b, sequenceId) ==
    IF b.destroyed \/ sequenceId < b.currentSequenceId THEN b
    ELSE LET pagesToRemove == sequenceId - b.currentSequenceId IN
         [b EXCEPT !.pages = SubSeq(@, pagesToRemove + 1, Len(@)),
                   !.currentSequenceId = sequenceId,
                   !.bufferedBytes = @ - Bytes(SubSeq(b.pages, 1, pagesToRemove))]

(* getPages answers at once when there is data, when there will be no more *)
(* data, and when the request is out of order.                             *)
CanReadNow(b, sequenceId) ==
    b.pages # << >> \/ b.noMorePages \/ sequenceId # b.currentSequenceId

(* The locked part of getPages: the pending read of an earlier request is  *)
(* thrown out, and the new one waits unless it is answered at once.        *)
GetPages(b, sequenceId, read) ==
    [b EXCEPT !.pendingRead = IF CanReadNow(b, sequenceId) THEN NoRead ELSE read]

(* The verify of processRead: a read past the current position.            *)
InvalidRead(b, sequenceId) ==
    /\ sequenceId > b.currentSequenceId
    /\ ~(b.pages = << >> /\ b.noMorePages)

(* The pages of one response: the longest run that fits in maxBytes, and   *)
(* the first page whatever its size.                                       *)
ReadLength(ps, maxBytes) ==
    CHOOSE n \in 0 .. Len(ps) :
        /\ n <= 1 \/ Bytes(SubSeq(ps, 1, n)) <= maxBytes
        /\ n = Len(ps) \/ (n >= 1 /\ ~(Bytes(SubSeq(ps, 1, n + 1)) <= maxBytes))

(* BufferResult.                                                           *)
Result(token, nextToken, bufferComplete, ps) ==
    [token |-> token, nextToken |-> nextToken,
     bufferComplete |-> bufferComplete, pages |-> ps]

EmptyResults(token, bufferComplete) == Result(token, token, bufferComplete, << >>)

(* Mutant: the next token is one page too far. *)
ProcessReadTooFar(b, sequenceId, maxBytes) ==
    IF sequenceId < b.currentSequenceId
    THEN EmptyResults(sequenceId, FALSE)
    ELSE IF b.pages = << >> /\ b.noMorePages
    THEN EmptyResults(b.currentSequenceId, TRUE)
    ELSE LET n == ReadLength(b.pages, maxBytes) IN
         Result(sequenceId, sequenceId + n + 1, FALSE, SubSeq(b.pages, 1, n))

ProcessRead(b, sequenceId, maxBytes) ==
    IF sequenceId < b.currentSequenceId
    THEN EmptyResults(sequenceId, FALSE)
    ELSE IF b.pages = << >> /\ b.noMorePages
    THEN EmptyResults(b.currentSequenceId, TRUE)
    ELSE LET n == ReadLength(b.pages, maxBytes) IN
         Result(sequenceId, sequenceId + n, FALSE, SubSeq(b.pages, 1, n))
=============================================================================
