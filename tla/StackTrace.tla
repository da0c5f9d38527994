------------------------------ MODULE StackTrace ------------------------------
(***************************************************************************)
(* QueryDetail.jsx, formatStackTrace: the stack trace of the failure of a  *)
(* query, as Java prints one.  A failure has a stack, suppressed failures  *)
(* and at most one cause.  The frames that a stack shares with the one     *)
(* that encloses it are not printed but counted.                           *)
(* The text is a sequence of parts, one per failure: its prefix, how deep  *)
(* it is indented, the frames printed, and the number in "... n more".     *)
(***************************************************************************)
EXTENDS Integers, Sequences, SequencesExt

CONSTANTS
    Frame,
    MaxStack,     \* bound: frames of a stack
    MaxFailures   \* bound: failures of one trace

VARIABLE failure

Stack == BoundedSeq(Frame, MaxStack)
plain(stack) == [stack |-> stack, suppressed |-> <<>>, cause |-> <<>>]

RECURSIVE size(_)
size(info) == 1 + FoldLeft(LAMBDA n, i : n + size(i), 0, info.suppressed \o info.cause)

-----------------------------------------------------------------------------
(* Mutant: the stacks are compared from their first frames on. *)
countSharedStackFramesTop(stack, parentStack) ==
    LET same(k) == k <= Len(stack) /\ k <= Len(parentStack) /\ stack[k] = parentStack[k]
    IN  CHOOSE k \in 0..Len(stack) : (\A i \in 1..k : same(i)) /\ ~same(k + 1)

countSharedStackFrames(stack, parentStack) ==
    LET same(k) == k < Len(stack) /\ k < Len(parentStack) /\ stack[Len(stack) - k] = parentStack[Len(parentStack) - k]
    IN  CHOOSE n \in 0..Len(stack) : (\A i \in 0..(n - 1) : same(i)) /\ ~same(n)

RECURSIVE formatStackTraceHelper(_, _, _, _)
formatStackTraceHelper(info, parentStack, prefix, linePrefix) ==
    LET sharedStackFrames == countSharedStackFrames(info.stack, parentStack)
        own == [prefix |-> prefix, linePrefix |-> linePrefix, more |-> sharedStackFrames,
                frames |-> SubSeq(info.stack, 1, Len(info.stack) - sharedStackFrames)]
        suppressed(s, i) == s \o formatStackTraceHelper(i, info.stack, "Suppressed: ", linePrefix + 1)
        cause(s, i) == s \o formatStackTraceHelper(i, info.stack, "Caused by: ", linePrefix)
    IN  FoldLeft(cause, FoldLeft(suppressed, <<own>>, info.suppressed), info.cause)

formatStackTrace == formatStackTraceHelper(failure, <<>>, "", 0)

-----------------------------------------------------------------------------
Init == \E stack \in Stack : failure = plain(stack)

(* A failure becomes the cause of another one, or another one is           *)
(* suppressed by it, with or without a cause of its own.                   *)
Wrap(stack) ==
    /\ size(failure) < MaxFailures
    /\ failure' = [plain(stack) EXCEPT !.cause = <<failure>>]

Suppress(stack) ==
    /\ size(failure) < MaxFailures
    /\ failure' = [failure EXCEPT !.suppressed = Append(@, plain(stack))]

SuppressedInto(stack) ==
    /\ size(failure) < MaxFailures
    /\ failure' = [plain(stack) EXCEPT !.suppressed = <<failure>>]

Next == \E stack \in Stack : Wrap(stack) \/ Suppress(stack) \/ SuppressedInto(stack)

Spec == Init /\ [][Next]_failure

-----------------------------------------------------------------------------
trace == formatStackTrace

(* The part that encloses part k, as a reader finds it: that of a cause is *)
(* the last one before it that is indented as deep, that of a suppressed   *)
(* failure the last one that is indented one less.                         *)
enclosing(t, k) ==
    LET indent == IF t[k].prefix = "Suppressed: " THEN t[k].linePrefix - 1 ELSE t[k].linePrefix
        before == {j \in 1..(k - 1) : t[j].linePrefix = indent}
    IN  CHOOSE j \in before : \A i \in before : i <= j

last(s, n) == SubSeq(s, Len(s) - n + 1, Len(s))

(* The stacks that a reader gets who replaces every "... n more" by the    *)
(* last n frames of the enclosing stack.                                   *)
RECURSIVE restored(_, _)
restored(t, k) ==
    IF t[k].more = 0 THEN t[k].frames ELSE t[k].frames \o last(restored(t, enclosing(t, k)), t[k].more)

RECURSIVE stacks(_)
stacks(info) == FoldLeft(LAMBDA s, i : s \o stacks(i), <<info.stack>>, info.suppressed \o info.cause)

(* The trace loses no frame: what a reader restores are the stacks of the  *)
(* failure, its suppressed ones and its causes.                            *)
TraceRestores ==
    LET t == trace IN [k \in DOMAIN t |-> restored(t, k)] = stacks(failure)

(* The trace repeats no frame: the last frame printed of a stack is not    *)
(* one that it shares with the end of the enclosing stack.                 *)
NothingRepeated ==
    LET t == trace
    IN  \A k \in 2..Len(t) :
            LET parent == restored(t, enclosing(t, k))
            IN  (t[k].frames # <<>> /\ t[k].more < Len(parent)) =>
                    t[k].frames[Len(t[k].frames)] # parent[Len(parent) - t[k].more]
=============================================================================
