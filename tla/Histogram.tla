------------------------------ MODULE Histogram ------------------------------
(***************************************************************************)
(* QueryDetail.jsx, StageSummary.renderHistogram: the histograms of the    *)
(* scheduled and of the CPU times of the tasks of a stage.  The code       *)
(* divides floating point numbers by a square root.  Here a bucket is      *)
(* computed exactly, in integers: with numBuckets = sqrt(n),               *)
(* floor((x - min) / ((max - min) / numBuckets)) is the integer square     *)
(* root of (x - min)^2 * n / (max - min)^2.                                *)
(***************************************************************************)
EXTENDS Integers, Sequences, FiniteSets, FiniteSetsExt, SequencesExt

CONSTANTS
    HISTOGRAM_WIDTH,  \* 175 in the code
    MaxTime,          \* bound: times of a task
    MaxTasks          \* bound: tasks of the stage

VARIABLE inputData    \* one time per task

sqrt(n) == CHOOSE k \in 0..n : k * k <= n /\ n < (k + 1) * (k + 1)
n == Len(inputData)
dataMin == Min(ToSet(inputData))
dataMax == Max(ToSet(inputData))
limited == n > HISTOGRAM_WIDTH * HISTOGRAM_WIDTH
flat == n > 0 /\ dataMin = dataMax

(* Mutant: Math.round in place of Math.floor. *)
bucketRounded(x) ==
    LET range == dataMax - dataMin
    IN  IF limited THEN (2 * (x - dataMin) * HISTOGRAM_WIDTH + range) \div (2 * range)
        ELSE (sqrt((4 * (x - dataMin) * (x - dataMin) * n) \div (range * range)) + 1) \div 2

(* bucketSize * numBuckets = dataMax - dataMin *)
bucket(x) ==
    IF limited THEN ((x - dataMin) * HISTOGRAM_WIDTH) \div (dataMax - dataMin)
    ELSE sqrt(((x - dataMin) * (x - dataMin) * n) \div ((dataMax - dataMin) * (dataMax - dataMin)))

(* The zeroes pushed: as many as there are i with i < numBuckets + 1. *)
buckets == IF limited THEN HISTOGRAM_WIDTH + 1 ELSE IF sqrt(n) * sqrt(n) = n THEN sqrt(n) + 1 ELSE sqrt(n) + 2

(* histogramData: a task whose bucket is outside of it is not drawn. *)
histogramData ==
    IF flat THEN [i \in {0} |-> n]
    ELSE [i \in 0..(buckets - 1) |-> Cardinality({t \in 1..n : bucket(inputData[t]) = i})]

Init == inputData = <<>>

(* A further task reports its time; the next refresh draws the histogram. *)
Report(x) ==
    /\ n < MaxTasks
    /\ inputData' = Append(inputData, x)

Next == \E x \in 0..MaxTime : Report(x)

Spec == Init /\ [][Next]_inputData

-----------------------------------------------------------------------------
(* The bars of the histogram add up to the tasks of the stage: the slowest *)
(* task too, whose quotient is exactly numBuckets, falls into a bar.       *)
EveryTaskDrawn == MapThenSumSet(LAMBDA i : histogramData[i], DOMAIN histogramData) = n

(* The tooltip of bar i gives the times from dataMin + i * bucketSize to   *)
(* dataMin + (i + 1) * bucketSize; the squares compare them exactly.       *)
(* Every task is in the bar whose tooltip its time is within.              *)
TooltipHoldsTask ==
    ~flat => \A t \in 1..n :
        LET x == inputData[t] - dataMin
            range == dataMax - dataMin
            b == bucket(inputData[t])
        IN  IF limited THEN b * range <= x * HISTOGRAM_WIDTH /\ x * HISTOGRAM_WIDTH < (b + 1) * range
            ELSE b * b * range * range <= x * x * n /\ x * x * n < (b + 1) * (b + 1) * range * range
=============================================================================
