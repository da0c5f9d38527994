------------------------------- MODULE History -------------------------------
(***************************************************************************)
(* utils.js: the histories behind the sparklines.  A sample is any value.  *)
(***************************************************************************)
EXTENDS Integers, Sequences

CONSTANT MAX_HISTORY    \* utils.js: 300

ASSUME MaxHistoryAssumption == MAX_HISTORY \in Nat \ {0}

(* The last samples of h, as slice(max(h.length - MAX_HISTORY, 0)) keeps   *)
(* them once v is added.                                                   *)
slice(h, v) ==
    LET drop == IF Len(h) > MAX_HISTORY THEN Len(h) - MAX_HISTORY ELSE 0
    IN  SubSeq(Append(h, v), drop + 1, Len(h) + 1)

addToHistory(v, h) == slice(h, v)

(* Numbers as the moving averages tell them apart.  "fraction" is between 0*)
(* and 1, "positive" is 1 or more.                                         *)
Number == {"NaN", "-Infinity", "negative", "zero", "fraction", "positive", "Infinity"}

belowOne(v) == v \in {"-Infinity", "negative", "zero", "fraction"}

(* What 0.2 * v + 0.8 * last may be, for a v that is not below one. *)
movingAverage(v, last) ==
    CASE v = "NaN" \/ last = "NaN" \/ (v = "Infinity" /\ last = "-Infinity") -> {"NaN"}
      [] v = "Infinity" /\ last \notin {"NaN", "-Infinity"} -> {"Infinity"}
      [] v = "positive" /\ last \in {"-Infinity", "Infinity", "positive"} -> {last}
      [] v = "positive" /\ last \in {"zero", "fraction"} -> {"fraction", "positive"}
      [] v = "positive" /\ last = "negative" -> {"negative", "zero", "fraction", "positive"}

(* Mutant: the average never returns to zero. *)
addExponentiallyWeightedToHistoryNoReset(v, h) ==
    IF h = <<>> THEN {<<v>>}
    ELSE {slice(h, a) : a \in IF belowOne(v) THEN {h[Len(h)]} ELSE movingAverage(v, h[Len(h)])}

(* The histories that may result. *)
addExponentiallyWeightedToHistory(v, h) ==
    IF h = <<>> THEN {<<v>>}
    ELSE {slice(h, a) : a \in IF belowOne(v) THEN {"zero"} ELSE movingAverage(v, h[Len(h)])}
==============================================================================
