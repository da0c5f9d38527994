-------------------------------- MODULE Units --------------------------------
(***************************************************************************)
(* utils.js: the numbers of the pages.  The coordinator sends durations    *)
(* and data sizes as a number with two decimals and a unit; the pages read *)
(* them, compute with them, and write numbers with three or four digits.   *)
(*                                                                         *)
(* A number is a fraction num / den.  A text is its number, in hundredths, *)
(* and its unit, counted from ms, B and one.  The state is what the        *)
(* coordinator sends: a number that grows, in a unit.                      *)
(***************************************************************************)
EXTENDS Integers, Sequences, SequencesExt

CONSTANTS
    Sample,         \* numbers that occur in every unit, in hundredths
    LargeSample     \* larger ones, in units that keep them in TLC's range

VARIABLES
    kind,       \* "duration", "size" or "count"
    value,      \* the number, in hundredths
    unit,       \* its unit
    shown       \* the text on the page
vars == <<kind, value, unit, shown>>

(* toFixed: hundredths of num / den, rounded half up to this many decimals. *)
toFixed(num, den, places) ==
    LET digit(acc, i) == [quotient |-> acc.quotient * 10 + (acc.rest * 10) \div den,
                          rest |-> (acc.rest * 10) % den]
        n == FoldLeft(digit, [quotient |-> num \div den, rest |-> num % den], [i \in 1..places |-> i])
    IN  (n.quotient + (IF 2 * n.rest >= den THEN 1 ELSE 0)) * 10 ^ (2 - places)

decimals(num, den) == IF num \div den < 10 THEN 2 ELSE IF num \div den < 100 THEN 1 ELSE 0
precisionRound(num, den) == toFixed(num, den, decimals(num, den))

(* Mutant: the next unit comes late. *)
exceedsLate(num, den, f, strict) == (IF strict THEN num - 1 ELSE num) \div den >= 10 * f

(* num / den > f, or num / den >= f *)
exceeds(num, den, f, strict) == (IF strict THEN num - 1 ELSE num) \div den >= f

(* The ifs of formatDuration, formatCount and formatDataSizeMinUnit: divide*)
(* by the next factor if the number exceeds it, in the unit before.        *)
format(num, den, factors, strict) ==
    LET scale(acc, i) == IF acc.unit = i - 1 /\ exceeds(num, acc.den, factors[i], strict)
                         THEN [den |-> acc.den * factors[i], unit |-> i] ELSE acc
        s == FoldLeft(scale, [den |-> den, unit |-> 0], [i \in 1..Len(factors) |-> i])
    IN  [n |-> precisionRound(num, s.den), unit |-> s.unit]

durationFactors == <<1000, 60, 60, 24, 7>>      \* s m h d w
countFactors == [i \in 1..5 |-> 1000]           \* K M B T Q
sizeFactors == [i \in 1..5 |-> 1024]            \* KB MB GB TB PB

formatDuration(num, den) == format(num, den, durationFactors, TRUE)

(* Mutant: K and M are mixed up. *)
formatCountSwapped(num, den) ==
    LET t == format(num, den, countFactors, TRUE)
    IN  [t EXCEPT !.unit = IF @ \in {1, 2} THEN 3 - @ ELSE @]

formatCount(num, den) == format(num, den, countFactors, TRUE)

formatDataSize(num, den) == format(num, den, sizeFactors, FALSE)

(* In milliseconds; the units -2..4 are ns, us, ms, s, m, h, d. *)
parseDuration(v, u) ==
    CASE u < 0 -> [num |-> v, den |-> 100 * 1000 ^ (-u)]
      [] u = 0 -> [num |-> v, den |-> 100]
      [] u > 0 -> [num |-> v * 10 * (CASE u = 1 -> 1 [] u = 2 -> 60 [] u = 3 -> 60 * 60 [] u = 4 -> 60 * 60 * 24),
                   den |-> 1]

(* In bytes; the units are B, kB, MB, GB, TB, PB. *)
parseDataSize(v, u) == [num |-> v * 1024 ^ u, den |-> 100]

(* The numbers the coordinator sends.  Bound: weeks, and GB and above, are *)
(* too large for TLC's integers.                                           *)
Sent ==
    [kind: {"duration"}, value: Sample, unit: -2..3] \cup [kind: {"duration"}, value: Sample \cap 0..700, unit: {4}]
      \cup [kind: {"duration"}, value: LargeSample, unit: -2..1]
      \cup [kind: {"size"}, value: Sample, unit: 0..2] \cup [kind: {"size"}, value: LargeSample, unit: 0..1]
      \cup [kind: {"count"}, value: Sample \cup LargeSample, unit: {0}]

display(k, v, u) ==
    CASE k = "duration" -> LET ms == parseDuration(v, u) IN formatDuration(ms.num, ms.den)
      [] k = "size" -> LET bytes == parseDataSize(v, u) IN formatDataSize(bytes.num, bytes.den)
      [] k = "count" -> formatCount(v, 1)

Init == \E s \in Sent :
    /\ kind = s.kind
    /\ value = s.value
    /\ unit = s.unit
    /\ shown = display(s.kind, s.value, s.unit)

(* A later answer: the next larger number. *)
Grow ==
    LET larger == {s.value : s \in {t \in Sent : t.kind = kind /\ t.unit = unit /\ t.value > value}}
    IN  /\ \E v \in larger :
            /\ \A w \in larger : v <= w
            /\ value' = v
            /\ shown' = display(kind, v, unit)
        /\ UNCHANGED <<kind, unit>>

Spec == Init /\ [][Grow]_vars

-----------------------------------------------------------------------------
factors == CASE kind = "duration" -> durationFactors [] kind = "size" -> sizeFactors [] kind = "count" -> countFactors

(* A unit is used when there is at least one of it, and for no more than   *)
(* the next one has: rounding never writes 1001K or 61.0s.                 *)
UnitsFit ==
    /\ shown.unit > 0 => shown.n >= 100
    /\ shown.unit < 5 => shown.n <= factors[shown.unit + 1] * 100

(* A number that grows is never shown as a smaller one, though each text   *)
(* chooses its unit and its decimals on its own.                           *)
NeverShownSmaller ==
    [][shown.unit < shown'.unit \/ (shown.unit = shown'.unit /\ shown.n <= shown'.n)]_vars

(* The pages show what the coordinator has sent: a number that fits its    *)
(* unit comes back in that unit, rounded to the decimals of the page.      *)
RepeatsServer ==
    LET error == IF value < 1000 THEN 0 ELSE IF value < 10000 THEN 5 ELSE 50
    IN  kind # "count" /\ unit >= 0 /\ value > 100 /\ value < factors[unit + 1] * 100 =>
            shown.unit = unit /\ shown.n - value \in -error..error
==============================================================================
