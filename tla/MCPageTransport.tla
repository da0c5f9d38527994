--------------------------- MODULE MCPageTransport ---------------------------
(* Small instances of PageTransport.                                       *)
EXTENDS PageTransport, TLC

CONSTANTS r1, r2

MCRead == {r1, r2}
MCPage == {11, 12, 13, 21}
MCRetainedSize == [p \in MCPage |-> IF p = 11 THEN 2 ELSE 1]

(* Three pages: the first one fills a response, the other two fit in one.  *)
ThreePages == [k \in Instance |-> <<11, 12, 13>>]
(* One page from the task, another one from the task created again.        *)
OnePageEach == [k \in Instance |-> IF k = 1 THEN <<11>> ELSE <<21>>]

Symmetry == Permutations(MCRead)
=============================================================================
