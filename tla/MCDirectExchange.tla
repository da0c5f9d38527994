--------------------------- MODULE MCDirectExchange ---------------------------
(* Small instances of DirectExchange.                                      *)
EXTENDS DirectExchange, TLC

Symmetry == Permutations(Client)
=============================================================================
