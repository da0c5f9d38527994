--------------------- MODULE MCOutputBufferMemoryManager ---------------------
(* Small instances of OutputBufferMemoryManager.                           *)
EXTENDS OutputBufferMemoryManager, TLC

Symmetry == Permutations(Driver) \cup Permutations(MemoryFuture)
=============================================================================
