---------------------------- MODULE MCMemoryPool ----------------------------
(* Instances of MemoryPool for TLC. *)
EXTENDS MemoryPool, TLC

Symmetry == Permutations(Threads) \cup Permutations(Blocks)
=============================================================================
