---------------------------- MODULE MCStopSource ----------------------------
(* Instances of StopSource for TLC. *)
EXTENDS StopSource, TLC

Symmetry == Permutations(Threads) \cup Permutations(Errors \ {Cancelled})
=============================================================================
