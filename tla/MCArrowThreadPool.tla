------------------------- MODULE MCArrowThreadPool -------------------------
(* Instances of ArrowThreadPool for TLC. *)
EXTENDS ArrowThreadPool, TLC

\* A negative capacity, which a cfg cannot write, none, one and all of the workers.
AnyCapacity == {-1, 0, 1, 3}

\* Client, worker and unstoppable task ids are interchangeable.
Symmetry == Permutations(Clients) \cup Permutations(Workers)
              \cup Permutations(Stoppable) \cup Permutations(Tasks \ Stoppable)
=============================================================================
