---------------------------- MODULE MCSimpleTimer ----------------------------
(* Instances of SimpleTimer for TLC.  Symmetry is not sound for liveness, but  *)
(* the tasks are alike, and no fairness asks for one to be added: it is enough *)
(* to look at the behaviours in which a given task is the first.               *)
EXTENDS SimpleTimer

CONSTANT First

InOrder == (\E t \in Tasks : status[t] # "new") => status[First] # "new"

MCFairSpec == Init /\ [][Next /\ InOrder']_vars /\ Fairness
=============================================================================
