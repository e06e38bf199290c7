------------------------------ MODULE Executor ------------------------------
(***************************************************************************)
(* What an arrow::Executor promises its callers, without threads, locks or *)
(* condition variables: tasks are accepted until the executor is shut      *)
(* down, start in the order in which they were accepted, run at most once  *)
(* (or are cancelled through their stop token), and a shutdown closes the  *)
(* executor only when nothing is running.  A waiting shutdown closes it    *)
(* with an empty queue; a quick one drops what is still queued.  An        *)
(* executor may be crippled when it fails to get a thread: then nothing    *)
(* more is promised to start, and a shutdown never completes.              *)
(***************************************************************************)
EXTENDS Naturals, Sequences

CONSTANT Tasks

VARIABLES
  queue,    \* accepted tasks that have not started, oldest first
  active,   \* tasks that have started and not ended
  outcome,  \* what became of each task
  phase,    \* "open", "draining", "halting" or "closed"
  crippled  \* a thread could not be had

vars == <<queue, active, outcome, phase, crippled>>

Outcomes == {"new", "accepted", "refused", "ran", "cancelled", "dropped", "lost"}

Init ==
  /\ queue = << >>
  /\ active = {}
  /\ outcome = [t \in Tasks |-> "new"]
  /\ phase = "open"
  /\ crippled = FALSE

Accept(t) ==
  /\ phase = "open"
  /\ outcome[t] = "new"
  /\ queue' = Append(queue, t)
  /\ outcome' = [outcome EXCEPT ![t] = "accepted"]
  /\ UNCHANGED <<active, phase, crippled>>

Refuse(t) ==
  /\ phase # "open"
  /\ outcome[t] = "new"
  /\ outcome' = [outcome EXCEPT ![t] = "refused"]
  /\ UNCHANGED <<queue, active, phase, crippled>>

\* No thread could be had for t, or for a larger capacity.
Lose(t) ==
  /\ phase = "open"
  /\ outcome[t] = "new"
  /\ outcome' = [outcome EXCEPT ![t] = "lost"]
  /\ crippled' = TRUE
  /\ UNCHANGED <<queue, active, phase>>

Cripple ==
  /\ phase = "open"
  /\ crippled' = TRUE
  /\ UNCHANGED <<queue, active, outcome, phase>>

\* A halting executor starts nothing more.
Start ==
  /\ phase \in {"open", "draining"}
  /\ queue # << >>
  /\ active' = active \cup {Head(queue)}
  /\ queue' = Tail(queue)
  /\ UNCHANGED <<outcome, phase, crippled>>

End(t) ==
  /\ t \in active
  /\ active' = active \ {t}
  /\ \E how \in {"ran", "cancelled"} : outcome' = [outcome EXCEPT ![t] = how]
  /\ UNCHANGED <<queue, phase, crippled>>

ShutDown ==
  /\ phase = "open"
  /\ phase' \in {"draining", "halting"}
  /\ UNCHANGED <<queue, active, outcome, crippled>>

CloseDrained ==
  /\ phase = "draining" /\ ~crippled
  /\ queue = << >>
  /\ active = {}
  /\ phase' = "closed"
  /\ UNCHANGED <<queue, active, outcome, crippled>>

CloseHalted ==
  /\ phase = "halting" /\ ~crippled
  /\ active = {}
  /\ phase' = "closed"
  /\ queue' = << >>
  /\ outcome' = [t \in Tasks |-> IF \E i \in DOMAIN queue : queue[i] = t
                                 THEN "dropped" ELSE outcome[t]]
  /\ UNCHANGED <<active, crippled>>

Next ==
  \/ \E t \in Tasks : Accept(t) \/ Refuse(t) \/ Lose(t) \/ End(t)
  \/ Cripple
  \/ Start
  \/ ShutDown
  \/ CloseDrained
  \/ CloseHalted

\* Unless a thread is missing, accepted tasks get started and a shutdown
\* completes; started tasks end.
Fairness ==
  /\ WF_vars(~crippled /\ Start)
  /\ \A t \in Tasks : WF_vars(End(t))
  /\ WF_vars(CloseDrained \/ CloseHalted)

Spec == Init /\ [][Next]_vars /\ Fairness
=============================================================================
