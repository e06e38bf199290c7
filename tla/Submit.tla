------------------------------- MODULE Submit -------------------------------
(***************************************************************************)
(* Executor::submit (src/ArrowThreadPool/executor.h) on top of the pool:   *)
(* the callable is packed with a std::promise into one task (an FnOnce),   *)
(* the task goes to spawn_real, and the caller keeps the future.  Every    *)
(* task of ArrowThreadPool is taken to be submitted here.  What a future   *)
(* says follows from where its task is, since the promise is settled by    *)
(* the task or else dies with it: it needs no variable of its own.         *)
(***************************************************************************)
EXTENDS ArrowThreadPool

CONSTANTS
  Void,     \* the tasks whose function returns void
  Throwing  \* the tasks whose function throws

ASSUME SubmitAssumption == Void \subseteq Tasks /\ Throwing \subseteq Tasks

\* What the task does with its promise when it runs: an exception is stored, and
\* so is a result; a function that returns void stores nothing, so the promise
\* is broken when FnOnce::operator() destroys the callable.
Settled(t) ==
  IF t \in Throwing THEN "exception" ELSE IF t \in Void THEN "broken" ELSE "value"

\* A cancelled callable is never invoked: its promise is broken when worker_loop
\* destroys the task, inside the mutex, and a dropped one when the queue is
\* cleared.  When spawn_real refuses or throws, submit throws: no future.
Future(t) ==
  CASE status[t] \in {"new", "rejected", "lost"} -> "none"
    [] status[t] \in {"queued", "taken"}         -> "pending"
    [] status[t] = "done"                        -> Settled(t)
    [] status[t] = "cancelled"                   ->
         IF \E w \in Workers : task[w] = t THEN "pending" ELSE "broken"
    [] status[t] = "dropped"                     -> "broken"

-----------------------------------------------------------------------------
(* What callers of submit rely on *)

\* When wait_for_idle or shut_down may return, every future handed out is ready:
\* the counter goes down only after the promise of a task was settled or broken,
\* also for a cancelled task, and a quick shutdown breaks what it drops.
QuietMeansReady ==
  tasks_queued_or_running = 0 \/ (please_shutdown /\ ~ShuttingDown) =>
    \A t \in Tasks : Future(t) # "pending"

\* Every future becomes ready, whatever the pool does in between (resizes,
\* cancellation, either shutdown), unless the pool could not get a thread.
FuturesSettle ==
  \A t \in Tasks : Future(t) = "pending" ~> Future(t) # "pending" \/ Crippled

\* A submitted task that ran to its end delivers its result to the future, as
\* main.cpp takes for granted of a void task ("can also submit").
SubmitDelivers ==
  \A t \in Tasks \ Throwing : status[t] = "done" => Future(t) = "value"
=============================================================================
