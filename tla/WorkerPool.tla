----------------------------- MODULE WorkerPool -----------------------------
(***************************************************************************)
(* my_thread_pool::ThreadPool (src/ThreadPool/ThreadPool.h, without        *)
(* THREADPOOL_AUTO_GROW): the owner constructs the pool, may add threads   *)
(* and destroys it; clients and the pool's own tasks commit tasks.         *)
(*                                                                         *)
(* m_lock protects the queue and the count of idle threads, but m_run is   *)
(* an atomic that the destructor clears without m_lock: a worker that has  *)
(* found nothing to do and is about to wait still holds m_lock (it is the  *)
(* `owner') and may miss both the store and the notification.              *)
(***************************************************************************)
EXTENDS Integers, Sequences, FiniteSets

CONSTANTS
  Clients,     \* threads that call commit or commit_without_para_ret
  Workers,     \* ids of the threads in m_pool
  Tasks,       \* each committed at most once
  Sizes,       \* arguments of the constructor and of add_thread
  MaxThreads,  \* THREADPOOL_MAX_NUM
  Budget,      \* bound on add_thread calls plus spurious wakeups
  None

ASSUME WorkerPoolAssumption ==
  /\ IsFiniteSet(Clients) /\ IsFiniteSet(Workers) /\ IsFiniteSet(Tasks)
  /\ Clients \cap Workers = {}
  /\ None \notin Clients \cup Workers \cup Tasks
  /\ Sizes \subseteq Nat
  /\ MaxThreads \in Nat /\ MaxThreads <= Cardinality(Workers)
  /\ Budget \in Nat

Threads == Clients \cup Workers

VARIABLES
  pool,         \* m_pool
  task_que,     \* m_task_que
  run,          \* m_run
  idl,          \* m_idl_thread_num
  owner,        \* the worker that holds m_lock before it waits
  wpc,          \* where each worker is
  task,         \* its local `task'
  call,         \* where each thread is in commit
  arg,          \* the task it commits
  status,       \* history: what became of each task
  life,         \* what the pool's owner is doing
  left,         \* how many threads add_thread has still to add
  constructed,  \* the constructor has returned
  budget        \* what is left of Budget

queue == <<task_que, status>>
calls == <<call, arg>>
owners == <<life, left, constructed>>
vars == <<pool, queue, run, idl, owner, wpc, task, calls, owners, budget>>

Init ==
  /\ pool = {} /\ task_que = << >> /\ run = TRUE /\ idl = 0
  /\ owner = None
  /\ wpc = [w \in Workers |-> "unborn"]
  /\ task = [w \in Workers |-> None]
  /\ call = [p \in Threads |-> "none"]
  /\ arg = [p \in Threads |-> None]
  /\ status = [t \in Tasks |-> "new"]
  /\ life = "adding" /\ left \in Sizes /\ constructed = FALSE
  /\ budget = Budget

LockFree == owner = None

-----------------------------------------------------------------------------
(* add_thread, by the constructor or by a later call *)

AddThread(size) ==
  /\ life = "open"
  /\ budget > 0 /\ budget' = budget - 1
  /\ life' = "adding" /\ left' = size
  /\ UNCHANGED <<pool, queue, run, idl, owner, wpc, task, calls, constructed>>

HasRoomMutant == Cardinality(pool) <= MaxThreads
HasRoom == Cardinality(pool) < MaxThreads

Launch ==
  /\ life = "adding" /\ left > 0 /\ HasRoom
  /\ \E w \in Workers \ pool :
       /\ pool' = pool \cup {w}
       /\ wpc' = [wpc EXCEPT ![w] = "ready"]
  /\ life' = "counting" /\ left' = left - 1
  /\ UNCHANGED <<queue, run, idl, owner, task, calls, constructed, budget>>

\* The new thread may have started, and even taken a task, before it counts.
CountThread ==
  /\ life = "counting" /\ LockFree
  /\ idl' = idl + 1
  /\ life' = "adding"
  /\ UNCHANGED <<pool, queue, run, owner, wpc, task, calls, left, constructed, budget>>

AddThreadReturns ==
  /\ life = "adding"
  /\ left = 0 \/ ~HasRoom
  /\ life' = "open" /\ left' = 0 /\ constructed' = TRUE
  /\ UNCHANGED <<pool, queue, run, idl, owner, wpc, task, calls, budget>>

-----------------------------------------------------------------------------
(* commit and commit_without_para_ret *)

\* Clients do not use a pool that is being destroyed; its tasks still may.
MayCommit(p) ==
  /\ call[p] = "none"
  /\ \/ p \in Clients /\ constructed /\ life \in {"open", "adding", "counting"}
     \/ p \in Workers /\ wpc[p] = "running"

\* commit throws and commit_without_para_ret returns without the task.
CommitRefused(p, t) ==
  /\ MayCommit(p) /\ status[t] = "new"
  /\ ~run
  /\ status' = [status EXCEPT ![t] = "refused"]
  /\ UNCHANGED <<pool, task_que, run, idl, owner, wpc, task, calls, owners, budget>>

CommitChecked(p, t) ==
  /\ MayCommit(p) /\ status[t] = "new"
  /\ run
  /\ call' = [call EXCEPT ![p] = "pushing"]
  /\ arg' = [arg EXCEPT ![p] = t]
  /\ status' = [status EXCEPT ![t] = "checked"]
  /\ UNCHANGED <<pool, task_que, run, idl, owner, wpc, task, owners, budget>>

CommitPush(p) ==
  /\ call[p] = "pushing" /\ LockFree
  /\ task_que' = Append(task_que, arg[p])
  /\ status' = [status EXCEPT ![arg[p]] = "queued"]
  /\ call' = [call EXCEPT ![p] = "notifying"]
  /\ arg' = [arg EXCEPT ![p] = None]
  /\ UNCHANGED <<pool, run, idl, owner, wpc, task, owners, budget>>

NotifyOneMutant ==
  IF Len(task_que) = 1 /\ \E w \in Workers : wpc[w] = "waiting"
  THEN \E w \in Workers : wpc[w] = "waiting" /\ wpc' = [wpc EXCEPT ![w] = "ready"]
  ELSE UNCHANGED wpc
NotifyOne ==
  IF \E w \in Workers : wpc[w] = "waiting"
  THEN \E w \in Workers : wpc[w] = "waiting" /\ wpc' = [wpc EXCEPT ![w] = "ready"]
  ELSE UNCHANGED wpc

CommitNotify(p) ==
  /\ call[p] = "notifying"
  /\ NotifyOne
  /\ call' = [call EXCEPT ![p] = "none"]
  /\ UNCHANGED <<pool, queue, run, idl, owner, task, arg, owners, budget>>

-----------------------------------------------------------------------------
(* The worker's loop.  A "ready" worker takes m_lock and evaluates the       *)
(* predicate of m_task_cv.wait: at the start, when notified, between tasks.  *)

\* It finds a task, whether or not the pool is being destroyed.
Take(w) ==
  /\ wpc[w] = "ready" /\ LockFree
  /\ task_que # << >>
  /\ idl' = idl - 1
  /\ task' = [task EXCEPT ![w] = Head(task_que)]
  /\ task_que' = Tail(task_que)
  /\ status' = [status EXCEPT ![Head(task_que)] = "running"]
  /\ wpc' = [wpc EXCEPT ![w] = "running"]
  /\ UNCHANGED <<pool, run, owner, calls, owners, budget>>

MayExitMutant == ~run
MayExit == ~run /\ task_que = << >>

Exit(w) ==
  /\ wpc[w] = "ready" /\ LockFree
  /\ MayExit
  /\ wpc' = [wpc EXCEPT ![w] = "exited"]
  /\ UNCHANGED <<pool, queue, run, idl, owner, task, calls, owners, budget>>

\* The predicate is false: the worker keeps m_lock until it blocks.
DecideToWait(w) ==
  /\ wpc[w] = "ready" /\ LockFree
  /\ run /\ task_que = << >>
  /\ owner' = w
  /\ wpc' = [wpc EXCEPT ![w] = "blocking"]
  /\ UNCHANGED <<pool, queue, run, idl, task, calls, owners, budget>>

Block(w) ==
  /\ wpc[w] = "blocking"
  /\ owner' = None
  /\ wpc' = [wpc EXCEPT ![w] = "waiting"]
  /\ UNCHANGED <<pool, queue, run, idl, task, calls, owners, budget>>

\* The packaged task has stored its result: its future is ready.
Finish(w) ==
  /\ wpc[w] = "running" /\ call[w] = "none"
  /\ status' = [status EXCEPT ![task[w]] = "done"]
  /\ wpc' = [wpc EXCEPT ![w] = "counting"]
  /\ UNCHANGED <<pool, task_que, run, idl, owner, task, calls, owners, budget>>

IdleAgainMutant == idl' = IF run THEN idl + 1 ELSE idl
IdleAgain == idl' = idl + 1

CountIdle(w) ==
  /\ wpc[w] = "counting" /\ LockFree
  /\ IdleAgain
  /\ task' = [task EXCEPT ![w] = None]
  /\ wpc' = [wpc EXCEPT ![w] = "ready"]
  /\ UNCHANGED <<pool, queue, run, owner, calls, owners, budget>>

-----------------------------------------------------------------------------
(* The destructor *)

StopRunning ==
  /\ life = "open"
  /\ \A p \in Clients : call[p] = "none"
  /\ run' = FALSE
  /\ life' = "stopping"
  /\ UNCHANGED <<pool, queue, idl, owner, wpc, task, calls, left, constructed, budget>>

NotifyAllMutant == NotifyOne
NotifyAll == wpc' = [w \in Workers |-> IF wpc[w] = "waiting" THEN "ready" ELSE wpc[w]]

StopNotify ==
  /\ life = "stopping"
  /\ NotifyAll
  /\ life' = "joining"
  /\ UNCHANGED <<pool, queue, run, idl, owner, task, calls, left, constructed, budget>>

JoinAll ==
  /\ life = "joining"
  /\ \A w \in pool : wpc[w] = "exited"
  /\ life' = "destroyed"
  /\ UNCHANGED <<pool, queue, run, idl, owner, wpc, task, calls, left, constructed, budget>>

-----------------------------------------------------------------------------
\* std::condition_variable::wait may return without a notification.
SpuriousWake ==
  /\ budget > 0 /\ budget' = budget - 1
  /\ \E w \in Workers : wpc[w] = "waiting" /\ wpc' = [wpc EXCEPT ![w] = "ready"]
  /\ UNCHANGED <<pool, queue, run, idl, owner, task, calls, owners>>

WorkerStep(w) ==
  Take(w) \/ Exit(w) \/ DecideToWait(w) \/ Block(w) \/ Finish(w) \/ CountIdle(w)

CommitStep(p) == CommitPush(p) \/ CommitNotify(p)

\* The steps of add_thread and of the destructor once they have begun.
OwnerStep == Launch \/ CountThread \/ AddThreadReturns \/ StopNotify \/ JoinAll

Next ==
  \/ \E w \in Workers : WorkerStep(w)
  \/ \E p \in Threads : CommitStep(p)
  \/ \E p \in Threads, t \in Tasks : CommitRefused(p, t) \/ CommitChecked(p, t)
  \/ OwnerStep
  \/ \E size \in Sizes : AddThread(size)
  \/ StopRunning
  \/ SpuriousWake

\* The scheduler runs every thread that can take a step and tasks terminate;
\* nobody has to commit a task or to destroy the pool.
Fairness ==
  /\ \A w \in Workers : WF_vars(WorkerStep(w))
  /\ \A p \in Threads : WF_vars(CommitStep(p))
  /\ WF_vars(OwnerStep)

Spec == Init /\ [][Next]_vars
FairSpec == Spec /\ Fairness

-----------------------------------------------------------------------------
(* What the pool is relied on for *)

WorkersAt(pcs) == {w \in Workers : wpc[w] \in pcs}
CallersAt(pcs) == {p \in Threads : call[p] \in pcs}

\* Every variable holds a value of its kind, and no sequence of add_thread calls
\* grows the pool beyond THREADPOOL_MAX_NUM.
TypeOK ==
  /\ pool \subseteq Workers /\ Cardinality(pool) <= MaxThreads
  /\ task_que \in Seq(Tasks)
  /\ run \in BOOLEAN /\ constructed \in BOOLEAN
  /\ idl \in Int
  /\ owner \in Workers \cup {None}
  /\ wpc \in [Workers -> {"unborn", "ready", "blocking", "waiting", "running",
                          "counting", "exited"}]
  /\ task \in [Workers -> Tasks \cup {None}]
  /\ call \in [Threads -> {"none", "pushing", "notifying"}]
  /\ arg \in [Threads -> Tasks \cup {None}]
  /\ status \in [Tasks -> {"new", "refused", "checked", "queued", "running", "done"}]
  /\ life \in {"adding", "counting", "open", "stopping", "joining", "destroyed"}
  /\ left \in Nat
  /\ budget \in 0..Budget

\* get_idl_count is the number of threads that are not between taking a task and
\* reporting back, but for one that add_thread has launched and not yet counted.
IdleExact ==
  idl = Cardinality(pool) - Cardinality(WorkersAt({"running", "counting"}))
          - (IF life = "counting" THEN 1 ELSE 0)

\* No wakeup is lost, although commit notifies after releasing m_lock: while a
\* worker sleeps, each queued task has a notification still to come or a worker
\* about to look at the queue.
WakeupsCoverQueue ==
  WorkersAt({"waiting"}) # {} =>
    Len(task_que) <= Cardinality(CallersAt({"notifying"}))
                       + Cardinality(WorkersAt({"ready"}))

\* A pool with a thread is destroyed only when each task whose commit found it
\* running has run, those that its own tasks commit during the destructor too.
DestroyedDrained ==
  life = "destroyed" /\ pool # {} =>
    \A t \in Tasks : status[t] \in {"new", "refused", "done"}

\* A committed task runs if the pool ever gets a thread.
CommittedRuns ==
  \A t \in Tasks :
    status[t] = "queued" /\ pool # {} ~> status[t] = "done"

\* The destructor returns if at some moment between its store to m_run and its
\* notification no worker is between its look at m_run and its wait.
DestructorReturnsUnlessMissed ==
  life = "stopping" /\ WorkersAt({"blocking"}) = {} ~> life = "destroyed"

\* All threads are woken by the destructor, find m_run false and end
\* (ThreadPool.h:166), so that it can join them.
DestructorReturns == life = "stopping" ~> life = "destroyed"
=============================================================================
