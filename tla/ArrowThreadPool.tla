-------------------------- MODULE ArrowThreadPool --------------------------
(***************************************************************************)
(* arrow::ThreadPool (src/ArrowThreadPool/thread_pool.cpp): callers spawn  *)
(* tasks, resize the pool, wait for it to be idle and shut it down; worker *)
(* threads take tasks from one queue, secede when the pool has shrunk, and *)
(* are joined by a later call.                                             *)
(*                                                                         *)
(* m_mutex protects all of ThreadPool::State, so what a thread does up to  *)
(* the point where it releases the mutex or blocks is one action.  Only a  *)
(* thread that keeps the mutex across a blocking join, or at the head of   *)
(* the worker loop, is its `owner'.  Whoever waits on a condition variable *)
(* has a pc that says so.  An operator whose name ends in `Mutant' is a    *)
(* faulty variant of the definition after it, used to test the properties. *)
(***************************************************************************)
EXTENDS Integers, Sequences, FiniteSets

CONSTANTS
  Clients,     \* threads outside the pool that call its methods
  Workers,     \* ids of the pool's threads; an id is free again after its join
  Tasks,       \* tasks, each passed to spawn_real at most once
  Stoppable,   \* the tasks spawned with the token of a StopSource
  Capacities,  \* arguments of make and set_capacity
  WaitModes,   \* arguments of shut_down
  Budget,      \* bound on set_capacity calls, spurious wakeups and failing launches
  None

ASSUME PoolAssumption ==
  /\ IsFiniteSet(Clients) /\ IsFiniteSet(Workers) /\ IsFiniteSet(Tasks)
  /\ Clients \cap Workers = {}
  /\ None \notin Clients \cup Workers \cup Tasks
  /\ Stoppable \subseteq Tasks
  /\ Capacities \subseteq Int
  /\ \A n \in Capacities : n <= Cardinality(Workers)
  /\ WaitModes \subseteq BOOLEAN
  /\ Budget \in Nat

Threads == Clients \cup Workers

VARIABLES
  workers,                  \* m_workers
  finished_workers,         \* m_finished_workers
  pending_tasks,            \* m_pending_tasks
  tasks_queued_or_running,  \* m_tasks_queued_or_running
  desired_capacity,         \* m_desired_capacity
  please_shutdown,          \* m_please_shutdown
  quick_shutdown,           \* m_quick_shutdown
  owner,                    \* the thread inside m_mutex between two actions
  wpc,                      \* where each worker thread is
  task,                     \* the local `task' of worker_loop
  call,                     \* where each thread is in a method of the pool
  arg,                      \* the argument of the method inside m_mutex
  status,                   \* history: what became of each task ("left": to the parent
                            \* process, see CpuPool)
  stopped,                  \* tasks whose token reports a requested stop
  budget                    \* what is left of Budget

threads == <<workers, finished_workers>>
queue == <<pending_tasks, tasks_queued_or_running>>
config == <<desired_capacity, please_shutdown, quick_shutdown>>
vars == <<threads, queue, config, owner, wpc, task, call, arg, status, stopped,
          budget>>

Init ==
  /\ workers = {} /\ finished_workers = {}
  /\ pending_tasks = << >> /\ tasks_queued_or_running = 0
  /\ desired_capacity \in Capacities
  /\ please_shutdown = FALSE /\ quick_shutdown = FALSE
  /\ owner = None
  /\ wpc = [w \in Workers |-> "unborn"]
  /\ task = [w \in Workers |-> None]
  /\ call = [p \in Threads |-> "none"]
  /\ arg = None
  /\ status = [t \in Tasks |-> "new"]
  /\ stopped = {}
  /\ budget = Budget

-----------------------------------------------------------------------------
(* Helpers *)

MutexFree == owner = None

\* Clients call the pool, and so do the tasks and stop callbacks it runs.
CanCall(p) ==
  /\ call[p] = "none"
  /\ p \in Clients \cup {w \in Workers : wpc[w] \in {"running", "stopping"}}

\* The capacity is cast to size_t: a negative one is never exceeded.
ShouldSecede ==
  desired_capacity >= 0 /\ Cardinality(workers) > desired_capacity

\* thread.join() returns for each finished worker.
AllJoinable == \A w \in finished_workers : wpc[w] = "exited"

\* collect_finish_workers_unlocked, then launch_workers_unlocked(n).
Restaff(n) ==
  \E S \in SUBSET {w \in Workers : wpc[w] = "unborn" \/ w \in finished_workers} :
    /\ Cardinality(S) = n
    /\ workers' = workers \cup S
    /\ finished_workers' = {}
    /\ wpc' = [w \in Workers |-> IF w \in S THEN "start"
                                 ELSE IF w \in finished_workers THEN "unborn"
                                 ELSE wpc[w]]

\* The same, but one of the n std::thread constructors throws: the workers before
\* it are launched, and the list keeps its empty std::thread, a worker that
\* never runs and so never leaves.
RestaffFails(n) ==
  \E S \in SUBSET {w \in Workers : wpc[w] = "unborn" \/ w \in finished_workers} :
    \E g \in S :
      /\ Cardinality(S) <= n
      /\ workers' = workers \cup S
      /\ finished_workers' = {}
      /\ wpc' = [w \in Workers |-> IF w = g THEN "failed"
                                   ELSE IF w \in S THEN "start"
                                   ELSE IF w \in finished_workers THEN "unborn"
                                   ELSE wpc[w]]

\* m_cv.notify_all() and m_cv.notify_one()
NotifyAllMutant == wpc
NotifyAll == [w \in Workers |-> IF wpc[w] = "waiting" THEN "woken" ELSE wpc[w]]

NotifyOneMutant == IF Len(pending_tasks) = 1 THEN wpc' = NotifyAll ELSE UNCHANGED wpc
NotifyOne ==
  IF \E w \in Workers : wpc[w] = "waiting"
  THEN \E w \in Workers : wpc[w] = "waiting" /\ wpc' = [wpc EXCEPT ![w] = "woken"]
  ELSE UNCHANGED wpc

\* notify_all on m_cv_idle, notify_one on m_cv_shutdown: at most one thread
\* waits on the latter, so both wake whoever waits.
Notified(from, to) == [p \in Threads |-> IF call[p] = from THEN to ELSE call[p]]

-----------------------------------------------------------------------------
(* spawn_real *)

SpawnRejected(p, t) ==
  /\ MutexFree /\ CanCall(p)
  /\ status[t] = "new"
  /\ please_shutdown
  /\ status' = [status EXCEPT ![t] = "rejected"]
  /\ UNCHANGED <<threads, queue, config, owner, wpc, task, call, arg, stopped, budget>>

SpawnEnter(p, t) ==
  /\ MutexFree /\ CanCall(p)
  /\ status[t] = "new"
  /\ ~please_shutdown
  /\ owner' = p
  /\ call' = [call EXCEPT ![p] = "spawn_joining"]
  /\ arg' = t
  /\ UNCHANGED <<threads, queue, config, wpc, task, status, stopped, budget>>

\* A worker is launched unless there is one per task, the new one included, or
\* one per slot.
MustGrowMutant ==
  /\ Cardinality(workers) < tasks_queued_or_running
  /\ Cardinality(workers) < desired_capacity
MustGrow ==
  /\ Cardinality(workers) < tasks_queued_or_running + 1
  /\ Cardinality(workers) < desired_capacity

CountInMutant ==
  tasks_queued_or_running' = tasks_queued_or_running + IF MustGrow THEN 1 ELSE 0
CountIn == tasks_queued_or_running' = tasks_queued_or_running + 1

SpawnPush(p) ==
  /\ call[p] = "spawn_joining"
  /\ AllJoinable
  /\ CountIn
  /\ Restaff(IF MustGrow THEN 1 ELSE 0)
  /\ pending_tasks' = Append(pending_tasks, arg)
  /\ status' = [status EXCEPT ![arg] = "queued"]
  /\ owner' = None
  /\ call' = [call EXCEPT ![p] = "spawn_notifying"]
  /\ arg' = None
  /\ UNCHANGED <<config, task, stopped, budget>>

\* The launch throws: the task is counted but not queued, and nobody is notified.
\* The caller gets the std::system_error and survives it.
SpawnThrows(p) ==
  /\ call[p] = "spawn_joining"
  /\ AllJoinable /\ MustGrow
  /\ budget > 0 /\ budget' = budget - 1
  /\ CountIn
  /\ RestaffFails(1)
  /\ status' = [status EXCEPT ![arg] = "lost"]
  /\ owner' = None
  /\ call' = [call EXCEPT ![p] = "none"]
  /\ arg' = None
  /\ UNCHANGED <<pending_tasks, config, task, stopped>>

\* The notification comes after the mutex is released.
SpawnNotify(p) ==
  /\ call[p] = "spawn_notifying"
  /\ NotifyOne
  /\ call' = [call EXCEPT ![p] = "none"]
  /\ UNCHANGED <<threads, queue, config, owner, task, arg, status, stopped, budget>>

-----------------------------------------------------------------------------
(* set_capacity; during or after a shutdown it changes nothing *)

SetCapacityEnter(p, n) ==
  /\ MutexFree /\ CanCall(p)
  /\ ~please_shutdown
  /\ budget > 0 /\ budget' = budget - 1
  /\ owner' = p
  /\ call' = [call EXCEPT ![p] = "capacity_joining"]
  /\ arg' = n
  /\ UNCHANGED <<threads, queue, config, wpc, task, status, stopped>>

\* How many workers to launch for capacity n; when negative, the pool shrinks.
RequiredMutant(n) ==
  LET room == n - Cardinality(workers)
  IN  IF Len(pending_tasks) > room THEN Len(pending_tasks) ELSE room
Required(n) ==
  LET room == n - Cardinality(workers)
  IN  IF Len(pending_tasks) < room THEN Len(pending_tasks) ELSE room

SetCapacityApply(p) ==
  /\ call[p] = "capacity_joining"
  /\ AllJoinable
  /\ desired_capacity' = arg
  /\ IF Required(arg) >= 0
     THEN Restaff(Required(arg))
     ELSE /\ finished_workers' = {}
          /\ wpc' = [w \in Workers |-> IF w \in finished_workers THEN "unborn"
                                       ELSE NotifyAll[w]]
          /\ UNCHANGED workers
  /\ owner' = None
  /\ call' = [call EXCEPT ![p] = "none"]
  /\ arg' = None
  /\ UNCHANGED <<queue, please_shutdown, quick_shutdown, task, status, stopped, budget>>

\* A launch throws: the new capacity stays, the remaining launches are skipped.
SetCapacityThrows(p) ==
  /\ call[p] = "capacity_joining"
  /\ AllJoinable /\ Required(arg) > 0
  /\ budget > 0 /\ budget' = budget - 1
  /\ desired_capacity' = arg
  /\ RestaffFails(Required(arg))
  /\ owner' = None
  /\ call' = [call EXCEPT ![p] = "none"]
  /\ arg' = None
  /\ UNCHANGED <<queue, please_shutdown, quick_shutdown, task, status, stopped>>

-----------------------------------------------------------------------------
(* wait_for_idle; with no task it returns at once and changes nothing *)

WaitForIdle(p) ==
  /\ MutexFree /\ call[p] = "none"
  /\ tasks_queued_or_running # 0
  /\ call' = [call EXCEPT ![p] = "idle_waiting"]
  /\ UNCHANGED <<threads, queue, config, owner, wpc, task, arg, status, stopped, budget>>

IdleRecheck(p) ==
  /\ MutexFree /\ call[p] = "idle_woken"
  /\ call' = [call EXCEPT ![p] = IF tasks_queued_or_running = 0
                                 THEN "none" ELSE "idle_waiting"]
  /\ UNCHANGED <<threads, queue, config, owner, wpc, task, arg, status, stopped, budget>>

-----------------------------------------------------------------------------
(* shut_down; a second call changes nothing *)

\* m_cv_shutdown.wait: its predicate is evaluated inside the mutex.
AwaitWorkersMutant(p) ==
  IF pending_tasks = << >>
  THEN owner' = p    /\ call' = [call EXCEPT ![p] = "shutdown_joining"]
  ELSE owner' = None /\ call' = [call EXCEPT ![p] = "shutdown_waiting"]
AwaitWorkers(p) ==
  IF workers = {}
  THEN owner' = p    /\ call' = [call EXCEPT ![p] = "shutdown_joining"]
  ELSE owner' = None /\ call' = [call EXCEPT ![p] = "shutdown_waiting"]

ShutDown(p, wait) ==
  /\ MutexFree /\ call[p] = "none"
  /\ ~please_shutdown
  /\ please_shutdown' = TRUE
  /\ quick_shutdown' = ~wait
  /\ wpc' = NotifyAll
  /\ AwaitWorkers(p)
  /\ UNCHANGED <<threads, queue, desired_capacity, task, arg, status, stopped, budget>>

ShutDownRecheck(p) ==
  /\ MutexFree /\ call[p] = "shutdown_woken"
  /\ AwaitWorkers(p)
  /\ UNCHANGED <<threads, queue, config, wpc, task, arg, status, stopped, budget>>

\* A quick shutdown clears the queue and leaves the counter alone; a waiting one
\* gets here only past DCHECK_EQ(m_pending_tasks.size(), 0), see NoAbort.
ShutDownReturn(p) ==
  /\ call[p] = "shutdown_joining"
  /\ quick_shutdown \/ pending_tasks = << >>
  /\ AllJoinable
  /\ pending_tasks' = << >>
  /\ status' = [t \in Tasks |-> IF status[t] = "queued" THEN "dropped" ELSE status[t]]
  /\ Restaff(0)
  /\ owner' = None
  /\ call' = [call EXCEPT ![p] = "none"]
  /\ UNCHANGED <<tasks_queued_or_running, config, task, arg, stopped, budget>>

-----------------------------------------------------------------------------
(* worker_loop *)

\* The unique_lock takes the mutex at the start and when m_cv.wait returns.
Acquire(w) ==
  /\ MutexFree
  /\ wpc[w] \in {"start", "woken"}
  /\ owner' = w
  /\ wpc' = [wpc EXCEPT ![w] = "head"]
  /\ UNCHANGED <<threads, queue, config, task, call, arg, status, stopped, budget>>

MayTakeAfterStopMutant == pending_tasks # << >> /\ ~ShouldSecede
MayTakeMutant == pending_tasks # << >> /\ ~please_shutdown /\ ~ShouldSecede
MayTake == pending_tasks # << >> /\ ~quick_shutdown /\ ~ShouldSecede

TakeTask(w) ==
  /\ wpc[w] = "head"
  /\ MayTake
  /\ task' = [task EXCEPT ![w] = Head(pending_tasks)]
  /\ pending_tasks' = Tail(pending_tasks)
  /\ status' = [status EXCEPT ![Head(pending_tasks)] = "taken"]
  /\ owner' = None
  /\ wpc' = [wpc EXCEPT ![w] = "check"]
  /\ UNCHANGED <<threads, tasks_queued_or_running, config, call, arg, stopped, budget>>

\* StopToken::is_stop_requested, outside the mutex.
IsStopRequestedMutant(t) == FALSE
IsStopRequested(t) == t \in stopped

CheckStop(w) ==
  /\ wpc[w] = "check"
  /\ wpc' = [wpc EXCEPT ![w] = IF IsStopRequested(task[w]) THEN "stopping" ELSE "running"]
  /\ UNCHANGED <<threads, queue, config, owner, task, call, arg, status, stopped, budget>>

\* The task body, or the stop callback if it has one, returns.
EndTask(w) ==
  /\ wpc[w] \in {"running", "stopping"} /\ call[w] = "none"
  /\ status' = [status EXCEPT ![task[w]] =
                  IF wpc[w] = "running" THEN "done" ELSE "cancelled"]
  /\ wpc' = [wpc EXCEPT ![w] = "relock"]
  /\ UNCHANGED <<threads, queue, config, owner, task, call, arg, stopped, budget>>

CountOutMutant ==
  /\ tasks_queued_or_running' = tasks_queued_or_running - 1
  /\ call' = IF tasks_queued_or_running = 0
             THEN Notified("idle_waiting", "idle_woken") ELSE call
CountOut ==
  /\ tasks_queued_or_running' = tasks_queued_or_running - 1
  /\ call' = IF tasks_queued_or_running = 1
             THEN Notified("idle_waiting", "idle_woken") ELSE call

FinishTask(w) ==
  /\ MutexFree /\ wpc[w] = "relock"
  /\ owner' = w
  /\ task' = [task EXCEPT ![w] = None]
  /\ CountOut
  /\ wpc' = [wpc EXCEPT ![w] = "head"]
  /\ UNCHANGED <<threads, pending_tasks, config, arg, status, stopped, budget>>

Leave(w) ==
  /\ wpc[w] = "head"
  /\ ~MayTake
  /\ please_shutdown \/ ShouldSecede
  /\ finished_workers' = finished_workers \cup {w}
  /\ workers' = workers \ {w}
  /\ call' = IF please_shutdown THEN Notified("shutdown_waiting", "shutdown_woken")
                                ELSE call
  /\ owner' = None
  /\ wpc' = [wpc EXCEPT ![w] = "returned"]
  /\ UNCHANGED <<queue, config, task, arg, status, stopped, budget>>

Sleep(w) ==
  /\ wpc[w] = "head"
  /\ ~MayTake
  /\ ~please_shutdown /\ ~ShouldSecede
  /\ owner' = None
  /\ wpc' = [wpc EXCEPT ![w] = "waiting"]
  /\ UNCHANGED <<threads, queue, config, task, call, arg, status, stopped, budget>>

\* The thread function returns after worker_loop has released the mutex.
ExitThread(w) ==
  /\ wpc[w] = "returned"
  /\ wpc' = [wpc EXCEPT ![w] = "exited"]
  /\ UNCHANGED <<threads, queue, config, owner, task, call, arg, status, stopped, budget>>

-----------------------------------------------------------------------------
(* The environment *)

\* StopSource::request_stop on the source of t's token.
RequestStop(t) ==
  /\ t \in Stoppable \ stopped
  /\ stopped' = stopped \cup {t}
  /\ UNCHANGED <<threads, queue, config, owner, wpc, task, call, arg, status, budget>>

\* StopSource::reset on it: the token reports nothing any more, wherever the task is.
ResetStop(t) ==
  /\ t \in stopped
  /\ stopped' = stopped \ {t}
  /\ UNCHANGED <<threads, queue, config, owner, wpc, task, call, arg, status, budget>>

\* std::condition_variable::wait may return without a notification.
SpuriousWake ==
  /\ budget > 0 /\ budget' = budget - 1
  /\ \/ /\ \E w \in Workers : wpc[w] = "waiting" /\ wpc' = [wpc EXCEPT ![w] = "woken"]
        /\ UNCHANGED call
     \/ /\ \E p \in Clients :
             \/ call[p] = "idle_waiting" /\ call' = [call EXCEPT ![p] = "idle_woken"]
             \/ call[p] = "shutdown_waiting" /\ call' = [call EXCEPT ![p] = "shutdown_woken"]
        /\ UNCHANGED wpc
  /\ UNCHANGED <<threads, queue, config, owner, task, arg, status, stopped>>

-----------------------------------------------------------------------------
WorkerStep(w) ==
  \/ Acquire(w) \/ TakeTask(w) \/ CheckStop(w) \/ EndTask(w) \/ FinishTask(w)
  \/ Leave(w) \/ Sleep(w) \/ ExitThread(w)

\* The steps of a call that has begun.
CallStep(p) ==
  \/ SpawnPush(p) \/ SpawnThrows(p) \/ SpawnNotify(p)
  \/ SetCapacityApply(p) \/ SetCapacityThrows(p)
  \/ IdleRecheck(p) \/ ShutDownRecheck(p) \/ ShutDownReturn(p)

\* A task does not wait for its own pool: only clients call the last two.
NewCall ==
  \/ \E p \in Threads, t \in Tasks : SpawnRejected(p, t) \/ SpawnEnter(p, t)
  \/ \E p \in Threads, n \in Capacities : SetCapacityEnter(p, n)
  \/ \E p \in Clients : WaitForIdle(p)
  \/ \E p \in Clients, wait \in WaitModes : ShutDown(p, wait)

Next ==
  \/ \E w \in Workers : WorkerStep(w)
  \/ \E p \in Threads : CallStep(p)
  \/ NewCall
  \/ \E t \in Tasks : RequestStop(t) \/ ResetStop(t)
  \/ SpuriousWake

\* The scheduler runs every thread that can take a step and task bodies
\* terminate; nobody has to call the pool.
Fairness ==
  /\ \A w \in Workers : WF_vars(WorkerStep(w))
  /\ \A p \in Threads : WF_vars(CallStep(p))

Spec == Init /\ [][Next]_vars
FairSpec == Spec /\ Fairness

-----------------------------------------------------------------------------
(* What the pool is relied on for *)

WorkersAt(pcs) == {w \in Workers : wpc[w] \in pcs}
CallersAt(pcs) == {p \in Threads : call[p] \in pcs}
Holding == {w \in Workers : task[w] # None}
Dropped == {t \in Tasks : status[t] = "dropped"}
Lost == {t \in Tasks : status[t] = "lost"}
NeverCountedOut == Dropped \cup Lost

\* A launch has failed: a worker of the list never runs.
Crippled == WorkersAt({"failed"}) # {}

\* Some thread is inside shut_down; afterwards the pool is closed.
InShutdown == {"shutdown_waiting", "shutdown_woken", "shutdown_joining"}
ShuttingDown == CallersAt(InShutdown) # {}

\* Every variable holds a value of its kind, and the counter of tasks, a
\* signed int in the code, is never negative (the two DCHECK_GE of worker_loop).
TypeOK ==
  /\ workers \subseteq Workers /\ finished_workers \subseteq Workers
  /\ pending_tasks \in Seq(Tasks)
  /\ tasks_queued_or_running \in Nat
  /\ desired_capacity \in Capacities
  /\ please_shutdown \in BOOLEAN /\ quick_shutdown \in BOOLEAN
  /\ owner \in Threads \cup {None}
  /\ wpc \in [Workers -> {"unborn", "start", "head", "check", "running", "stopping",
                          "relock", "waiting", "woken", "returned", "exited", "failed"}]
  /\ task \in [Workers -> Tasks \cup {None}]
  /\ call \in [Threads -> {"none", "spawn_joining", "spawn_notifying",
                           "capacity_joining", "idle_waiting", "idle_woken",
                           "shutdown_waiting", "shutdown_woken", "shutdown_joining"}]
  /\ arg \in Tasks \cup Capacities \cup {None}
  /\ status \in [Tasks -> {"new", "queued", "taken", "done", "cancelled", "rejected",
                           "dropped", "lost", "left"}]
  /\ stopped \subseteq Stoppable
  /\ budget \in 0..Budget

\* A waiting shut_down finds the queue empty once every worker has left: its
\* DCHECK_EQ(m_pending_tasks.size(), 0) never aborts the process.
NoAbort ==
  ~quick_shutdown /\ CallersAt({"shutdown_joining"}) # {} => pending_tasks = << >>

\* m_tasks_queued_or_running, kept by increments and decrements of different
\* threads, is the number of queued tasks, of tasks a worker holds, of the tasks
\* a quick shutdown dropped and of those a failing launch lost: neither of these
\* is counted out.
CountExact ==
  tasks_queued_or_running
    = Len(pending_tasks) + Cardinality(Holding) + Cardinality(NeverCountedOut)

\* Through every resize and secession an open pool keeps a worker for each task
\* that is queued or running, up to its capacity: spawn_real launches at most
\* one, and set_capacity counts only the queued tasks.  A set_capacity whose
\* launch fails leaves the balance disturbed for good.
EnoughWorkers ==
  please_shutdown \/ Cardinality(workers) >= tasks_queued_or_running
                  \/ Cardinality(workers) >= desired_capacity
                  \/ Crippled

\* No worker sleeps through a shrink or a shutdown: while some worker has to
\* leave, none is blocked on m_cv.
NobodySleepsOnLeave ==
  please_shutdown \/ ShouldSecede => WorkersAt({"waiting"}) = {}

\* No wakeup is lost, although spawn_real notifies one worker after releasing
\* the mutex: while a worker sleeps, each queued task has a notification still
\* to come or a worker on its way to the queue.
WakeupsCoverQueue ==
  ~quick_shutdown /\ WorkersAt({"waiting"}) # {} =>
     Len(pending_tasks) <= Cardinality(CallersAt({"spawn_notifying"}))
                             + Cardinality(WorkersAt({"start", "woken", "head"}))

\* Neither wait_for_idle nor shut_down sleeps once what it waits for holds.
SleepersHaveReason ==
  /\ CallersAt({"idle_waiting"}) # {} => tasks_queued_or_running > 0
  /\ CallersAt({"shutdown_waiting"}) # {} => workers # {}

\* Once shut_down has returned, no thread of the pool is left and no task is
\* queued or running.
ShutdownQuiesces ==
  please_shutdown /\ ~ShuttingDown =>
    /\ \A w \in Workers : wpc[w] = "unborn"
    /\ pending_tasks = << >>
    /\ \A t \in Tasks : status[t] \notin {"queued", "taken"}

\* When a thread that has something to do can do it: nobody else is inside the mutex,
\* the threads it joins have returned, and an id is left for each one it launches.
WorkerCanMove(w) ==
  \/ wpc[w] \in {"head", "check", "returned"}
  \/ wpc[w] \in {"running", "stopping"} /\ call[w] = "none"
  \/ wpc[w] \in {"start", "woken", "relock"} /\ MutexFree

Room(n) == n <= Cardinality(Workers \ workers)

CallerCanMove(p) ==
  \/ call[p] = "spawn_notifying"
  \/ call[p] \in {"idle_woken", "shutdown_woken"} /\ MutexFree
  \/ /\ AllJoinable
     /\ \/ call[p] = "spawn_joining" /\ (MustGrow => Room(1))
        \/ call[p] = "capacity_joining" /\ Room(Required(arg))
        \/ call[p] = "shutdown_joining" /\ (quick_shutdown \/ pending_tasks = << >>)

\* While somebody is in a call, somebody can move: no two threads wait for one another,
\* for the mutex, for a notification, for a task or for a thread to join.  What a caller
\* may wait for in vain: tasks that a quick shutdown dropped or that no thread may
\* run, and a worker whose launch failed.
NobodyIsStuck ==
  NoAbort =>
    \A p \in Threads : call[p] # "none" =>
      \/ \E w \in Workers : WorkerCanMove(w)
      \/ \E q \in Threads : CallerCanMove(q)
      \/ call[p] = "idle_waiting" /\ (Dropped # {} \/ Crippled \/ desired_capacity <= 0)
      \/ call[p] = "shutdown_waiting" /\ Crippled

\* A task whose stop is requested while it is queued does not run, and does not stay in
\* the queue either: some worker takes it to its stop callback, or a quick shutdown
\* drops it, unless the source is reset first or a launch has failed.
StopsAreAnswered ==
  \A t \in Tasks :
    t \in stopped /\ status[t] = "queued"
      ~> status[t] \in {"cancelled", "dropped"} \/ t \notin stopped \/ Crippled

\* Every call returns, whatever it waits for: a worker's exit, an idle pool, the
\* join of a finished worker.  The exceptions: a wait_for_idle that meets a quick
\* shutdown, whose dropped tasks stay counted, and after a failed launch a
\* wait_for_idle and the shut_down, which waits for a worker that never ran.
CallsReturn ==
  \A p \in Threads :
    call[p] # "none" ~>
      \/ call[p] = "none"
      \/ call[p] = "idle_waiting" /\ (Dropped # {} \/ Crippled)
      \/ call[p] = "shutdown_waiting" /\ Crippled

(* The pool as an Executor *)

Active == {t \in Tasks : status[t] = "taken"}

Outcome == [t \in Tasks |->
  IF status[t] \in {"queued", "taken"} THEN "accepted"
  ELSE IF status[t] = "rejected" THEN "refused"
  ELSE IF status[t] = "done" THEN "ran" ELSE status[t]]

Phase == IF ~please_shutdown THEN "open"
         ELSE IF ~ShuttingDown THEN "closed"
         ELSE IF quick_shutdown THEN "halting" ELSE "draining"

Abstract == INSTANCE Executor WITH
  queue <- pending_tasks, active <- Active, outcome <- Outcome, phase <- Phase,
  crippled <- Crippled

\* The pool is an Executor: tasks start in the order in which they were
\* accepted, run at most once, all end unless a quick shutdown drops them, and
\* nothing starts or is accepted after it.
ImplementsExecutor == Abstract!Spec
=============================================================================
