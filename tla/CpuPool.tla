------------------------------ MODULE CpuPool ------------------------------
(***************************************************************************)
(* The process-wide pool of src/ArrowThreadPool: get_cpu_thread_pool makes *)
(* it on its first call, with a capacity read from the environment while   *)
(* other threads may be changing that, and protect_against_fork gives a    *)
(* child process a pool of its own.  Everything a pool does in between is  *)
(* ArrowThreadPool.  After a fork the behaviour is the child's: the parent *)
(* goes on as if nothing had happened.                                     *)
(***************************************************************************)
EXTENDS ArrowThreadPool

CONSTANTS
  Texts,       \* values of the two variables, each the list of its comma-separated
               \* parts: an integer, or None when std::stoi rejects it
  Unset,       \* the value of a variable that is not set
  MaxInt,      \* the largest int
  Hardware,    \* results of std::thread::hardware_concurrency, 0 when unknown
  Fallback     \* the capacity when nothing is known, 4 in the code

ASSUME CpuAssumption ==
  /\ Texts \subseteq Seq(Int \cup {None}) \ {<< >>}
  /\ Unset \notin Texts
  /\ MaxInt \in Nat \ {0} /\ Hardware \subseteq 0..MaxInt
  /\ 0..MaxInt \subseteq Capacities
  /\ Fallback \in Capacities /\ Fallback > 0

EnvVars == {"OMP_NUM_THREADS", "OMP_THREAD_LIMIT"}

VARIABLES
  env,       \* the environment, until nobody reads it any more
  creating,  \* how far the initialisation of the static `singleton' is
  seen,      \* the text getenv has returned a pointer to
  torn,      \* putenv has replaced that text before it was copied
  capacity,  \* the local `capacity' of default_capacity
  hardware,  \* hardware_concurrency()
  calm,      \* history: the environment is as it was at the first call
  process    \* "parent"; after a fork "stale" (m_pid is the parent's), then "child"
             \* or "dead"

creation == <<env, creating, seen, torn, capacity, hardware, calm>>
cpuVars == <<vars, creation, process>>

CpuInit ==
  /\ Init
  /\ desired_capacity = Fallback  \* there is no pool yet
  /\ env \in [EnvVars -> Texts \cup {Unset}]
  /\ creating = "no"
  /\ seen = Unset /\ torn = FALSE
  /\ capacity = 0
  /\ hardware \in Hardware
  /\ calm = TRUE
  /\ process = "parent"

-----------------------------------------------------------------------------
(* default_capacity and the initialisation of the singleton *)

\* ParseOMPEnvVar: the first number of the list; 0 when the variable is unset, is
\* no number, or is one stoi finds out of range.
Parse(text) ==
  IF text = Unset THEN 0
  ELSE IF Head(text) = None \/ Head(text) > MaxInt \/ Head(text) < 0 THEN 0
  ELSE Head(text)

\* The pointer of getenv dies with the next putenv of the variable: then anything
\* may be read.
Copied == IF torn THEN Texts ELSE {seen}

\* SetEnvVar by any other thread.
SetEnvVar(v, text) ==
  /\ creating # "done"
  /\ text # env[v]
  /\ env' = [env EXCEPT ![v] = text]
  /\ torn' = (torn \/ \/ creating = "threads" /\ v = "OMP_NUM_THREADS" /\ seen # Unset
                      \/ creating = "limit" /\ v = "OMP_THREAD_LIMIT" /\ seen # Unset)
  /\ calm' = (calm /\ creating = "no")
  /\ UNCHANGED <<vars, creating, seen, capacity, hardware, process>>

\* The first caller of get_cpu_thread_pool initialises; the others wait for it.
FirstCall ==
  /\ creating = "no"
  /\ creating' = "threads"
  /\ seen' = env["OMP_NUM_THREADS"]
  /\ UNCHANGED <<vars, env, torn, capacity, hardware, calm, process>>

ReadNumThreads ==
  /\ creating = "threads"
  /\ creating' = "limit"
  /\ \E text \in Copied :
       capacity' = IF Parse(text) = 0 THEN hardware ELSE Parse(text)
  /\ seen' = env["OMP_THREAD_LIMIT"]
  /\ torn' = FALSE
  /\ UNCHANGED <<vars, env, hardware, calm, process>>

LimitedMutant(limit) == IF limit > 0 THEN limit ELSE capacity
Limited(limit) == IF limit > 0 /\ limit < capacity THEN limit ELSE capacity

\* ThreadPool::make(default_capacity()): no task is queued, nothing is launched.
\* From here on nothing reads the environment, and it is not kept.
MakePool ==
  /\ creating = "limit"
  /\ creating' = "done"
  /\ \E text \in Copied :
       LET n == Limited(Parse(text))
       IN  desired_capacity' = IF n = 0 THEN Fallback ELSE n
  /\ env' = [v \in EnvVars |-> Unset]
  /\ seen' = Unset /\ torn' = FALSE
  /\ capacity' = 0 /\ hardware' = 0 /\ calm' = TRUE
  /\ UNCHANGED <<threads, queue, please_shutdown, quick_shutdown, owner, wpc, task,
                 call, arg, status, stopped, budget, process>>

-----------------------------------------------------------------------------
(* fork and protect_against_fork *)

HasPool == creating = "done" /\ process \in {"parent", "child"}

\* The child has a copy of the State and only the thread that called fork.
Fork(p) ==
  /\ creating = "done" /\ process = "parent"
  /\ call[p] = "none"
  /\ process' = "stale"
  /\ call' = [q \in Threads |-> IF q = p THEN "none" ELSE "gone"]
  /\ wpc' = [w \in Workers |-> IF wpc[w] \in {"unborn", "exited", "failed"}
                               THEN wpc[w] ELSE "gone"]
  /\ UNCHANGED <<threads, queue, config, owner, task, arg, status, stopped, budget,
                 creation>>

\* wait_for_idle alone does not call protect_against_fork: it blocks for ever when
\* a thread of the parent held the mutex, or when the parent's pool had a task.
StaleWait(p) ==
  /\ process = "stale" /\ call[p] = "none"
  /\ ~MutexFree \/ tasks_queued_or_running # 0
  /\ call' = [call EXCEPT ![p] = "idle_waiting"]
  /\ UNCHANGED <<threads, queue, config, owner, wpc, task, arg, status, stopped, budget,
                 creation, process>>

\* The closure of each running worker shares the old State: only when there was
\* none does m_sp_state hold the last reference, and the destructor meets the
\* finished threads that nobody has joined.
OldStateTerminatesMutant == finished_workers # {}
OldStateTerminates ==
  finished_workers # {} /\ \A w \in Workers : wpc[w] # "gone"

\* Everything in a State but the capacity and the shutdown flags.
FreshStateMutant ==
  workers' = {} /\ finished_workers' = {} /\ pending_tasks' = << >> /\ owner' = None
    /\ UNCHANGED tasks_queued_or_running
FreshState ==
  workers' = {} /\ finished_workers' = {} /\ pending_tasks' = << >> /\ owner' = None
    /\ tasks_queued_or_running' = 0

\* protect_against_fork, by the first method called but wait_for_idle: a fresh
\* State with the old capacity, set again unless the pool is shut down.  The
\* tasks of the old one are left to the parent; the child may start threads.
Protect(p) ==
  /\ process = "stale" /\ call[p] = "none"
  /\ process' = IF OldStateTerminates THEN "dead" ELSE "child"
  /\ FreshState
  /\ desired_capacity' = IF please_shutdown THEN 0 ELSE desired_capacity
  /\ wpc' = [w \in Workers |-> "unborn"]
  /\ task' = [w \in Workers |-> None]
  /\ call' = [q \in Threads |-> "none"]
  /\ arg' = None
  /\ status' = [t \in Tasks |->
                  IF status[t] \in {"new", "rejected"} THEN status[t] ELSE "left"]
  /\ UNCHANGED <<please_shutdown, quick_shutdown, stopped, budget, creation>>

-----------------------------------------------------------------------------
\* The pool takes the steps of ArrowThreadPool while there is one for this process.
InPool(step) == HasPool /\ step /\ UNCHANGED <<creation, process>>

CpuNext ==
  \/ \E v \in EnvVars, text \in Texts : SetEnvVar(v, text)
  \/ FirstCall \/ ReadNumThreads \/ MakePool
  \/ InPool(Next)
  \/ \E p \in Clients : Fork(p) \/ StaleWait(p) \/ Protect(p)

\* The pool is scheduled as in ArrowThreadPool; nobody has to call it, or to fork.
CpuFairness ==
  /\ \A w \in Workers : WF_cpuVars(InPool(WorkerStep(w)))
  /\ \A p \in Threads : WF_cpuVars(InPool(CallStep(p)))

CpuSpec == CpuInit /\ [][CpuNext]_cpuVars /\ CpuFairness

-----------------------------------------------------------------------------
(* What the process-wide pool is relied on for *)

\* OMP_NUM_THREADS, or else the number of processors, but no more than
\* OMP_THREAD_LIMIT allows; Fallback when there is no number at all.  The limit
\* is ignored in the last case.
WantedCapacity ==
  LET wanted == IF Parse(env["OMP_NUM_THREADS"]) > 0 THEN Parse(env["OMP_NUM_THREADS"])
                                                     ELSE hardware
      limit == Parse(env["OMP_THREAD_LIMIT"])
  IN  IF wanted = 0 THEN Fallback
      ELSE IF limit > 0 /\ limit < wanted THEN limit ELSE wanted

\* The pool is made with the capacity the environment asks for if no thread
\* changes it during the first call; whatever is read otherwise, even a torn
\* text, the capacity is positive, so that tasks run.
CapacityFromEnvironment ==
  [][creating = "limit" /\ creating' = "done" =>
       desired_capacity' > 0 /\ (calm => desired_capacity' = WantedCapacity)]_cpuVars

\* Wherever the fork cut into the parent's calls, workers and tasks, the child's
\* pool is one whose counter, staffing, wakeups and shutdown are in order, and where
\* nobody waits for a thread that stayed with the parent.
ChildPoolSound ==
  process = "child" =>
    /\ CountExact /\ EnoughWorkers
    /\ NobodySleepsOnLeave /\ WakeupsCoverQueue /\ SleepersHaveReason
    /\ ShutdownQuiesces /\ NobodyIsStuck

\* A child dies on its first call only if the fork fell into a shutdown, the pool
\* had been given no capacity, or a launch had failed: otherwise a worker is left
\* whenever another has seceded, and its reference keeps the old State with the
\* unjoined threads alive.
ChildSurvives ==
  [][process = "stale" /\ process' = "dead" =>
       please_shutdown \/ desired_capacity <= 0 \/ Crippled]_cpuVars

\* Every call returns in the parent as in ArrowThreadPool (in a pool without
\* capacity, a wait_for_idle for a task may not), and in the child unless it is a
\* wait_for_idle before any other call.
CallsReturnAcrossFork ==
  \A p \in Threads :
    call[p] # "none" ~>
      \/ call[p] = "none"
      \/ call[p] = "idle_waiting" /\ (Dropped # {} \/ Crippled \/ desired_capacity <= 0)
      \/ call[p] = "idle_waiting" /\ process = "stale"
      \/ call[p] = "shutdown_waiting" /\ Crippled
      \/ call[p] = "gone"
=============================================================================
