# A verification of CppProjectPractices

This directory holds TLA+ models of the concurrent parts of the repository, the
TLC configurations that check them on small instances, and proofs, checked by
TLAPS, of what must hold for every number of threads, tasks and sizes.
`PROJECT.json` maps every definition to the lines it models and lists the
components, runs, mutants, findings, hazards and theorems.

## 1. Inventory

The repository is a set of independent projects. Five of them keep state that
several threads share; the others are language and library demonstrations.

| component | code | state | operations | meets |
|---|---|---|---|---|
| Arrow `ThreadPool` | `ArrowThreadPool/thread_pool.{h,cpp}` | queue, `m_tasks_queued_or_running`, desired capacity, workers, finished workers, two shutdown flags, one mutex, three condition variables | `spawn`, `set_capacity`, `wait_for_idle`, `shut_down`, the destructor, `worker_loop`, recovery after `fork` | implements `Executor`; asks a `StopToken` before each task |
| Arrow `Executor` | `ArrowThreadPool/executor.h`, `functions.h` | a promise per submitted task | `spawn`, `submit` | calls `spawn_real` of the pool |
| Arrow `StopSource`, `StopToken` | `ArrowThreadPool/cancel.{h,cpp}` | atomic `m_requested`, `m_cancel_error`, a mutex | `request_stop`, `request_stop_from_signal`, `reset`, `poll`, `is_stop_requested` | used by callers, signal handlers and the pool's workers |
| Arrow environment | `ArrowThreadPool/io_util.cpp`, `default_capacity`, `get_cpu_thread_pool` | the process's environment, the singleton pool | `SetEnvVar`, `GetEnvVar`, `ParseOMPEnvVar`, `default_capacity` | decides the pool's size |
| `my_thread_pool::ThreadPool` | `ThreadPool/ThreadPool.h`, copied in `MySimpleTimer/` | queue, idle count, atomic `m_run`, one lock, one condition variable | constructor, `add_thread`, `commit`, destructor | runs the timer's tasks |
| `MySimpleTimer` | `MySimpleTimer/my_simple_timer.{h,cpp}` | input list, a wheel of buckets, `m_tick_count`, `m_stop`, one thread and one pool | `add_task`, `thread_routine`, `tick`, `get_next_wait_ms`, `add_new_task`, destructor | reads the clock, commits to its pool; tasks may call `add_task` |
| Arrow `MemoryPool` | `ArrowMemPool/memory_pool.{h,cpp}`, `allocator.cpp` | the heap, two atomics | `allocate`, `reallocate`, `free` | the C allocator; callers own the buffers |
| sales server | `05/` | `Summary` under a spin lock, a counter, a Lua configuration | receive, add sales, report | ZeroMQ, HTTP, detached threads |
| demos | `01/` to `04/` | none between calls | | |

What is hard in them, and what each must therefore keep:

* **Arrow pool.** `spawn_real` notifies after it has released the mutex; a
  worker is chosen to leave by comparing two sizes, each at the moment it looks;
  joining finished threads happens with the mutex held; a shutdown may overtake
  any of this, a `std::thread` may fail to start in the middle of a launch, and a
  `fork` may cut through all of it. It must lose no wakeup, keep its counter
  exact, never leave tasks without a worker, settle every future, and be quiet
  once closed.
* **Environment.** The text `getenv` points to dies with the next `putenv`; the
  pool's capacity is computed from two such texts.
* **Stop source.** `m_requested` is written under the mutex but read, and
  written by signals, outside it. A token must report the first reason and
  answer for a moment of the call, with no abort.
* **Worker pool.** `m_run` is cleared without the lock. Wakeups, the idle count
  and the drain on destruction have to survive that.
* **Timer.** The thread can be arbitrarily late, wait times are computed from a
  wheel that excludes one bucket, and the clock is read twice per turn. Nothing
  may run early, the wheel must stay sorted, what is due must run.
* **Memory pool.** The heap changes first and the statistics afterwards, in
  three separate atomic steps. Ownership must survive every failure, and the
  byte count must be the sum of the buffers.
* **Sales server.** Two threads read one unprotected configuration; detached
  threads of any number add to a map under a spin lock while another reads it;
  messages get lost and counters wrap. No sale may be lost or half added.

The `hazards` of `PROJECT.json` list each of these dangers at its line, with the
properties that would show it.

## 2. Modules

| module | what it is |
|---|---|
| `Executor` | abstract specification: what an executor promises, without threads or locks |
| `ArrowThreadPool` | the pool; its instance `Abstract` of `Executor` is the refinement mapping |
| `Submit` | extends the pool: the future of each submitted task, as a function of where the task is |
| `CpuPool` | extends the pool: its creation from the environment before, and a `fork` in the middle |
| `ArrowThreadPoolProofs` | the inductive invariant of the pool and its theorems |
| `ArrowExecutorProofs` | what rests on them: each step of the pool is a step of `Executor` or a stutter; the theorems of `Submit` and of `CpuPool` |
| `StopSource`, `StopSourceProofs` | the stop source and its tokens |
| `WorkerPool`, `WorkerPoolProofs` | `my_thread_pool::ThreadPool` |
| `SimpleTimer`, `SimpleTimerProofs` | the timing wheel, its thread and its clock |
| `MemoryPool`, `MemoryPoolProofs` | allocation, ownership and statistics |
| `SalesServer`, `SalesServerProofs` | configuration, receiver, detached threads, spin lock and summary of the sales server |
| `SumTheorems` | lemmas about sums over finite sets, for the proofs of the two modules above |
| `MC...` | instances for TLC: symmetry and constants a cfg cannot write |

A variable is named after the member it stands for (`pending_tasks` for
`m_pending_tasks`), an action after the function or the part of it that it
models. A name that ends in `Mutant` is a faulty variant of the definition that
follows it; it is not part of any specification and serves to show that a
property notices the fault.

### Where a step begins and ends

* In `ArrowThreadPool` and `WorkerPool` everything a thread does inside the
  mutex up to its release, or until it blocks, is one action. `owner` names a
  thread only where it holds the mutex *between* two actions: while it joins
  threads (`spawn_joining`, `capacity_joining`, `shutdown_joining`), at the head
  of the worker loop, and, in `WorkerPool`, between the test of `m_run` and the
  wait, which is where the destructor can slip in because `m_run` is not
  protected by the lock. A notification sent outside the mutex is an action of
  its own. A thread that waits on a condition variable has a pc that says so,
  and a spurious wakeup may happen, within `Budget`. So may a launch that
  throws: the threads before it are running, the list keeps an empty
  `std::thread` (`failed`), and the caller of `spawn` or `set_capacity`
  survives the exception.
* `Submit` adds no step: a promise is settled by its task, or broken when the task
  is destroyed, so `Future` follows from the state of the pool.
* A stop token is seen by the pool through `is_stop_requested` alone, so that in
  `ArrowThreadPool` a `request_stop` and a `reset` of its source are one step
  each (`RequestStop`, `ResetStop`); `StopSource` takes them apart.
* In `CpuPool` each `getenv`, and each copy of the text it returned, is an action.
  The environment is modelled as on the MinGW build of the repository's CMake
  files, whose `putenv` copies (on POSIX the local string of `SetEnvVar` would
  dangle); once the pool exists nobody reads the environment, and it is not
  kept. `fork` belongs to the other build, on POSIX: the child has the calling thread alone and a copy of
  everything. One fork is modelled, by a client that is not in a call and is
  not a task, and what follows is the child's behaviour. `protect_against_fork`
  is one action: the child has no other thread. The old `State` survives if a
  worker's closure shared it, and otherwise its destructor terminates when it
  meets an unjoined thread.
* In `StopSource` each access to `m_requested` outside the mutex is one action,
  and so is each half of a critical section that another thread can observe
  through `m_requested`.
* In `SimpleTimer` the wheel belongs to one thread, so that a turn of its loop
  is cut where it takes or releases `m_mutex`, reads the clock, or commits one
  task. The pool that runs the tasks is one step here, and so is its destruction
  after the join (`DestroyPool`), which returns or blocks: `WorkerPool` says when
  it blocks. `stop` can be missed by the test at the head of the loop (a plain bool
  read without the mutex), so that test has two outcomes once it is set.
  `FrontIsAhead` is the assertion of `get_next_wait_ms`; the build modelled has
  assertions on, as CMake's Debug build in the repository.
* In `MemoryPool` the change of the heap is one action, the copy inside
  `reallocate` is a window in which two blocks are held, and the addition, the
  comparison and the store of `update_allocated_bytes` are one action each.
* `SalesServer` follows the evident intent of code that does not compile as it
  stands (`SpinLock.hpp` declares its own name as an alias, `Zmq.hpp` has no
  `recv_sock`, `Config::load` reads `config.lua` while the file is
  `conf.lua`). `Config::get` is two actions, the match that stores the key and
  the use of what is stored. Inside the spin lock `add_sales` is one action per
  access to the map. What a report says is an output and is left out; the turn
  of the reporting thread with the lock is not. When `main` returns, the
  detached threads would use a destroyed summary: the program is over.

### Histories

`status`, `asked`, `window`, `added`, `skipped`, `peak`, `alone`, `honest` and
`calm` exist for the properties only: no guard reads them, except that a task is used
once (`status[t] = "new"`) and that a pool's thread calls `add_task` only after
some task was committed to it.

## 3. Runs

| run | instance | shows |
|---|---|---|
| `arrow_pool_safety` | 2 clients, 3 workers, 3 tasks, capacities -1, 0, 1, 3, both shutdowns, budget 2 | counter, staffing, wakeups, sleepers, quiet after a shutdown; nobody is stuck |
| `arrow_pool_live` | 2 clients, 2 workers, 2 tasks, one that throws and one void, positive capacities, fair | the pool implements `Executor`; calls return; a task whose stop was requested in the queue gets to its callback, unless the stop is reset; no abort; futures settle before `wait_for_idle` and `shut_down` return |
| `arrow_pool_zero_capacity` | capacity 0 or 1 | **violation**: the `DCHECK_EQ` of a waiting `shut_down` fails |
| `submit_void` | 1 client, 1 worker, a void task | **violation**: it runs, and its future reports a broken promise |
| `cpu_pool` | texts of one or two numbers or none, 0 to 2 processors, then 2 clients, 2 workers, 2 tasks, a quick shutdown, a fork and budget 2, fair | the capacity is the one asked for; the child's pool is in order, its calls return, and when its first call ends in `std::terminate` |
| `stop_source` | 3 threads, 3 errors, 1 signal | first reason wins, polls are timely, no abort |
| `worker_pool` | 2 clients, up to 2 threads of 3 ids, 3 tasks, sizes 0, 1, 3, fair | idle count, wakeups, drain on destruction; committed tasks run; the destructor returns unless a worker missed its notification |
| `worker_pool_destructor` | 1 client, 2 threads, 1 task, fair | **violation**: that worker blocks for ever, and so does `join` |
| `timer` | wheel of 2, timeouts 0 to 3, a client and a pool thread, 2 tasks, clock to 3, 1 spurious wakeup, fair | nothing early, wheel sound, no wakeup missed, the first fault is a skip; added tasks are scheduled, due ones run unless one was skipped, the destructor returns unless that of its pool blocks |
| `timer_due` | wheel of 4, 1 task, fair | **violation**: a thread woken in the millisecond of a deadline leaves the task behind |
| `memory_pool` | 3 threads, 4 blocks, sizes 0, 1, 3, right and wrong claims, 5 calls | wrong claims never lose or share a block; right ones keep the byte count; when `max_memory` is exact |
| `sales_server` | 4 sales of 2 products, counters modulo 4, fair | no sale is lost or half added; each message that gets its thread is added |

### Findings

The four violations are disagreements of the code with its own assertions or
comments; `PROJECT.json` quotes the lines.

1. `set_capacity(0)` is accepted. A pool with a task queued and capacity 0 has
   no worker; `shut_down(true)` waits for none and aborts on its `DCHECK_EQ`.
2. `submit` of a function that returns `void` never calls `set_value`. The task
   runs, its promise dies with it, and the future throws `broken_promise`.
3. The worker pool's destructor stores `m_run` and notifies without the lock. A
   worker that has evaluated the wait's predicate but not yet blocked misses
   both.
4. `thread_routine` ticks only the milliseconds *before* the new
   `m_tick_count`. A thread that wakes exactly at a deadline leaves the task in
   the bucket that `get_next_wait_ms` does not look at. The task is then behind
   `m_tick_count`, and the next call that meets it fails `assert(dt > 0)`
   (`LateOnlyIfSkipped` says that nothing else makes it fail).

Not findings, because no text of the repository contradicts them: after a quick
shutdown the dropped tasks stay counted, so that a `wait_for_idle` may never
return (`CallsReturn` excepts it); a `poll` that races with a `reset` may report
the generic `Cancelled` (`PollIsTimely` says when); `max_memory` may be lowered
by a late store (`PeakSound` says when it is exact); after a launch that throws, a
worker stays in the list that never runs, so that a `shut_down` never returns
and a lost task stays counted (`CallsReturn` excepts both); a child that waits
for idle before it does anything else may wait for ever, and one whose parent was
shutting down may terminate (`CallsReturnAcrossFork`, `ChildSurvives`); a
message that was received when its thread cannot be had is counted and dropped
(`SalesReachSummary`).

### Bounds, and why they are enough

* Two clients and one more worker than a slot needs: every pairwise race of
  caller with caller, caller with worker and worker with worker occurs, and a
  worker's id can be joined and used again. Three tasks leave one in the queue
  while two are held or being spawned.
* Capacities cover below zero (which the cast to `size_t` turns into no limit),
  zero, fewer than, and as many as the workers.
* `Budget` bounds `set_capacity` (or `add_thread`) calls together with spurious
  wakeups and failing launches; two let a shrink be followed by a growth, a
  wakeup or a failure. (With one, a child that dies because a launch failed in the
  parent and the pool was shrunk afterwards does not occur.) `Calls` bounds
  the memory pool's calls: three allocations and a free or reallocation of two of
  them.
* Timeouts shorter than, equal to and longer than a turn of the wheel (0 and 1, 2
  and 3 with a wheel of 2) put tasks of different turns into one bucket. `MaxTime` stops the clock unless the
  thread waits for a later time, so that no run ends in the middle of a wait.
  The tasks are alike and nobody has to add one, so that `MCFairSpec` looks at the
  behaviours in which the task `First` is added before the other.
* Four sales let two threads wait for the lock while a third adds to the same
  product and another inserts a second one. With counters modulo 4 the sums of
  the first product fit or wrap, for either field. The texts of a variable are
  one number, two, a negative one, one that is out of range, and none.
* Symmetry is used in runs without temporal properties only.
* The theorems of section 4 remove the bounds for most of the invariants.

TLC's own deadlock check is off: a pool or a timer that has been shut down, or that
nobody calls any more, really stops. That nobody waits for a step no thread can take is
what `NobodyIsStuck` says instead, and that each call ends is what `CallsReturn`,
`DestructorReturnsUnlessMissed` and their like say on a fair scheduler.

### Fairness

Weak fairness per thread: each worker, each call that has begun, the step of the
destructor, the timer's thread and the clock. This is what an operating system's
scheduler gives. It includes that the body of a task ends, which a pool cannot
be without. No client has to call anything, no stop has to be requested and no
spurious wakeup has to happen. A mutex is not assumed to be fair: weak fairness
is enough as the calls are finitely many. The one strong fairness is that of a
detached thread that spins on the lock of the summary: the lock promises nobody a
turn, but the reporting thread sleeps for seconds between two turns of its own,
and the messages are finitely many, so that a spinning thread finds the lock free
again and again.

## 4. Proofs

Almost every theorem is `Spec => []P`, for any finite sets of threads and tasks,
any capacities, sizes, errors, timeouts and wheel length that meet the module's
`ASSUME`. The assumptions only say that ids are distinct and finite in number,
that sizes are numbers, that an `int` of the environment may be a capacity
(`CpuAssumption`) and that the mark `None` is no record of a product
(`SalesServerAssumption`); `ShutDownNeverAborts` also assumes that capacities
are positive, which is what finding 1 is about. The argument is always the
same: an `IInv` with `Init => IInv`, `IInv /\ [Next]_vars => IInv'`, one step per
action, from which the property follows. None of the properties is inductive
alone.

* **Arrow pool** (`IInv = TypeOK, MutexInv, ThreadInv, QueueInv, ShutdownInv,
  LaunchInv, CountExact`). Who is inside the mutex determines who is joining; a worker's pc
  determines the list its thread is in; a task's status determines where it is.
  The count follows because each status change moves one task between sets whose
  cardinalities are summed. The wakeup and staffing properties are invariants
  on top of `IInv`, proved with it. `StopIsHonoured` is a temporal formula, the
  safety core of `StopsAreAnswered`: a stop requested for a queued task makes
  `Doomed(t)` true, a doomed task has not run, and no step but a `reset` of the
  stop ends that.
* **Refinement.** With `IInv` and what is known of a closed pool, each action maps
  to one action of `Executor`, by one lemma each, or changes nothing an executor
  shows (lemma `Stutters`).
* **Submit.** A future is pending only if its task is queued or held, so that a
  counter of zero, and likewise a closed pool, leave none.
* **Process-wide pool.** `CreationInv`: what the first call has read is what the
  environment holds, unless it was changed since that call began. For the fork,
  `CpuInv` has two parts. Wherever there is a pool, in the parent or in a child,
  `PoolInv` holds: everything that is known of `ArrowThreadPool`, with `StaffLeft`,
  that a worker which has seceded leaves another in the list. Between `fork` and the
  child's first call `PoolInv` is false, as the lists name threads that are gone;
  there `StaleInv` says what the copied `State` still guarantees. `ForkStep` leads from
  the first to the second, and `ProtectStep` back. Every other step is one of the
  pool, so that the lemmas of `ArrowThreadPoolProofs` carry over. `ChildSurvives`, an
  action property of the child's first call, then follows from `StaleInv`.
* **Stop source.** `IInv` relates flag, error and the stop in force in and out
  of the mutex, and between the two writes of `request_stop`.
* **Worker pool.** `IInv` relates queue, pcs and idle count, and says that a
  worker may sleep or be about to with `m_run` cleared.
* **Timer** (`PlaceInv, TimeInv, WheelSound, SlipInv`). A task is in one place;
  deadlines, `m_tick_count`, the cursor and the clock are ordered; the times of
  a bucket are whole turns apart (lemma `Division`); and before the first skip
  every scheduled deadline is ahead of what has been ticked.
* **Memory pool.** `HeapInv`: a thread has a second block only while it copies.
  `PeakInv`: what a thread between the addition and the store has seen is at most
  the peak, and is the peak if the thread is alone there. `BytesInv`: while the claims
  are right, the count and what the threads have still to add to it make the sum of
  the sizes; each action changes one term of each sum.
* **Sales server** (`Inv = Types, LockInv, SalesInv, CountInv`). At most one thread
  is between `Find` and `AddUnlock`, and never while the other reads. `SalesInv` says
  what the map holds at each point of `add_sales`, where the number is already
  added and the revenue is not: each field is compared with the sum of the
  messages that have got past *its* addition.
* **Sums.** `BytesExact` and `SummaryExact` speak of `SumFunction`, which is recursive on
  subsets. The provers cannot instantiate an induction theorem that takes an
  operator, so `SumTheorems` proves one that takes a set instead: a set of
  subsets of `S` that holds the empty one, and each subset whose rest it holds, holds
  them all (`SubsetInduction`, from the least number of a set of cardinalities).
  From it come that a sum is an integer, is monotonic, is zero if its terms are,
  and changes by as much as one term does.

* **Deadlock.** Liveness is out of the provers' reach, its safety core is not.
  `NobodyIsStuck` of the Arrow pool says that while somebody is in a call, some worker
  or caller can take its next step; `WorkerCanMove` and `CallerCanMove` spell out the
  guards of those steps, as `ENABLED` cannot be used. What is excepted is what
  `CallsReturn` excepts: dropped tasks, a capacity of 0 or less, a failed launch. The proof
  adds `OwnerInv`, that whoever holds the mutex between two actions can release
  it; where nobody can move, nobody joins, so that the mutex is free and the workers all
  sleep (`Stillness`), and the theorems on wakeups, sleepers and staff leave no
  caller a reason to wait (`StillIsAllowed`). `ChildPoolSound` includes it, for the child
  of a fork. In the same way `NobodyIsStuck` of `WorkerPoolProofs` leaves the missed
  notification of finding 3 as the only thing that blocks the destructor, `NoMissedWakeup`
  (with `WakeInv`) excludes the same fault for the timer, whose `m_stop` is read without
  the mutex too, and `LockIsReleased` says that no way out of `add_sales` leaves the
  spin lock set.

| module | theorems |
|---|---|
| `ArrowThreadPoolProofs` | `Invariance`, `TypeCorrect`, `CounterExact`, `NoSleepThroughLeave`, `NoLostWakeup`, `SleepersAreRight`, `PoolIsStaffed`, `ShutDownNeverAborts`, `ClosedIsQuiet`, `DeadlockFree`, `StopIsHonoured` |
| `ArrowExecutorProofs` | `PoolIsAnExecutor`, `NoPendingFuture`, `CapacityIsSound`, `CpuInvariance`, `ChildIsSound`, `ChildDiesRarely` |
| `StopSourceProofs` | `Invariance`, `TypeCorrect`, `PollNeverAborts`, `FirstErrorIsKept`, `PollsAreTimely` |
| `WorkerPoolProofs` | `Invariance`, `TypeCorrect`, `DestructorDrains`, `IdleCountExact`, `NoLostWakeup`, `DeadlockOnlyIfMissed` |
| `SimpleTimerProofs` | `Invariance`, `TypeCorrect`, `NothingRunsEarly`, `WheelIsSound`, `FirstFaultIsASkip`, `NoWakeupIsMissed` |
| `MemoryPoolProofs` | `EveryBlockHasOneOwner`, `PeakIsSound`, `BytesAreExact`, `TypeCorrect` |
| `SalesServerProofs` | `Invariance`, `SummaryIsExact`, `LockIsReleased` |

Every invariant and every action property of the runs is stated by a theorem. The type
invariants of `StopSource`, `SimpleTimer` and `SalesServer` are proved for every instance and
not run. Only
model-checked is what needs fairness or `ENABLED`, which is out of reach of the
installed provers: `CallsReturn`, `FuturesSettle`, `CallsReturnAcrossFork`,
`CommittedRuns`, `DestructorReturnsUnlessMissed`, `AddedIsScheduled`,
`DueRunsUnlessSkipped`, `DestructorReturnsUnlessPoolBlocks`, `StopsAreAnswered`,
`SalesReachSummary` and the liveness part of `ImplementsExecutor`.

## 5. Not modelled

* Most of the repository's C and C++ lines are not the project's: some 7,900 of
  13,200 are CMake's compiler probes, checked in with the build directories. Of
  the 5,300 written by hand, two fifths are demonstrations, see below.
* `01/`, `02/`, `03/` and `04/`: each case prints what a language or library
  feature does and keeps nothing between calls. The cases of `03/thread.cpp`
  (`call_once`, `thread_local`, an atomic counter, `async`) have two threads that
  share nothing else, so that a model would be one of the standard library.
  `04/zmqtest.cpp` is an exchange that ZeroMQ carries out.
* Task priorities: `TaskHints` is stored by nobody.
* `THREADPOOL_AUTO_GROW`, which neither project defines.
* Memory pool: the choice among one backend, `release_unused`, and
  `GlobalState::finalizing`, which nobody reads. `allocator.h` maps
  `posix_memalign` to `_aligned_malloc`, whose memory `free` must not get; that is
  a contract of the C runtime and has no state to model.
* `status.h`, `marcos.h`, `string_builder.*`: value types and wording. A
  `Status` is a member of a small set, a failed `DCHECK` an abort.
* An `add_task` with a timeout by a pool's task once the timer's thread has been
  joined: the members are destroyed in reverse order, `m_input_tasks` before
  `m_thread_pool`, so that the task would use a destroyed list. One that comes
  before the join is modelled, and so is one without a timeout.
* A task given to `spawn` that throws: the exception leaves `worker_loop` and
  `std::terminate` ends the process. (A task of `submit` that throws is modelled:
  its promise stores the exception.)
* A launch that fails in the constructor of `my_thread_pool::ThreadPool`: `m_pool`
  is destroyed with threads that can be joined, and the process ends as above. A
  later `add_thread` whose launch throws is one with a smaller `size`.
* `send_sock` of `Zmq.hpp` returns a reference to its local socket. The model of the
  sales server takes the socket that was meant.
* More than one fork, and a fork from inside a task.

## 6. Plan

What is left, most useful first:

1. An abstract summary, to which a sale is added in one step, that `SalesServer`
   implements, as `ArrowThreadPool` implements `Executor`; `SalesInv` is the
   invariant that its refinement needs.
2. `TimerPool`: the timer's `commit` composed with `WorkerPool` instead of one
   step, so that the destructors of both meet.
