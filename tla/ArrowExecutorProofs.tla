------------------------ MODULE ArrowExecutorProofs ------------------------
(***************************************************************************)
(* What src/ArrowThreadPool builds on the pool, for any clients, workers,  *)
(* tasks and capacities: the pool is an Executor, no future of submit is   *)
(* pending when the pool is idle or closed, and the process-wide pool has  *)
(* the capacity it should and survives a fork at any moment.               *)
(***************************************************************************)
EXTENDS Submit, CpuPool, ArrowThreadPoolProofs

-----------------------------------------------------------------------------
(* The pool implements the Executor: its initial states are states in which an *)
(* executor may begin, and each of its steps is a step of an executor or       *)
(* changes nothing that an executor shows.  What is promised to happen in the  *)
(* end is left to the model checker.                                           *)

AbstractStep == [Abstract!Next]_(Abstract!vars)

\* What is not visible to an executor's callers.
LEMMA Stutters ==
  ASSUME UNCHANGED <<status, pending_tasks, please_shutdown, quick_shutdown>>,
         ShuttingDown' <=> ShuttingDown, Crippled' <=> Crippled
  PROVE  AbstractStep
<1>1. UNCHANGED <<Active, Outcome, Phase>>
  BY DEF Active, Outcome, Phase
<1>2. UNCHANGED Crippled
  BY Zenon DEF Crippled
<1> QED
  BY <1>1, <1>2 DEF AbstractStep, Abstract!vars

\* An executor begins open and empty.
LEMMA InitRefines == Init => Abstract!Init
<1> SUFFICES ASSUME Init PROVE Abstract!Init
  OBVIOUS
<1>1. Active = {} /\ Outcome = [t \in Tasks |-> "new"] /\ Phase = "open"
  BY DEF Init, Active, Outcome, Phase
<1>2. Crippled = FALSE
  BY DEF Init, Crippled, WorkersAt
<1> QED
  BY <1>1, <1>2 DEF Init, Abstract!Init

\* Launching and joining threads leaves the failed ones as they are.
LEMMA RestaffKeepsFailed ==
  ASSUME IInv, NEW n \in Nat, Restaff(n)
  PROVE  Crippled' <=> Crippled
<1>1. PICK S \in SUBSET {w \in Workers : wpc[w] = "unborn" \/ w \in finished_workers} :
        wpc' = [w \in Workers |-> IF w \in S THEN "start"
                                  ELSE IF w \in finished_workers THEN "unborn"
                                  ELSE wpc[w]]
  BY DEF Restaff
<1>2. \A w \in finished_workers : wpc[w] # "failed"
  BY DEF IInv, ThreadInv, WorkersAt
<1>3. \A w \in Workers : wpc'[w] = "failed" <=> wpc[w] = "failed"
  BY <1>1, <1>2
<1> QED
  BY <1>3 DEF Crippled, WorkersAt

\* spawn_real after the shutdown.
LEMMA RejectedRefines ==
  ASSUME IInv, NEW p \in Threads, NEW t \in Tasks, SpawnRejected(p, t)
  PROVE  Abstract!Refuse(t)
<1>1. status[t] = "new" /\ please_shutdown /\ status' = [status EXCEPT ![t] = "rejected"]
      /\ UNCHANGED <<pending_tasks, please_shutdown, quick_shutdown, wpc, call>>
  BY DEF SpawnRejected, queue, config
<1>2. Outcome[t] = "new" /\ Outcome' = [Outcome EXCEPT ![t] = "refused"]
  BY <1>1 DEF IInv, TypeOK, Outcome
<1>3. Active' = Active
  BY <1>1 DEF IInv, TypeOK, Active
<1>4. Phase # "open" /\ Phase' = Phase /\ Crippled' = Crippled
  BY <1>1 DEF Phase, ShuttingDown, CallersAt, Crippled, WorkersAt
<1> QED
  BY <1>1, <1>2, <1>3, <1>4 DEF Abstract!Refuse

\* spawn_real when no thread is missing: the task is accepted.
LEMMA PushRefines ==
  ASSUME IInv, NEW p \in Threads, SpawnPush(p)
  PROVE  arg \in Tasks /\ Abstract!Accept(arg)
<1>1. /\ arg \in Tasks /\ status[arg] = "new" /\ ~please_shutdown
      /\ status' = [status EXCEPT ![arg] = "queued"]
      /\ pending_tasks' = Append(pending_tasks, arg)
      /\ UNCHANGED <<please_shutdown, quick_shutdown>>
  BY DEF SpawnPush, config, IInv, MutexInv
<1>2. Outcome[arg] = "new" /\ Outcome' = [Outcome EXCEPT ![arg] = "accepted"]
  BY <1>1 DEF IInv, TypeOK, Outcome
<1>3. Active' = Active
  BY <1>1 DEF IInv, TypeOK, Active
<1>4. Phase = "open" /\ Phase' = Phase
  BY <1>1 DEF Phase
<1>5. Crippled' = Crippled
  BY RestaffKeepsFailed, Zenon DEF SpawnPush, Crippled
<1> QED
  BY <1>1, <1>2, <1>3, <1>4, <1>5 DEF Abstract!Accept

\* spawn_real when the launch throws: the task is lost.
LEMMA ThrowRefines ==
  ASSUME IInv, NEW p \in Threads, SpawnThrows(p)
  PROVE  arg \in Tasks /\ Abstract!Lose(arg)
<1>1. /\ arg \in Tasks /\ status[arg] = "new" /\ ~please_shutdown
      /\ status' = [status EXCEPT ![arg] = "lost"]
      /\ UNCHANGED <<pending_tasks, please_shutdown, quick_shutdown>>
  BY DEF SpawnThrows, config, IInv, MutexInv
<1>2. Outcome[arg] = "new" /\ Outcome' = [Outcome EXCEPT ![arg] = "lost"]
  BY <1>1 DEF IInv, TypeOK, Outcome
<1>3. Active' = Active
  BY <1>1 DEF IInv, TypeOK, Active
<1>4. Phase = "open" /\ Phase' = Phase
  BY <1>1 DEF Phase
<1>5. Crippled' = TRUE
  BY RestaffFailsAdds DEF SpawnThrows, Crippled
<1> QED
  BY <1>1, <1>2, <1>3, <1>4, <1>5 DEF Abstract!Lose

\* set_capacity when a launch throws.
LEMMA CapacityThrowRefines ==
  ASSUME IInv, NEW p \in Threads, SetCapacityThrows(p)
  PROVE  Abstract!Cripple
<1>1. /\ arg \in Int /\ Required(arg) > 0 /\ RestaffFails(Required(arg))
      /\ ~please_shutdown
      /\ UNCHANGED <<status, pending_tasks, please_shutdown, quick_shutdown>>
  BY PoolAssumption DEF PoolAssumption, SetCapacityThrows, queue, IInv, MutexInv
<1>2. Required(arg) \in Nat
  BY <1>1, WorkerCount DEF Required, IInv, TypeOK
<1>3. Crippled' = TRUE
  BY <1>1, <1>2, RestaffFailsAdds DEF Crippled
<1>4. Phase = "open" /\ UNCHANGED <<Phase, Active, Outcome>>
  BY <1>1 DEF Phase, Active, Outcome
<1> QED
  BY <1>1, <1>3, <1>4 DEF Abstract!Cripple

\* A worker starts the oldest task, and none after a quick shutdown or when the
\* pool is closed.
LEMMA TakeRefines ==
  ASSUME IInv, ClosedInv, NEW w \in Workers, TakeTask(w)
  PROVE  Abstract!Start
<1> DEFINE t == Head(pending_tasks)
<1>1. /\ pending_tasks # << >> /\ ~quick_shutdown
      /\ pending_tasks' = Tail(pending_tasks)
      /\ status' = [status EXCEPT ![t] = "taken"]
      /\ UNCHANGED <<please_shutdown, quick_shutdown, call>>
  BY DEF TakeTask, MayTake, config
<1>2. t \in Tasks /\ status[t] = "queued"
  BY <1>1, EmptySeq DEF IInv, TypeOK, QueueInv
<1>3. Outcome' = Outcome
  BY <1>1, <1>2 DEF IInv, TypeOK, Outcome
<1>4. Active' = Active \cup {t}
  BY <1>1, <1>2 DEF IInv, TypeOK, Active
<1>5. Phase' = Phase
  BY <1>1 DEF Phase, ShuttingDown, CallersAt
<1>6. Phase \in {"open", "draining"}
  BY <1>1 DEF Phase, ClosedInv
<1>7. Crippled' = Crippled
  BY DEF TakeTask, IInv, TypeOK, Crippled, WorkersAt
<1> QED
  BY <1>1, <1>3, <1>4, <1>5, <1>6, <1>7 DEF Abstract!Start

\* The body or the stop callback of a task returns.
LEMMA EndRefines ==
  ASSUME IInv, NEW w \in Workers, EndTask(w)
  PROVE  task[w] \in Tasks /\ Abstract!End(task[w])
<1> DEFINE t == task[w]
<1>1. w \in Holding
  BY DEF EndTask, IInv, ThreadInv, WorkersAt, Busy
<1>2. t \in Tasks /\ status[t] = "taken"
  BY <1>1 DEF EndTask, IInv, TypeOK, QueueInv, Holding
<1>3. PICK end \in {"done", "cancelled"} : status' = [status EXCEPT ![t] = end]
  BY DEF EndTask
<1>4. \E how \in {"ran", "cancelled"} : Outcome' = [Outcome EXCEPT ![t] = how]
  BY <1>2, <1>3 DEF IInv, TypeOK, Outcome
<1>5. t \in Active /\ Active' = Active \ {t}
  BY <1>2, <1>3 DEF IInv, TypeOK, Active
<1>6. UNCHANGED <<pending_tasks, please_shutdown, quick_shutdown, call>>
  BY DEF EndTask, queue, config
<1>7. Phase' = Phase
  BY <1>6 DEF Phase, ShuttingDown, CallersAt
<1>8. Crippled' = Crippled
  BY DEF EndTask, IInv, TypeOK, Crippled, WorkersAt
<1> QED
  BY <1>2, <1>4, <1>5, <1>6, <1>7, <1>8 DEF Abstract!End

\* The shutdown begins.
LEMMA ShutDownRefines ==
  ASSUME IInv, NEW p \in Clients, NEW wait \in WaitModes, ShutDown(p, wait)
  PROVE  Abstract!ShutDown
<1>1. /\ ~please_shutdown /\ please_shutdown'
      /\ UNCHANGED <<status, pending_tasks>>
  BY DEF ShutDown, queue
<1>2. p \in CallersAt(InShutdown)'
  BY DEF ShutDown, AwaitWorkers, IInv, TypeOK, CallersAt, InShutdown, Threads
<1>3. Phase = "open" /\ Phase' \in {"draining", "halting"}
  BY <1>1, <1>2 DEF Phase, ShuttingDown
<1>4. Crippled' = Crippled
  BY DEF ShutDown, NotifyAll, IInv, TypeOK, Crippled, WorkersAt
<1>5. UNCHANGED <<Active, Outcome>>
  BY <1>1 DEF Active, Outcome
<1> QED
  BY <1>1, <1>3, <1>4, <1>5 DEF Abstract!ShutDown

\* The shutdown returns: every worker has left, so no task is running.
LEMMA CloseRefines ==
  ASSUME IInv, NEW p \in Threads, ShutDownReturn(p)
  PROVE  Abstract!CloseDrained \/ Abstract!CloseHalted
<1>1. /\ call[p] = "shutdown_joining"
      /\ quick_shutdown \/ pending_tasks = << >>
      /\ pending_tasks' = << >>
      /\ status' = [t \in Tasks |-> IF status[t] = "queued" THEN "dropped" ELSE status[t]]
      /\ call' = [call EXCEPT ![p] = "none"]
      /\ UNCHANGED <<please_shutdown, quick_shutdown>>
  BY DEF ShutDownReturn, config
<1>2. workers = {} /\ please_shutdown /\ ShuttingDown
  BY <1>1 DEF IInv, ShutdownInv, ShuttingDown, CallersAt, InShutdown
<1>3. Crippled = FALSE
  BY <1>2 DEF IInv, ThreadInv, WorkersAt, Employed, Crippled
<1>4. Crippled' = FALSE
  BY <1>3, RestaffKeepsFailed, Zenon DEF ShutDownReturn, Crippled
<1>5. Holding = {}
  BY <1>2 DEF IInv, ThreadInv, WorkersAt, Employed, Busy
<1>6. Active = {} /\ Active' = {}
  BY <1>1, <1>5 DEF IInv, TypeOK, QueueInv, Active
<1>7. Phase' = "closed"
  <2>1. \A q \in Threads : call'[q] \notin InShutdown
    BY <1>1 DEF IInv, TypeOK, ShutdownInv, CallersAt, InShutdown
  <2> QED
    BY <1>1, <1>2, <2>1 DEF Phase, ShuttingDown, CallersAt
<1>8. \A t \in Tasks : status[t] = "queued" <=> \E i \in DOMAIN pending_tasks : pending_tasks[i] = t
  BY DEF IInv, QueueInv
<1>9. CASE quick_shutdown
  <2>1. Phase = "halting"
    BY <1>2, <1>9 DEF Phase
  <2>2. Outcome' = [t \in Tasks |-> IF \E i \in DOMAIN pending_tasks : pending_tasks[i] = t
                                    THEN "dropped" ELSE Outcome[t]]
    BY <1>1, <1>8 DEF IInv, TypeOK, Outcome
  <2> QED
    BY <1>1, <1>3, <1>4, <1>6, <1>7, <2>1, <2>2 DEF Abstract!CloseHalted
<1>10. CASE ~quick_shutdown
  <2>1. Phase = "draining" /\ pending_tasks = << >>
    BY <1>1, <1>2, <1>10 DEF Phase
  <2>2. \A t \in Tasks : status[t] # "queued"
    BY <1>8, <2>1
  <2>3. Outcome' = Outcome
    BY <1>1, <2>2 DEF IInv, TypeOK, Outcome
  <2> QED
    BY <1>1, <1>3, <1>4, <1>6, <1>7, <2>1, <2>3 DEF Abstract!CloseDrained
<1> QED
  BY <1>9, <1>10

\* Each step of the pool is a step of an executor, or not visible to its callers.
LEMMA StepRefines == ASSUME IInv, ClosedInv, [Next]_vars PROVE AbstractStep
<1> USE DEF IInv, TypeOK, threads, queue, config
<1>1. ASSUME UNCHANGED <<status, pending_tasks, please_shutdown, quick_shutdown>>,
             \A p \in Threads : call'[p] \in InShutdown <=> call[p] \in InShutdown,
             \A w \in Workers : wpc'[w] = "failed" <=> wpc[w] = "failed"
      PROVE  AbstractStep
  BY <1>1, Stutters DEF ShuttingDown, CallersAt, Crippled, WorkersAt
<1>2. ASSUME NEW w \in Workers, WorkerStep(w) PROVE AbstractStep
  <2>1. ASSUME TakeTask(w) PROVE AbstractStep
    BY <2>1, TakeRefines DEF AbstractStep, Abstract!Next
  <2>2. ASSUME EndTask(w) PROVE AbstractStep
    BY <2>2, EndRefines DEF AbstractStep, Abstract!Next
  <2>3. ASSUME Acquire(w) \/ CheckStop(w) \/ Sleep(w) \/ ExitThread(w) PROVE AbstractStep
    BY <1>1, <2>3 DEF Acquire, CheckStop, Sleep, ExitThread
  <2>4. ASSUME FinishTask(w) PROVE AbstractStep
    BY <1>1, <2>4 DEF FinishTask, CountOut, Notified, InShutdown
  <2>5. ASSUME Leave(w) PROVE AbstractStep
    BY <1>1, <2>5 DEF Leave, Notified, InShutdown
  <2> QED
    BY <1>2, <2>1, <2>2, <2>3, <2>4, <2>5 DEF WorkerStep
<1>3. ASSUME NEW p \in Threads, CallStep(p) PROVE AbstractStep
  <2>1. ASSUME SpawnPush(p) PROVE AbstractStep
    BY <2>1, PushRefines DEF AbstractStep, Abstract!Next
  <2>2. ASSUME SpawnThrows(p) PROVE AbstractStep
    BY <2>2, ThrowRefines DEF AbstractStep, Abstract!Next
  <2>3. ASSUME SetCapacityThrows(p) PROVE AbstractStep
    BY <2>3, CapacityThrowRefines DEF AbstractStep, Abstract!Next
  <2>4. ASSUME ShutDownReturn(p) PROVE AbstractStep
    BY <2>4, CloseRefines DEF AbstractStep, Abstract!Next
  <2>5. ASSUME SpawnNotify(p) PROVE AbstractStep
    BY <1>1, <2>5 DEF SpawnNotify, NotifyOne, InShutdown
  <2>6. ASSUME IdleRecheck(p) \/ ShutDownRecheck(p) PROVE AbstractStep
    BY <1>1, <2>6 DEF IdleRecheck, ShutDownRecheck, AwaitWorkers, InShutdown
  <2>7. ASSUME SetCapacityApply(p) PROVE AbstractStep
    <3>1. /\ UNCHANGED <<status, pending_tasks, please_shutdown, quick_shutdown>>
          /\ \A q \in Threads : call'[q] \in InShutdown <=> call[q] \in InShutdown
      BY <2>7 DEF SetCapacityApply, InShutdown
    <3>2. CASE Required(arg) >= 0
      <4>1. Required(arg) \in Nat
        <5>1. arg \in Int
          BY <2>7, PoolAssumption DEF PoolAssumption, SetCapacityApply, MutexInv
        <5>2. Len(pending_tasks) \in Nat
          OBVIOUS
        <5> QED
          BY <3>2, <5>1, <5>2, WorkerCount DEF Required
      <4>2. Crippled' <=> Crippled
        BY <2>7, <3>2, <4>1, RestaffKeepsFailed DEF SetCapacityApply
      <4>3. ShuttingDown' <=> ShuttingDown
        BY <3>1 DEF ShuttingDown, CallersAt
      <4> QED
        BY <3>1, <4>2, <4>3, Stutters
    <3>3. CASE ~(Required(arg) >= 0)
      <4>1. \A w \in Workers : wpc'[w] = "failed" <=> wpc[w] = "failed"
        BY <2>7, <3>3 DEF SetCapacityApply, NotifyAll, ThreadInv, WorkersAt
      <4> QED
        BY <1>1, <3>1, <4>1
    <3> QED
      BY <3>2, <3>3
  <2> QED
    BY <1>3, <2>1, <2>2, <2>3, <2>4, <2>5, <2>6, <2>7 DEF CallStep
<1>4. CASE NewCall
  <2>1. ASSUME NEW p \in Threads, NEW t \in Tasks, SpawnRejected(p, t) PROVE AbstractStep
    BY <2>1, RejectedRefines DEF AbstractStep, Abstract!Next
  <2>2. ASSUME NEW p \in Threads, NEW t \in Tasks, SpawnEnter(p, t) PROVE AbstractStep
    BY <1>1, <2>2 DEF SpawnEnter, CanCall, InShutdown
  <2>3. ASSUME NEW p \in Threads, NEW n \in Capacities, SetCapacityEnter(p, n)
        PROVE  AbstractStep
    BY <1>1, <2>3 DEF SetCapacityEnter, CanCall, InShutdown
  <2>4. ASSUME NEW p \in Clients, WaitForIdle(p) PROVE AbstractStep
    BY <1>1, <2>4 DEF WaitForIdle, InShutdown
  <2>5. ASSUME NEW p \in Clients, NEW wait \in WaitModes, ShutDown(p, wait)
        PROVE  AbstractStep
    BY <2>5, ShutDownRefines DEF AbstractStep, Abstract!Next
  <2> QED
    BY <1>4, <2>1, <2>2, <2>3, <2>4, <2>5 DEF NewCall
<1>5. CASE SpuriousWake
  BY <1>1, <1>5 DEF SpuriousWake, InShutdown
<1>6. CASE \E t \in Tasks : RequestStop(t) \/ ResetStop(t)
  BY <1>1, <1>6 DEF RequestStop, ResetStop
<1>7. CASE UNCHANGED vars
  BY <1>1, <1>7 DEF vars
<1> QED
  BY <1>2, <1>3, <1>4, <1>5, <1>6, <1>7 DEF Next

\* The safety part of Abstract!Spec: the pool begins as an executor and takes no
\* step that an executor does not.
THEOREM PoolIsAnExecutor == Spec => Abstract!Init /\ [][Abstract!Next]_(Abstract!vars)
<1>1. IInv /\ ClosedInv /\ [Next]_vars => [Abstract!Next]_(Abstract!vars)
  BY StepRefines DEF AbstractStep
<1>2. Init => ClosedInv
  BY DEF Init, ClosedInv
<1>3. IInv /\ ClosedInv /\ [Next]_vars => ClosedInv'
  BY ClosedStep
<1> QED
  BY <1>1, <1>2, <1>3, InitRefines, Invariance, PTL DEF Spec

-----------------------------------------------------------------------------
(* submit *)

\* Without a fork no task is left to another process.
NothingLeft == \A t \in Tasks : status[t] # "left"

\* Only Protect leaves a task to another process.
LEMMA NothingLeftStep == ASSUME IInv, NothingLeft, [Next]_vars PROVE NothingLeft'
<1> USE DEF NothingLeft, IInv, TypeOK
<1>1. ASSUME UNCHANGED status PROVE NothingLeft'
  BY <1>1
<1>2. CASE NewCall
  BY <1>1, <1>2 DEF NewCall, SpawnRejected, SpawnEnter, SetCapacityEnter, WaitForIdle, ShutDown
<1>3. ASSUME NEW p \in Threads, CallStep(p) PROVE NothingLeft'
  BY <1>1, <1>3 DEF CallStep, SpawnPush, SpawnThrows, SpawnNotify, SetCapacityApply,
                    SetCapacityThrows, IdleRecheck, ShutDownRecheck, ShutDownReturn
<1>4. ASSUME NEW w \in Workers, WorkerStep(w) PROVE NothingLeft'
  BY <1>1, <1>4 DEF WorkerStep, Acquire, TakeTask, CheckStop, EndTask, FinishTask, Leave,
                    Sleep, ExitThread
<1>5. CASE UNCHANGED vars \/ SpuriousWake \/ \E t \in Tasks : RequestStop(t) \/ ResetStop(t)
  BY <1>1, <1>5 DEF vars, SpuriousWake, RequestStop, ResetStop
<1> QED
  BY <1>2, <1>3, <1>4, <1>5 DEF Next

\* A task whose future is pending is in the queue, or in the hands of a worker even
\* when its stop callback has already returned.
LEMMA PendingIsInPool ==
  ASSUME IInv, NothingLeft, NEW t \in Tasks, Future(t) = "pending"
  PROVE  \/ status[t] = "queued" /\ pending_tasks # << >>
         \/ \E w \in Holding : task[w] = t
<1>1. status[t] \in {"queued", "taken", "cancelled"}
  BY DEF Future, Settled, IInv, TypeOK, NothingLeft
<1>2. CASE status[t] = "queued"
  <2>1. PICK i \in DOMAIN pending_tasks : pending_tasks[i] = t
    BY <1>2 DEF IInv, QueueInv
  <2>2. pending_tasks # << >>
    BY <2>1
  <2> QED
    BY <1>2, <2>2
<1>3. CASE status[t] = "taken"
  BY <1>3 DEF IInv, QueueInv
<1>4. CASE status[t] = "cancelled"
  <2>1. PICK w \in Workers : task[w] = t
    BY <1>4 DEF Future
  <2> QED
    BY <2>1, PoolAssumption DEF Holding, PoolAssumption
<1> QED
  BY <1>1, <1>2, <1>3, <1>4

\* The counter is exact, so that 0 means no task in the queue and none in any hand.
LEMMA IdleIsReady ==
  ASSUME IInv, NothingLeft, tasks_queued_or_running = 0, NEW t \in Tasks
  PROVE  Future(t) # "pending"
<1>1. Holding \in SUBSET Workers /\ NeverCountedOut \in SUBSET Tasks
  BY DEF Holding, NeverCountedOut, Dropped, Lost
<1>2. Cardinality(Holding) \in Nat /\ Cardinality(NeverCountedOut) \in Nat
  BY <1>1, WorkerSets, PoolAssumption, FS_Subset, FS_CardinalityType DEF PoolAssumption
<1>3. Len(pending_tasks) \in Nat
  BY DEF IInv, TypeOK
<1>4. Cardinality(Holding) = 0 /\ Len(pending_tasks) = 0
  BY <1>2, <1>3 DEF IInv, CountExact
<1>5. Holding = {}
  BY <1>1, <1>4, WorkerSets
<1>6. pending_tasks = << >>
  BY <1>4 DEF IInv, TypeOK
<1> QED
  BY <1>5, <1>6, PendingIsInPool

\* A closed pool has no thread and no queued task.
LEMMA ClosedIsReady ==
  ASSUME IInv, NothingLeft, ShutdownQuiesces, please_shutdown, ~ShuttingDown, NEW t \in Tasks
  PROVE  Future(t) # "pending"
<1>1. Holding = {}
  BY DEF ShutdownQuiesces, IInv, ThreadInv, WorkersAt, Busy
<1>2. pending_tasks = << >>
  BY DEF ShutdownQuiesces
<1> QED
  BY <1>1, <1>2, PendingIsInPool

\* When wait_for_idle or shut_down may return, every future of submit is ready.
THEOREM NoPendingFuture == Spec => []QuietMeansReady
<1>1. IInv /\ NothingLeft /\ ShutdownQuiesces => QuietMeansReady
  BY IdleIsReady, ClosedIsReady DEF QuietMeansReady
<1>2. Init => NothingLeft
  BY DEF Init, NothingLeft
<1>3. IInv /\ NothingLeft /\ [Next]_vars => NothingLeft'
  BY NothingLeftStep
<1> QED
  BY <1>1, <1>2, <1>3, Invariance, ClosedIsQuiet, PTL DEF Spec

-----------------------------------------------------------------------------
(* The capacity of the process-wide pool, for any texts in the environment and *)
(* any moments at which other threads change them                              *)

\* What the first call has read so far is what the environment still holds, unless
\* it has been changed since that call.
CreationInv ==
  /\ creating \in {"no", "threads", "limit", "done"}
  /\ creating # "done" =>
       /\ env \in [EnvVars -> Texts \cup {Unset}]
       /\ seen \in Texts \cup {Unset}
       /\ hardware \in 0..MaxInt /\ capacity \in 0..MaxInt
       /\ calm => ~torn
  /\ creating = "threads" /\ calm => seen = env["OMP_NUM_THREADS"]
  /\ creating = "limit" /\ calm =>
       /\ seen = env["OMP_THREAD_LIMIT"]
       /\ capacity = IF Parse(env["OMP_NUM_THREADS"]) > 0
                     THEN Parse(env["OMP_NUM_THREADS"]) ELSE hardware

\* ParseOMPEnvVar returns an int, 0 at least.
LEMMA ParseIsInt == ASSUME NEW text \in Texts \cup {Unset} PROVE Parse(text) \in 0..MaxInt
<1>1. text # Unset => Head(text) \in Int \cup {None}
  BY CpuAssumption DEF CpuAssumption
<1> QED
  BY <1>1, CpuAssumption DEF Parse, CpuAssumption

\* The steps of the pool do not touch what its creation reads.
LEMMA CreationStep ==
  ASSUME CreationInv, [CpuNext]_cpuVars
  PROVE  CreationInv'
<1> USE DEF CreationInv, EnvVars
<1>1. ASSUME UNCHANGED creation PROVE CreationInv'
  BY <1>1 DEF creation, Parse
<1>2. ASSUME NEW v \in EnvVars, NEW text \in Texts, SetEnvVar(v, text) PROVE CreationInv'
  BY <1>2 DEF SetEnvVar
<1>3. CASE FirstCall
  BY <1>3 DEF FirstCall
<1>4. CASE ReadNumThreads
  <2>1. PICK text \in Copied :
          capacity' = IF Parse(text) = 0 THEN hardware ELSE Parse(text)
    BY <1>4 DEF ReadNumThreads
  <2>2. text \in Texts \cup {Unset} /\ (calm => text = env["OMP_NUM_THREADS"])
    BY <1>4, <2>1 DEF ReadNumThreads, Copied
  <2>3. Parse(text) \in 0..MaxInt
    BY <2>2, ParseIsInt
  <2>4. /\ creating = "threads" /\ creating' = "limit" /\ torn' = FALSE
        /\ seen' = env["OMP_THREAD_LIMIT"] /\ UNCHANGED <<env, hardware, calm>>
    BY <1>4 DEF ReadNumThreads
  <2>5. UNCHANGED Parse(env["OMP_NUM_THREADS"])
    BY <2>4 DEF Parse
  <2> QED
    BY <2>1, <2>2, <2>3, <2>4, <2>5
<1>5. CASE MakePool
  BY <1>5 DEF MakePool
<1>6. CASE InPool(Next)
  BY <1>1, <1>6 DEF InPool
<1>7. CASE \E p \in Clients : Fork(p) \/ StaleWait(p) \/ Protect(p)
  BY <1>1, <1>7 DEF Fork, StaleWait, Protect
<1>8. CASE UNCHANGED cpuVars
  BY <1>1, <1>8 DEF cpuVars
<1> QED
  BY <1>2, <1>3, <1>4, <1>5, <1>6, <1>7, <1>8 DEF CpuNext

\* The pool is made with a positive capacity.
LEMMA CapacityAtCreation ==
  ASSUME CreationInv, MakePool
  PROVE  /\ desired_capacity' > 0 /\ desired_capacity' \in Capacities
         /\ calm => desired_capacity' = WantedCapacity
<1> USE DEF CreationInv, EnvVars
<1>1. PICK text \in Copied :
        desired_capacity' = IF Limited(Parse(text)) = 0 THEN Fallback ELSE Limited(Parse(text))
  BY DEF MakePool
<1>2. creating = "limit" /\ capacity \in 0..MaxInt
  BY DEF MakePool
<1>3. text \in Texts \cup {Unset} /\ (calm => text = env["OMP_THREAD_LIMIT"])
  BY <1>1, <1>2 DEF Copied
<1>4. Parse(text) \in 0..MaxInt
  BY <1>3, ParseIsInt
<1>5. /\ MaxInt \in Nat /\ 0..MaxInt \subseteq Capacities
      /\ Fallback \in Capacities /\ Fallback \in Int /\ Fallback > 0
  BY CpuAssumption, PoolAssumption DEF CpuAssumption, PoolAssumption
<1>6. desired_capacity' > 0 /\ desired_capacity' \in Capacities
  BY <1>1, <1>2, <1>4, <1>5 DEF Limited
<1>7. ASSUME calm PROVE desired_capacity' = WantedCapacity
  BY <1>1, <1>2, <1>3, <1>4, <1>5, <1>7 DEF Limited, WantedCapacity
<1> QED
  BY <1>6, <1>7

\* The capacity is the one the environment asks for, unless it changes meanwhile.
THEOREM CapacityIsSound == CpuSpec => CapacityFromEnvironment
<1>1. CpuInit => CreationInv
  BY CpuAssumption DEF CpuAssumption, CpuInit, CreationInv
<1>2. CreationInv /\ [CpuNext]_cpuVars => CreationInv'
  BY CreationStep
<1>3. CreationInv /\ [CpuNext]_cpuVars =>
        [creating = "limit" /\ creating' = "done" =>
           desired_capacity' > 0 /\ (calm => desired_capacity' = WantedCapacity)]_cpuVars
  <2>1. ASSUME CreationInv, CpuNext, creating = "limit", creating' = "done" PROVE MakePool
    BY <2>1 DEF CpuNext, SetEnvVar, FirstCall, ReadNumThreads, InPool, HasPool, Fork,
                StaleWait, Protect, creation
  <2> QED
    BY <2>1, CapacityAtCreation
<1> QED
  BY <1>1, <1>2, <1>3, PTL DEF CpuSpec, CapacityFromEnvironment

-----------------------------------------------------------------------------
(* The pool across a fork *)

\* A worker that has seceded, and is not joined yet, leaves another in the list.
StaffLeft ==
  finished_workers # {} => workers # {} \/ please_shutdown \/ desired_capacity <= 0

\* All that the proofs about ArrowThreadPool say of its states.
PoolInv ==
  /\ IInv /\ ClosedInv /\ OwnerInv /\ StaffLeft
  /\ NobodySleepsOnLeave /\ WakeupsCoverQueue /\ SleepersHaveReason /\ EnoughWorkers

\* What a child needs to know of the State it has a copy of.
StaleInv ==
  /\ desired_capacity \in Capacities
  /\ please_shutdown \in BOOLEAN /\ quick_shutdown \in BOOLEAN
  /\ quick_shutdown => please_shutdown
  /\ status \in [Tasks -> {"new", "queued", "taken", "done", "cancelled", "rejected",
                           "dropped", "lost", "left"}]
  /\ stopped \subseteq Stoppable /\ budget \in 0..Budget
  /\ finished_workers # {} =>
       \/ \E w \in Workers : wpc[w] = "gone"
       \/ please_shutdown \/ desired_capacity <= 0 \/ Crippled

\* There is a sound pool in the parent once it is made, and in a child once it has
\* got its own.
CpuInv ==
  /\ creating # "done" => process = "parent" /\ Init
  /\ HasPool => PoolInv
  /\ process = "stale" => creating = "done" /\ StaleInv

\* A pool begins sound.
LEMMA InitPoolInv == Init => PoolInv
<1>1. Init => ClosedInv /\ OwnerInv /\ StaffLeft
  BY DEF Init, ClosedInv, OwnerInv, StaffLeft
<1>2. Init => NobodySleepsOnLeave /\ WakeupsCoverQueue /\ SleepersHaveReason
  BY DEF Init, NobodySleepsOnLeave, WakeupsCoverQueue, SleepersHaveReason, WorkersAt,
         CallersAt
<1>3. Init => EnoughWorkers
  BY FS_EmptySet DEF Init, EnoughWorkers
<1> QED
  BY <1>1, <1>2, <1>3, InitIInv DEF PoolInv

\* A worker secedes from a list that is longer than the capacity; a resize, or a
\* launch, joins those who have seceded before.
LEMMA StaffLeftStep == ASSUME IInv, StaffLeft, [Next]_vars PROVE StaffLeft'
<1> USE PoolAssumption DEF PoolAssumption, IInv, TypeOK, threads, queue, config, StaffLeft
<1>1. ASSUME finished_workers' \subseteq finished_workers, UNCHANGED <<workers, desired_capacity>>,
             please_shutdown => please_shutdown'
      PROVE  StaffLeft'
  BY <1>1
<1>2. ASSUME finished_workers' = {} PROVE StaffLeft'
  BY <1>2
<1>3. ASSUME NEW w \in Workers, Leave(w) PROVE StaffLeft'
  <2>1. CASE please_shutdown
    BY <1>3, <2>1 DEF Leave
  <2>2. CASE ~please_shutdown /\ desired_capacity > 0
    <3>1. w \in workers /\ Cardinality(workers) > 1
      BY <1>3, <2>2, WorkerCount DEF Leave, ShouldSecede, ThreadInv, WorkersAt, Employed
    <3>2. workers' \in SUBSET Workers /\ Cardinality(workers') > 0
      BY <1>3, <3>1, WorkerCount DEF Leave
    <3>3. workers' # {}
      BY <3>2, WorkerSets
    <3> QED
      BY <3>3
  <2>3. CASE desired_capacity <= 0
    BY <1>3, <2>3 DEF Leave
  <2> QED
    BY <2>1, <2>2, <2>3
<1>4. ASSUME NEW w \in Workers, WorkerStep(w) PROVE StaffLeft'
  BY <1>1, <1>3, <1>4 DEF WorkerStep, Acquire, TakeTask, CheckStop, EndTask, FinishTask,
                          Sleep, ExitThread
<1>5. ASSUME NEW p \in Threads, CallStep(p) PROVE StaffLeft'
  BY <1>1, <1>2, <1>5 DEF CallStep, SpawnPush, SpawnThrows, SpawnNotify, SetCapacityApply,
                          SetCapacityThrows, IdleRecheck, ShutDownRecheck, ShutDownReturn,
                          Restaff, RestaffFails
<1>6. CASE NewCall
  BY <1>1, <1>6 DEF NewCall, SpawnRejected, SpawnEnter, SetCapacityEnter, WaitForIdle, ShutDown
<1>7. CASE UNCHANGED vars \/ SpuriousWake \/ \E t \in Tasks : RequestStop(t) \/ ResetStop(t)
  BY <1>1, <1>7 DEF vars, SpuriousWake, RequestStop, ResetStop
<1> QED
  BY <1>4, <1>5, <1>6, <1>7 DEF Next

\* The steps of a pool keep it sound, in whichever process they are taken.
LEMMA PoolStep == ASSUME PoolInv, [Next]_vars PROVE PoolInv'
<1>1. IInv' /\ ClosedInv' /\ OwnerInv' /\ StaffLeft'
  BY IInvStep, ClosedStep, OwnerStep, StaffLeftStep DEF PoolInv
<1>2. NobodySleepsOnLeave' /\ SleepersHaveReason'
  BY NobodySleepsStep, SleepersStep DEF PoolInv
<1>3. WakeupsCoverQueue'
  BY <1>2, WakeupsStep DEF PoolInv
<1>4. EnoughWorkers'
  <2>1. CASE Crippled
    <3>1. Crippled'
      BY <2>1, CrippledStays DEF PoolInv
    <3> QED
      BY <3>1 DEF EnoughWorkers
  <2>2. CASE ~Crippled
    BY <2>2, EnoughStep DEF PoolInv
  <2> QED
    BY <2>1, <2>2
<1> QED
  BY <1>1, <1>2, <1>3, <1>4 DEF PoolInv

\* The threads of the parent are gone in the child, its lists are not.
LEMMA ForkStep == ASSUME PoolInv, NEW p \in Clients, Fork(p) PROVE StaleInv'
<1> USE DEF PoolInv, IInv, TypeOK, config, threads
<1>1. UNCHANGED <<desired_capacity, please_shutdown, quick_shutdown, status, stopped, budget,
                  finished_workers>>
  BY DEF Fork
<1>2. ASSUME NEW w \in workers PROVE (\E v \in Workers : wpc'[v] = "gone") \/ Crippled'
  <2>1. w \in Workers /\ wpc[w] \in Employed
    BY DEF ThreadInv, WorkersAt
  <2>2. wpc'[w] = IF wpc[w] = "failed" THEN "failed" ELSE "gone"
    BY <2>1 DEF Fork, Employed
  <2> QED
    BY <2>1, <2>2 DEF Crippled, WorkersAt
<1>3. quick_shutdown => please_shutdown
  BY DEF ShutdownInv
<1> QED
  BY <1>1, <1>2, <1>3 DEF StaleInv, StaffLeft

\* The fresh State is a sound pool: it has no thread, task or call.
LEMMA ProtectStep == ASSUME StaleInv, NEW p \in Clients, Protect(p) PROVE PoolInv'
<1> USE PoolAssumption DEF PoolAssumption, StaleInv
<1>1. /\ workers' = {} /\ finished_workers' = {} /\ pending_tasks' = << >>
      /\ owner' = None /\ tasks_queued_or_running' = 0 /\ arg' = None
      /\ desired_capacity' = IF please_shutdown THEN 0 ELSE desired_capacity
      /\ wpc' = [w \in Workers |-> "unborn"] /\ task' = [w \in Workers |-> None]
      /\ call' = [q \in Threads |-> "none"]
      /\ \A t \in Tasks : status'[t] \in {"new", "rejected", "left"}
      /\ UNCHANGED <<please_shutdown, quick_shutdown, stopped, budget>>
  BY DEF Protect, FreshState
<1>2. status' \in [Tasks -> {"new", "rejected", "left"}]
  BY DEF Protect
<1>3. desired_capacity' \in Capacities
  <2>1. 0 \in Capacities
    BY CpuAssumption DEF CpuAssumption
  <2> QED
    BY <1>1, <2>1
<1>4. /\ Holding' = {} /\ NeverCountedOut' = {} /\ Dropped' = {} /\ Lost' = {}
      /\ \A pcs : CallersAt(pcs)' # {} => "none" \in pcs
      /\ \A pcs : WorkersAt(pcs)' # {} => "unborn" \in pcs
  BY <1>1 DEF Holding, NeverCountedOut, Dropped, Lost, CallersAt, WorkersAt
<1>5. TypeOK'
  <2>1. wpc' \in [Workers -> {"unborn"}] /\ task' \in [Workers -> {None}]
    BY <1>1
  <2>2. call' \in [Threads -> {"none"}]
    BY <1>1
  <2>3. pending_tasks' \in Seq(Tasks)
    BY <1>1
  <2> QED
    BY <1>1, <1>2, <1>3, <2>1, <2>2, <2>3 DEF TypeOK
<1>6. MutexInv'
  BY <1>1 DEF MutexInv, Joining, Threads
<1>7. ThreadInv'
  BY <1>1, <1>4 DEF ThreadInv, Employed, Busy
<1>8. QueueInv'
  BY <1>1, <1>4 DEF QueueInv
<1>9. ShutdownInv' /\ ClosedInv'
  BY <1>1, <1>4 DEF ShutdownInv, ClosedInv, ShuttingDown, InShutdown
<1>10. LaunchInv' /\ CountExact'
  BY <1>1, <1>4, FS_EmptySet DEF LaunchInv, CountExact
<1>11. NobodySleepsOnLeave' /\ WakeupsCoverQueue' /\ SleepersHaveReason'
  BY <1>1, <1>4 DEF NobodySleepsOnLeave, WakeupsCoverQueue, SleepersHaveReason
<1>12. EnoughWorkers'
  BY <1>1, FS_EmptySet DEF EnoughWorkers
<1>13. OwnerInv' /\ StaffLeft'
  BY <1>1 DEF OwnerInv, StaffLeft
<1> QED
  BY <1>5, <1>6, <1>7, <1>8, <1>9, <1>10, <1>11, <1>12, <1>13 DEF PoolInv, IInv

\* Creation, the life of the pool, and a fork at any moment of it.
LEMMA CpuStep == ASSUME CreationInv, CpuInv, [CpuNext]_cpuVars PROVE CpuInv'
<1> USE DEF CpuInv, HasPool, creation
<1>1. ASSUME UNCHANGED <<vars, process>>, creating # "done", creating' # "done" PROVE CpuInv'
  BY <1>1 DEF vars, threads, queue, config, Init
<1>2. CASE (\E v \in EnvVars, text \in Texts : SetEnvVar(v, text)) \/ FirstCall \/ ReadNumThreads
  BY <1>1, <1>2 DEF SetEnvVar, FirstCall, ReadNumThreads
<1>3. CASE MakePool
  <2>1. desired_capacity' \in Capacities
    BY <1>3, CapacityAtCreation
  <2>2. Init'
    BY <1>3, <2>1 DEF MakePool, Init, threads, queue
  <2>3. PoolInv'
    BY <2>2, InitPoolInv, PTL
  <2> QED
    BY <1>3, <2>3 DEF MakePool
<1>4. CASE InPool(Next)
  BY <1>4, PoolStep DEF InPool
<1>5. ASSUME NEW p \in Clients, Fork(p) PROVE CpuInv'
  BY <1>5, ForkStep DEF Fork
<1>6. ASSUME NEW p \in Clients, StaleWait(p) PROVE CpuInv'
  <2>1. /\ process = "stale" /\ UNCHANGED <<process, creating, config, status, stopped, budget,
                                            finished_workers, wpc>>
    BY <1>6 DEF StaleWait, threads
  <2> QED
    BY <2>1 DEF StaleInv, Crippled, WorkersAt, config
<1>7. ASSUME NEW p \in Clients, Protect(p) PROVE CpuInv'
  BY <1>7, ProtectStep DEF Protect
<1>8. CASE UNCHANGED cpuVars
  <2>1. UNCHANGED vars /\ UNCHANGED <<creating, process>>
    BY <1>8 DEF cpuVars
  <2>2. PoolInv => PoolInv'
    BY <2>1, PoolStep
  <2>3. StaleInv => StaleInv'
    BY <2>1 DEF StaleInv, Crippled, WorkersAt, vars, config, threads
  <2>4. Init => Init'
    BY <2>1 DEF Init, vars, config, threads, queue
  <2> QED
    BY <2>1, <2>2, <2>3, <2>4
<1> QED
  BY <1>2, <1>3, <1>4, <1>5, <1>6, <1>7, <1>8 DEF CpuNext

\* In the parent and in a child, whenever there is a pool it is a sound one.
THEOREM CpuInvariance == CpuSpec => [](CreationInv /\ CpuInv)
<1>1. CpuInit => CreationInv
  BY CpuAssumption DEF CpuAssumption, CpuInit, CreationInv
<1>2. CpuInit => CpuInv
  BY DEF CpuInit, CpuInv, HasPool
<1>3. CreationInv /\ CpuInv /\ [CpuNext]_cpuVars => CreationInv' /\ CpuInv'
  BY CreationStep, CpuStep
<1> QED
  BY <1>1, <1>2, <1>3, PTL DEF CpuSpec

\* Whatever a fork cuts into, the pool of the child is in order: its counter,
\* staffing, wakeups and shutdown.
THEOREM ChildIsSound == CpuSpec => []ChildPoolSound
<1>1. CreationInv /\ CpuInv => ChildPoolSound
  <2> SUFFICES ASSUME CreationInv, CpuInv, process = "child" PROVE ChildPoolSound
    BY DEF ChildPoolSound
  <2>1. PoolInv
    BY DEF CpuInv, HasPool
  <2> QED
    BY <2>1, ClosedMeansQuiet, NobodyStuckHolds DEF PoolInv, IInv, ChildPoolSound
<1> QED
  BY <1>1, CpuInvariance, PTL

\* A child dies on its first call only after a shutdown or a failed launch, or with
\* a pool that may run nothing.
THEOREM ChildDiesRarely == CpuSpec => ChildSurvives
<1>1. ASSUME CpuInv, CpuNext, process = "stale", process' = "dead"
      PROVE  please_shutdown \/ desired_capacity <= 0 \/ Crippled
  <2>1. PICK p \in Clients : Protect(p)
    BY <1>1 DEF CpuNext, CpuInv, SetEnvVar, FirstCall, ReadNumThreads, MakePool, InPool, HasPool,
                Fork, StaleWait
  <2>2. OldStateTerminates
    BY <1>1, <2>1 DEF Protect
  <2> QED
    BY <1>1, <2>2 DEF OldStateTerminates, CpuInv, StaleInv
<1>2. CpuInv /\ [CpuNext]_cpuVars =>
        [process = "stale" /\ process' = "dead" =>
           please_shutdown \/ desired_capacity <= 0 \/ Crippled]_cpuVars
  BY <1>1
<1> QED
  BY <1>2, CpuInvariance, PTL DEF CpuSpec, ChildSurvives
=============================================================================
