----------------------- MODULE ArrowThreadPoolProofs -----------------------
(***************************************************************************)
(* Proofs about ArrowThreadPool, for any clients, workers, tasks and       *)
(* capacities.  IInv is the inductive invariant: next to TypeOK it says    *)
(* who is inside the mutex, which thread is in which list, and what the    *)
(* status of a task says about the queue and the workers.                  *)
(***************************************************************************)
EXTENDS ArrowThreadPool, FiniteSetTheorems, FunctionTheorems, SequenceTheorems, TLAPS

Joining == {"spawn_joining", "capacity_joining", "shutdown_joining"}
Employed == {"start", "head", "check", "running", "stopping", "relock", "waiting",
             "woken", "failed"}
Busy == {"check", "running", "stopping", "relock"}

\* Whoever joins threads or is at the head of its loop has the mutex, so there
\* is one such thread.  A worker calls the pool only from a task.
MutexInv ==
  /\ \A p \in Threads : call[p] \in Joining => owner = p
  /\ \A w \in Workers : wpc[w] = "head" => owner = w
  /\ \A w \in Workers :
       call[w] # "none" =>
         /\ wpc[w] \in {"running", "stopping"}
         /\ call[w] \in {"spawn_joining", "spawn_notifying", "capacity_joining"}
  /\ \A p \in Threads :
       /\ call[p] = "spawn_joining" => arg \in Tasks /\ status[arg] = "new"
       /\ call[p] = "capacity_joining" => arg \in Capacities
       /\ call[p] \in {"spawn_joining", "capacity_joining"} => ~please_shutdown

\* The two lists of threads and the local `task' against the worker's pc.
ThreadInv ==
  /\ workers = WorkersAt(Employed)
  /\ finished_workers = WorkersAt({"returned", "exited"})
  /\ Holding = WorkersAt(Busy)

\* The queue holds each queued task once, and no two workers hold one task.
QueueInv ==
  /\ \A i \in DOMAIN pending_tasks : status[pending_tasks[i]] = "queued"
  /\ \A i, j \in DOMAIN pending_tasks : pending_tasks[i] = pending_tasks[j] => i = j
  /\ \A t \in Tasks :
       status[t] = "queued" => \E i \in DOMAIN pending_tasks : pending_tasks[i] = t
  /\ \A v, w \in Holding : task[v] = task[w] => v = w
  /\ \A w \in Holding :
       status[task[w]] \in IF wpc[w] = "relock" THEN {"done", "cancelled"} ELSE {"taken"}
  /\ \A t \in Tasks : status[t] = "taken" => \E w \in Holding : task[w] = t

\* One thread shuts the pool down, joins when every worker has left, and drops
\* tasks at the very end.
ShutdownInv ==
  /\ quick_shutdown \/ ShuttingDown => please_shutdown
  /\ \A p, q \in CallersAt(InShutdown) : p = q
  /\ CallersAt({"shutdown_joining"}) # {} => workers = {}
  /\ Dropped # {} => please_shutdown /\ ~ShuttingDown

\* A task is lost only by a launch that leaves its mark in the list of workers.
LaunchInv == Lost # {} => Crippled

IInv ==
  TypeOK /\ MutexInv /\ ThreadInv /\ QueueInv /\ ShutdownInv /\ LaunchInv /\ CountExact

-----------------------------------------------------------------------------
(* Facts about sets of workers and about the queue *)

\* A set of workers is finite, and empty when it counts none.
LEMMA WorkerSets ==
  ASSUME NEW S \in SUBSET Workers
  PROVE  /\ IsFiniteSet(S) /\ Cardinality(S) \in Nat
         /\ Cardinality(S) = 0 <=> S = {}
BY PoolAssumption, FS_Subset, FS_CardinalityType, FS_EmptySet DEF PoolAssumption

\* collect_finish_workers_unlocked and launch_workers_unlocked(n) add n workers,
\* none of which was in the list.
LEMMA RestaffAdds ==
  ASSUME IInv, NEW n \in Nat, Restaff(n)
  PROVE  Cardinality(workers') = Cardinality(workers) + n
<1>1. PICK S \in SUBSET {w \in Workers : wpc[w] = "unborn" \/ w \in finished_workers} :
        Cardinality(S) = n /\ workers' = workers \cup S
  BY DEF Restaff
<1>2. workers \cap S = {}
  BY DEF IInv, ThreadInv, WorkersAt, Employed
<1>3. workers \in SUBSET Workers /\ S \in SUBSET Workers
  BY DEF IInv, TypeOK
<1>4. Cardinality(workers \cup S) = Cardinality(workers) + n - Cardinality({})
  BY <1>1, <1>2, <1>3, WorkerSets, FS_Union
<1> QED
  BY <1>1, <1>3, <1>4, FS_EmptySet, WorkerSets

\* A launch that throws adds at least one and at most n workers, one of them failed.
LEMMA RestaffFailsAdds ==
  ASSUME IInv, NEW n \in Nat, RestaffFails(n)
  PROVE  /\ Cardinality(workers') \in Cardinality(workers) + 1 .. Cardinality(workers) + n
         /\ Crippled'
<1>1. PICK S \in SUBSET {w \in Workers : wpc[w] = "unborn" \/ w \in finished_workers},
           g \in Workers :
        /\ g \in S /\ Cardinality(S) <= n
        /\ workers' = workers \cup S
        /\ wpc' = [w \in Workers |-> IF w = g THEN "failed"
                                     ELSE IF w \in S THEN "start"
                                     ELSE IF w \in finished_workers THEN "unborn"
                                     ELSE wpc[w]]
  BY DEF RestaffFails
<1>2. workers \cap S = {}
  BY DEF IInv, ThreadInv, WorkersAt, Employed
<1>3. workers \in SUBSET Workers /\ S \in SUBSET Workers
  BY DEF IInv, TypeOK
<1>4. Cardinality(workers \cup S) = Cardinality(workers) + Cardinality(S) - Cardinality({})
  BY <1>2, <1>3, WorkerSets, FS_Union
<1>5. Cardinality(S) # 0
  BY <1>1, <1>3, WorkerSets
<1>6. Crippled'
  BY <1>1 DEF Crippled, WorkersAt
<1> QED
  BY <1>1, <1>3, <1>4, <1>5, <1>6, FS_EmptySet, WorkerSets

\* The queue holds as many tasks as have the status "queued".
LEMMA QueueLength ==
  ASSUME IInv
  PROVE  Cardinality({t \in Tasks : status[t] = "queued"}) = Len(pending_tasks)
<1> DEFINE Queued == {t \in Tasks : status[t] = "queued"}
<1>1. Len(pending_tasks) \in Nat /\ DOMAIN pending_tasks = 1..Len(pending_tasks)
  BY DEF IInv, TypeOK
<1>2. pending_tasks \in [1..Len(pending_tasks) -> Queued]
  BY <1>1 DEF IInv, TypeOK, QueueInv
<1>3. pending_tasks \in Bijection(1..Len(pending_tasks), Queued)
  BY <1>1, <1>2, Fun_IsBij DEF IInv, QueueInv
<1> QED
  BY <1>1, <1>3, Fun_ExistsBij, FS_CountingElements

-----------------------------------------------------------------------------
(* The inductive invariant *)

\* The pool starts with no thread and no task.
LEMMA InitIInv == Init => IInv
<1> SUFFICES ASSUME Init PROVE IInv
  OBVIOUS
<1> USE PoolAssumption DEF PoolAssumption, Init, Threads, WorkersAt, CallersAt
<1>1. TypeOK
  <2>1. wpc \in [Workers -> {"unborn"}] /\ task \in [Workers -> {None}]
    OBVIOUS
  <2>2. call \in [Threads -> {"none"}] /\ status \in [Tasks -> {"new"}]
    OBVIOUS
  <2>3. pending_tasks \in Seq(Tasks) /\ budget \in 0..Budget
    OBVIOUS
  <2> QED
    BY <2>1, <2>2, <2>3 DEF TypeOK
<1>2. MutexInv
  BY DEF MutexInv, Joining
<1>3. ThreadInv
  BY DEF ThreadInv, Employed, Busy, Holding
<1>4. QueueInv
  BY DEF QueueInv, Holding
<1>5. ShutdownInv
  BY DEF ShutdownInv, ShuttingDown, InShutdown, Dropped
<1>6. Holding = {} /\ NeverCountedOut = {}
  BY DEF Holding, NeverCountedOut, Dropped, Lost
<1>7. CountExact
  BY <1>6, FS_EmptySet DEF CountExact
<1>8. LaunchInv
  BY DEF LaunchInv, Lost
<1> QED
  BY <1>1, <1>2, <1>3, <1>4, <1>5, <1>7, <1>8 DEF IInv

\* Typing: only FinishTask needs more, that the counter is positive while a
\* worker holds a task.
LEMMA TypeOKStep == ASSUME IInv, [Next]_vars PROVE TypeOK'
<1> USE PoolAssumption DEF PoolAssumption, threads, queue, config, Threads, IInv, TypeOK, MutexInv
<1>1. ASSUME NEW p \in Threads, NEW t \in Tasks, SpawnRejected(p, t) PROVE TypeOK'
  BY <1>1 DEF SpawnRejected, CanCall, MutexFree
<1>2. ASSUME NEW p \in Threads, NEW t \in Tasks, SpawnEnter(p, t) PROVE TypeOK'
  BY <1>2 DEF SpawnEnter, CanCall, MutexFree
<1>3. ASSUME NEW p \in Threads, SpawnPush(p) PROVE TypeOK'
  BY <1>3 DEF SpawnPush, CountIn, Restaff, AllJoinable
<1>4. ASSUME NEW p \in Threads, SpawnNotify(p) PROVE TypeOK'
  BY <1>4 DEF SpawnNotify, NotifyOne
<1>5. ASSUME NEW p \in Threads, NEW n \in Capacities, SetCapacityEnter(p, n) PROVE TypeOK'
  BY <1>5 DEF SetCapacityEnter, CanCall, MutexFree
<1>6. ASSUME NEW p \in Threads, SetCapacityApply(p) PROVE TypeOK'
  BY <1>6 DEF SetCapacityApply, Restaff, NotifyAll, AllJoinable
<1>7. ASSUME NEW p \in Clients, WaitForIdle(p) PROVE TypeOK'
  BY <1>7 DEF WaitForIdle, MutexFree
<1>8. ASSUME NEW p \in Threads, IdleRecheck(p) PROVE TypeOK'
  BY <1>8 DEF IdleRecheck, MutexFree
<1>9. ASSUME NEW p \in Clients, NEW wait \in WaitModes, ShutDown(p, wait) PROVE TypeOK'
  BY <1>9 DEF ShutDown, NotifyAll, AwaitWorkers, MutexFree
<1>10. ASSUME NEW p \in Threads, ShutDownRecheck(p) PROVE TypeOK'
  BY <1>10 DEF ShutDownRecheck, AwaitWorkers, MutexFree
<1>11. ASSUME NEW p \in Threads, ShutDownReturn(p) PROVE TypeOK'
  BY <1>11 DEF ShutDownReturn, Restaff, AllJoinable
<1>12. ASSUME NEW w \in Workers, Acquire(w) PROVE TypeOK'
  BY <1>12 DEF Acquire, MutexFree
<1>13. ASSUME NEW w \in Workers, TakeTask(w) PROVE TypeOK'
  BY <1>13 DEF TakeTask, MayTake
<1>14. ASSUME NEW w \in Workers, CheckStop(w) PROVE TypeOK'
  BY <1>14 DEF CheckStop
<1>15. ASSUME NEW w \in Workers, EndTask(w) PROVE TypeOK'
  BY <1>15 DEF EndTask
<1>16. ASSUME NEW w \in Workers, FinishTask(w) PROVE TypeOK'
  <2>1. tasks_queued_or_running' = tasks_queued_or_running - 1
    BY <1>16 DEF FinishTask, CountOut
  <2>2. w \in Holding /\ Holding \in SUBSET Workers
    BY <1>16 DEF FinishTask, ThreadInv, Holding, WorkersAt, Busy
  <2>3. Cardinality(Holding) > 0
    BY <2>2, WorkerSets
  <2>4. Cardinality(NeverCountedOut) \in Nat /\ Len(pending_tasks) \in Nat
    BY FS_Subset, FS_CardinalityType DEF NeverCountedOut, Dropped, Lost
  <2>5. tasks_queued_or_running > 0
    BY <2>3, <2>4, WorkerSets, <2>2 DEF CountExact
  <2> QED
    BY <1>16, <2>1, <2>5 DEF FinishTask, CountOut, Notified, MutexFree
<1>17. ASSUME NEW w \in Workers, Leave(w) PROVE TypeOK'
  BY <1>17 DEF Leave, Notified
<1>18. ASSUME NEW w \in Workers, Sleep(w) PROVE TypeOK'
  BY <1>18 DEF Sleep
<1>19. ASSUME NEW w \in Workers, ExitThread(w) PROVE TypeOK'
  BY <1>19 DEF ExitThread
<1>20. ASSUME NEW t \in Tasks, RequestStop(t) \/ ResetStop(t) PROVE TypeOK'
  BY <1>20 DEF RequestStop, ResetStop
<1>21. CASE SpuriousWake
  BY <1>21 DEF SpuriousWake
<1>22. CASE UNCHANGED vars
  BY <1>22 DEF vars
<1>23. ASSUME NEW p \in Threads, SpawnThrows(p) PROVE TypeOK'
  BY <1>23 DEF SpawnThrows, CountIn, RestaffFails, AllJoinable
<1>24. ASSUME NEW p \in Threads, SetCapacityThrows(p) PROVE TypeOK'
  BY <1>24 DEF SetCapacityThrows, RestaffFails, AllJoinable
<1>q. QED
  BY <1>1, <1>2, <1>3, <1>4, <1>5, <1>6, <1>7, <1>8, <1>9, <1>10, <1>11, <1>12, <1>13, <1>14, <1>15, <1>16, <1>17, <1>18, <1>19, <1>20, <1>21, <1>22, <1>23, <1>24 DEF Next, NewCall, CallStep, WorkerStep

\* A thread enters the mutex when it is free, and leaves its joining state with it.
LEMMA MutexStep == ASSUME IInv, [Next]_vars PROVE MutexInv'
<1> USE PoolAssumption DEF PoolAssumption, threads, queue, config, Threads, IInv, TypeOK, MutexInv, Joining
<1>1. ASSUME NEW p \in Threads, NEW t \in Tasks, SpawnRejected(p, t) PROVE MutexInv'
  BY <1>1 DEF SpawnRejected, CanCall, MutexFree
<1>2. ASSUME NEW p \in Threads, NEW t \in Tasks, SpawnEnter(p, t) PROVE MutexInv'
  BY <1>2 DEF SpawnEnter, CanCall, MutexFree
<1>3. ASSUME NEW p \in Threads, SpawnPush(p) PROVE MutexInv'
  BY <1>3 DEF SpawnPush, CountIn, Restaff, AllJoinable
<1>4. ASSUME NEW p \in Threads, SpawnNotify(p) PROVE MutexInv'
  <2>1. \A w \in Workers : wpc'[w] = wpc[w] \/ (wpc[w] = "waiting" /\ wpc'[w] = "woken")
    BY <1>4 DEF SpawnNotify, NotifyOne
  <2>2. /\ call' = [call EXCEPT ![p] = "none"] /\ call[p] = "spawn_notifying"
        /\ UNCHANGED <<owner, arg, status, please_shutdown>>
    BY <1>4 DEF SpawnNotify
  <2> QED
    BY <2>1, <2>2
<1>5. ASSUME NEW p \in Threads, NEW n \in Capacities, SetCapacityEnter(p, n) PROVE MutexInv'
  BY <1>5 DEF SetCapacityEnter, CanCall, MutexFree
<1>6. ASSUME NEW p \in Threads, SetCapacityApply(p) PROVE MutexInv'
  BY <1>6 DEF SetCapacityApply, Restaff, NotifyAll, AllJoinable
<1>7. ASSUME NEW p \in Clients, WaitForIdle(p) PROVE MutexInv'
  BY <1>7 DEF WaitForIdle, MutexFree
<1>8. ASSUME NEW p \in Threads, IdleRecheck(p) PROVE MutexInv'
  BY <1>8 DEF IdleRecheck, MutexFree
<1>9. ASSUME NEW p \in Clients, NEW wait \in WaitModes, ShutDown(p, wait) PROVE MutexInv'
  BY <1>9 DEF ShutDown, NotifyAll, AwaitWorkers, MutexFree
<1>10. ASSUME NEW p \in Threads, ShutDownRecheck(p) PROVE MutexInv'
  BY <1>10 DEF ShutDownRecheck, AwaitWorkers, MutexFree
<1>11. ASSUME NEW p \in Threads, ShutDownReturn(p) PROVE MutexInv'
  BY <1>11 DEF ShutDownReturn, Restaff, AllJoinable
<1>12. ASSUME NEW w \in Workers, Acquire(w) PROVE MutexInv'
  BY <1>12 DEF Acquire, MutexFree
<1>13. ASSUME NEW w \in Workers, TakeTask(w) PROVE MutexInv'
  BY <1>13 DEF TakeTask, MayTake
<1>14. ASSUME NEW w \in Workers, CheckStop(w) PROVE MutexInv'
  BY <1>14 DEF CheckStop
<1>15. ASSUME NEW w \in Workers, EndTask(w) PROVE MutexInv'
  BY <1>15 DEF EndTask, QueueInv, ThreadInv, WorkersAt, Busy
<1>16. ASSUME NEW w \in Workers, FinishTask(w) PROVE MutexInv'
  BY <1>16 DEF FinishTask, CountOut, Notified, MutexFree
<1>17. ASSUME NEW w \in Workers, Leave(w) PROVE MutexInv'
  BY <1>17 DEF Leave, Notified
<1>18. ASSUME NEW w \in Workers, Sleep(w) PROVE MutexInv'
  BY <1>18 DEF Sleep
<1>19. ASSUME NEW w \in Workers, ExitThread(w) PROVE MutexInv'
  BY <1>19 DEF ExitThread
<1>20. ASSUME NEW t \in Tasks, RequestStop(t) \/ ResetStop(t) PROVE MutexInv'
  BY <1>20 DEF RequestStop, ResetStop
<1>21. CASE SpuriousWake
  BY <1>21 DEF SpuriousWake
<1>22. CASE UNCHANGED vars
  BY <1>22 DEF vars
<1>23. ASSUME NEW p \in Threads, SpawnThrows(p) PROVE MutexInv'
  BY <1>23 DEF SpawnThrows, CountIn, RestaffFails, AllJoinable
<1>24. ASSUME NEW p \in Threads, SetCapacityThrows(p) PROVE MutexInv'
  BY <1>24 DEF SetCapacityThrows, RestaffFails, AllJoinable
<1>q. QED
  BY <1>1, <1>2, <1>3, <1>4, <1>5, <1>6, <1>7, <1>8, <1>9, <1>10, <1>11, <1>12, <1>13, <1>14, <1>15, <1>16, <1>17, <1>18, <1>19, <1>20, <1>21, <1>22, <1>23, <1>24 DEF Next, NewCall, CallStep, WorkerStep

\* Launch, secession, exit and join move a thread between the two lists.
LEMMA ThreadStep == ASSUME IInv, [Next]_vars PROVE ThreadInv'
<1> USE PoolAssumption DEF PoolAssumption, threads, queue, config, Threads, IInv, TypeOK, MutexInv, ThreadInv, WorkersAt, Holding, Employed, Busy
<1>1. ASSUME NEW p \in Threads, NEW t \in Tasks, SpawnRejected(p, t) PROVE ThreadInv'
  BY <1>1 DEF SpawnRejected, CanCall, MutexFree
<1>2. ASSUME NEW p \in Threads, NEW t \in Tasks, SpawnEnter(p, t) PROVE ThreadInv'
  BY <1>2 DEF SpawnEnter, CanCall, MutexFree
<1>3. ASSUME NEW p \in Threads, SpawnPush(p) PROVE ThreadInv'
  BY <1>3 DEF SpawnPush, CountIn, Restaff, AllJoinable
<1>4. ASSUME NEW p \in Threads, SpawnNotify(p) PROVE ThreadInv'
  BY <1>4 DEF SpawnNotify, NotifyOne
<1>5. ASSUME NEW p \in Threads, NEW n \in Capacities, SetCapacityEnter(p, n) PROVE ThreadInv'
  BY <1>5 DEF SetCapacityEnter, CanCall, MutexFree
<1>6. ASSUME NEW p \in Threads, SetCapacityApply(p) PROVE ThreadInv'
  BY <1>6 DEF SetCapacityApply, Restaff, NotifyAll, AllJoinable
<1>7. ASSUME NEW p \in Clients, WaitForIdle(p) PROVE ThreadInv'
  BY <1>7 DEF WaitForIdle, MutexFree
<1>8. ASSUME NEW p \in Threads, IdleRecheck(p) PROVE ThreadInv'
  BY <1>8 DEF IdleRecheck, MutexFree
<1>9. ASSUME NEW p \in Clients, NEW wait \in WaitModes, ShutDown(p, wait) PROVE ThreadInv'
  BY <1>9 DEF ShutDown, NotifyAll, AwaitWorkers, MutexFree
<1>10. ASSUME NEW p \in Threads, ShutDownRecheck(p) PROVE ThreadInv'
  BY <1>10 DEF ShutDownRecheck, AwaitWorkers, MutexFree
<1>11. ASSUME NEW p \in Threads, ShutDownReturn(p) PROVE ThreadInv'
  BY <1>11 DEF ShutDownReturn, Restaff, AllJoinable
<1>12. ASSUME NEW w \in Workers, Acquire(w) PROVE ThreadInv'
  BY <1>12 DEF Acquire, MutexFree
<1>13. ASSUME NEW w \in Workers, TakeTask(w) PROVE ThreadInv'
  BY <1>13 DEF TakeTask, MayTake
<1>14. ASSUME NEW w \in Workers, CheckStop(w) PROVE ThreadInv'
  BY <1>14 DEF CheckStop
<1>15. ASSUME NEW w \in Workers, EndTask(w) PROVE ThreadInv'
  BY <1>15 DEF EndTask
<1>16. ASSUME NEW w \in Workers, FinishTask(w) PROVE ThreadInv'
  BY <1>16 DEF FinishTask, CountOut, Notified, MutexFree
<1>17. ASSUME NEW w \in Workers, Leave(w) PROVE ThreadInv'
  BY <1>17 DEF Leave, Notified
<1>18. ASSUME NEW w \in Workers, Sleep(w) PROVE ThreadInv'
  BY <1>18 DEF Sleep
<1>19. ASSUME NEW w \in Workers, ExitThread(w) PROVE ThreadInv'
  BY <1>19 DEF ExitThread
<1>20. ASSUME NEW t \in Tasks, RequestStop(t) \/ ResetStop(t) PROVE ThreadInv'
  BY <1>20 DEF RequestStop, ResetStop
<1>21. CASE SpuriousWake
  BY <1>21 DEF SpuriousWake
<1>22. CASE UNCHANGED vars
  BY <1>22 DEF vars
<1>23. ASSUME NEW p \in Threads, SpawnThrows(p) PROVE ThreadInv'
  BY <1>23 DEF SpawnThrows, CountIn, RestaffFails, AllJoinable
<1>24. ASSUME NEW p \in Threads, SetCapacityThrows(p) PROVE ThreadInv'
  BY <1>24 DEF SetCapacityThrows, RestaffFails, AllJoinable
<1>q. QED
  BY <1>1, <1>2, <1>3, <1>4, <1>5, <1>6, <1>7, <1>8, <1>9, <1>10, <1>11, <1>12, <1>13, <1>14, <1>15, <1>16, <1>17, <1>18, <1>19, <1>20, <1>21, <1>22, <1>23, <1>24 DEF Next, NewCall, CallStep, WorkerStep

\* Tasks enter at the back of the queue, new, and leave at the front to one worker.
LEMMA QueueStep == ASSUME IInv, [Next]_vars PROVE QueueInv'
<1> USE PoolAssumption DEF PoolAssumption, threads, queue, config, Threads, IInv, TypeOK, MutexInv, ThreadInv, QueueInv, WorkersAt, Holding, Busy
<1>1. ASSUME NEW p \in Threads, NEW t \in Tasks, SpawnRejected(p, t) PROVE QueueInv'
  BY <1>1 DEF SpawnRejected, CanCall, MutexFree
<1>2. ASSUME NEW p \in Threads, NEW t \in Tasks, SpawnEnter(p, t) PROVE QueueInv'
  BY <1>2 DEF SpawnEnter, CanCall, MutexFree
<1>3. ASSUME NEW p \in Threads, SpawnPush(p) PROVE QueueInv'
  <2>1. arg \in Tasks /\ status[arg] = "new"
    BY <1>3 DEF SpawnPush
  <2>2. pending_tasks' = Append(pending_tasks, arg) /\ status' = [status EXCEPT ![arg] = "queued"]
    BY <1>3 DEF SpawnPush
  <2>3. /\ DOMAIN pending_tasks = 1..Len(pending_tasks)
        /\ DOMAIN pending_tasks' = 1..Len(pending_tasks) + 1
        /\ \A i \in DOMAIN pending_tasks : pending_tasks'[i] = pending_tasks[i]
        /\ pending_tasks'[Len(pending_tasks) + 1] = arg
    BY <2>1, <2>2
  <2>4. \A i \in DOMAIN pending_tasks : pending_tasks[i] \in Tasks /\ pending_tasks[i] # arg
    BY <2>1
  <2>5. Holding' = Holding /\ \A w \in Holding : task'[w] = task[w] /\ wpc'[w] = wpc[w]
    BY <1>3 DEF SpawnPush, Restaff
  <2>6. \A w \in Holding : task[w] \in Tasks /\ task[w] # arg
    BY <2>1
  <2>7. \A t \in Tasks : status'[t] = IF t = arg THEN "queued" ELSE status[t]
    BY <2>2
  <2> QED
    BY <2>1, <2>3, <2>4, <2>5, <2>6, <2>7
<1>4. ASSUME NEW p \in Threads, SpawnNotify(p) PROVE QueueInv'
  BY <1>4 DEF SpawnNotify, NotifyOne
<1>5. ASSUME NEW p \in Threads, NEW n \in Capacities, SetCapacityEnter(p, n) PROVE QueueInv'
  BY <1>5 DEF SetCapacityEnter, CanCall, MutexFree
<1>6. ASSUME NEW p \in Threads, SetCapacityApply(p) PROVE QueueInv'
  BY <1>6 DEF SetCapacityApply, Restaff, NotifyAll, AllJoinable
<1>7. ASSUME NEW p \in Clients, WaitForIdle(p) PROVE QueueInv'
  BY <1>7 DEF WaitForIdle, MutexFree
<1>8. ASSUME NEW p \in Threads, IdleRecheck(p) PROVE QueueInv'
  BY <1>8 DEF IdleRecheck, MutexFree
<1>9. ASSUME NEW p \in Clients, NEW wait \in WaitModes, ShutDown(p, wait) PROVE QueueInv'
  BY <1>9 DEF ShutDown, NotifyAll, AwaitWorkers, MutexFree
<1>10. ASSUME NEW p \in Threads, ShutDownRecheck(p) PROVE QueueInv'
  BY <1>10 DEF ShutDownRecheck, AwaitWorkers, MutexFree
<1>11. ASSUME NEW p \in Threads, ShutDownReturn(p) PROVE QueueInv'
  <2>1. pending_tasks' = << >> /\ UNCHANGED task
    BY <1>11 DEF ShutDownReturn
  <2>2. \A w \in Holding : wpc'[w] = wpc[w]
    BY <1>11 DEF ShutDownReturn, Restaff
  <2>3. \A t \in Tasks : status'[t] = IF status[t] = "queued" THEN "dropped" ELSE status[t]
    BY <1>11 DEF ShutDownReturn
  <2> QED
    BY <2>1, <2>2, <2>3
<1>12. ASSUME NEW w \in Workers, Acquire(w) PROVE QueueInv'
  BY <1>12 DEF Acquire, MutexFree
<1>13. ASSUME NEW w \in Workers, TakeTask(w) PROVE QueueInv'
  <2> DEFINE h == Head(pending_tasks)
  <2>1. /\ pending_tasks # << >> /\ pending_tasks' = Tail(pending_tasks)
        /\ status' = [status EXCEPT ![h] = "taken"]
        /\ task' = [task EXCEPT ![w] = h]
        /\ wpc[w] = "head" /\ wpc' = [wpc EXCEPT ![w] = "check"]
    BY <1>13 DEF TakeTask, MayTake
  <2>2. /\ DOMAIN pending_tasks = 1..Len(pending_tasks)
        /\ h = pending_tasks[1] /\ 1 \in DOMAIN pending_tasks /\ h \in Tasks
        /\ DOMAIN pending_tasks' = 1..Len(pending_tasks) - 1
        /\ \A i \in DOMAIN pending_tasks' :
             /\ pending_tasks'[i] = pending_tasks[i + 1]
             /\ i + 1 \in DOMAIN pending_tasks
             /\ pending_tasks[i + 1] \in Tasks
    BY <2>1
  <2>3. \A i \in DOMAIN pending_tasks : i # 1 => i - 1 \in DOMAIN pending_tasks'
    BY <2>2
  <2>4. status[h] = "queued" /\ \A v \in Holding : task[v] # h /\ task[v] \in Tasks
    BY <2>2
  <2>5. w \notin Holding /\ Holding' = Holding \cup {w}
    <3>1. wpc[w] \notin Busy /\ h # None
      BY <2>1, <2>2
    <3>2. \A v \in Workers : task'[v] = IF v = w THEN h ELSE task[v]
      BY <2>1
    <3> QED
      BY <3>1, <3>2
  <2>6. \A t \in Tasks : status'[t] = IF t = h THEN "taken" ELSE status[t]
    BY <2>1, <2>2
  <2>7. /\ \A v \in Holding : task'[v] = task[v] /\ wpc'[v] = wpc[v]
        /\ task'[w] = h /\ wpc'[w] = "check"
    BY <2>1, <2>5
  <2>8. \A i \in DOMAIN pending_tasks' : status'[pending_tasks'[i]] = "queued"
    BY <2>2, <2>6
  <2>9. \A i, j \in DOMAIN pending_tasks' : pending_tasks'[i] = pending_tasks'[j] => i = j
    BY <2>2
  <2>10. \A t \in Tasks : status'[t] = "queued" =>
           \E i \in DOMAIN pending_tasks' : pending_tasks'[i] = t
    <3>1. SUFFICES ASSUME NEW t \in Tasks, status'[t] = "queued"
                   PROVE  \E i \in DOMAIN pending_tasks' : pending_tasks'[i] = t
      OBVIOUS
    <3>2. PICK i \in DOMAIN pending_tasks : pending_tasks[i] = t
      BY <3>1, <2>6
    <3>3. i # 1
      BY <3>1, <3>2, <2>2, <2>6
    <3>4. i - 1 \in DOMAIN pending_tasks' /\ pending_tasks'[i - 1] = t
      BY <3>2, <3>3, <2>2, <2>3
    <3> QED
      BY <3>4
  <2>11. \A u, v \in Holding' : task'[u] = task'[v] => u = v
    BY <2>4, <2>5, <2>7
  <2>12. \A v \in Holding' : status'[task'[v]] \in
           IF wpc'[v] = "relock" THEN {"done", "cancelled"} ELSE {"taken"}
    BY <2>2, <2>4, <2>5, <2>6, <2>7
  <2>13. \A t \in Tasks : status'[t] = "taken" => \E v \in Holding' : task'[v] = t
    BY <2>5, <2>6, <2>7
  <2> QED
    BY <2>8, <2>9, <2>10, <2>11, <2>12, <2>13
<1>14. ASSUME NEW w \in Workers, CheckStop(w) PROVE QueueInv'
  BY <1>14 DEF CheckStop
<1>15. ASSUME NEW w \in Workers, EndTask(w) PROVE QueueInv'
  BY <1>15 DEF EndTask
<1>16. ASSUME NEW w \in Workers, FinishTask(w) PROVE QueueInv'
  BY <1>16 DEF FinishTask, CountOut, Notified, MutexFree
<1>17. ASSUME NEW w \in Workers, Leave(w) PROVE QueueInv'
  BY <1>17 DEF Leave, Notified
<1>18. ASSUME NEW w \in Workers, Sleep(w) PROVE QueueInv'
  BY <1>18 DEF Sleep
<1>19. ASSUME NEW w \in Workers, ExitThread(w) PROVE QueueInv'
  BY <1>19 DEF ExitThread
<1>20. ASSUME NEW t \in Tasks, RequestStop(t) \/ ResetStop(t) PROVE QueueInv'
  BY <1>20 DEF RequestStop, ResetStop
<1>21. CASE SpuriousWake
  BY <1>21 DEF SpuriousWake
<1>22. CASE UNCHANGED vars
  BY <1>22 DEF vars
<1>23. ASSUME NEW p \in Threads, SpawnThrows(p) PROVE QueueInv'
  <2>1. arg \in Tasks /\ status[arg] = "new"
    BY <1>23 DEF SpawnThrows
  <2>2. UNCHANGED <<pending_tasks, task>> /\ status' = [status EXCEPT ![arg] = "lost"]
    BY <1>23 DEF SpawnThrows
  <2>3. \A i \in DOMAIN pending_tasks : pending_tasks[i] \in Tasks /\ pending_tasks[i] # arg
    BY <2>1
  <2>4. Holding' = Holding /\ \A w \in Holding : wpc'[w] = wpc[w]
    BY <1>23 DEF SpawnThrows, RestaffFails
  <2>5. \A w \in Holding : task[w] \in Tasks /\ task[w] # arg
    BY <2>1
  <2>6. \A t \in Tasks : status'[t] = IF t = arg THEN "lost" ELSE status[t]
    BY <2>1, <2>2
  <2> QED
    BY <2>1, <2>2, <2>3, <2>4, <2>5, <2>6
<1>24. ASSUME NEW p \in Threads, SetCapacityThrows(p) PROVE QueueInv'
  BY <1>24 DEF SetCapacityThrows, RestaffFails, AllJoinable
<1>q. QED
  BY <1>1, <1>2, <1>3, <1>4, <1>5, <1>6, <1>7, <1>8, <1>9, <1>10, <1>11, <1>12, <1>13, <1>14, <1>15, <1>16, <1>17, <1>18, <1>19, <1>20, <1>21, <1>22, <1>23, <1>24 DEF Next, NewCall, CallStep, WorkerStep

\* please_shutdown is set once, by the thread that then shuts the pool down.
LEMMA ShutdownStep == ASSUME IInv, [Next]_vars PROVE ShutdownInv'
<1> USE PoolAssumption DEF PoolAssumption, threads, queue, config, Threads, IInv, TypeOK, MutexInv, Joining, ThreadInv, ShutdownInv, ShuttingDown, InShutdown, CallersAt, Dropped
<1>1. ASSUME NEW p \in Threads, NEW t \in Tasks, SpawnRejected(p, t) PROVE ShutdownInv'
  BY <1>1 DEF SpawnRejected, CanCall, MutexFree
<1>2. ASSUME NEW p \in Threads, NEW t \in Tasks, SpawnEnter(p, t) PROVE ShutdownInv'
  BY <1>2 DEF SpawnEnter, CanCall, MutexFree
<1>3. ASSUME NEW p \in Threads, SpawnPush(p) PROVE ShutdownInv'
  BY <1>3 DEF SpawnPush, CountIn, Restaff, AllJoinable
<1>4. ASSUME NEW p \in Threads, SpawnNotify(p) PROVE ShutdownInv'
  BY <1>4 DEF SpawnNotify, NotifyOne
<1>5. ASSUME NEW p \in Threads, NEW n \in Capacities, SetCapacityEnter(p, n) PROVE ShutdownInv'
  BY <1>5 DEF SetCapacityEnter, CanCall, MutexFree
<1>6. ASSUME NEW p \in Threads, SetCapacityApply(p) PROVE ShutdownInv'
  BY <1>6 DEF SetCapacityApply, Restaff, NotifyAll, AllJoinable
<1>7. ASSUME NEW p \in Clients, WaitForIdle(p) PROVE ShutdownInv'
  BY <1>7 DEF WaitForIdle, MutexFree
<1>8. ASSUME NEW p \in Threads, IdleRecheck(p) PROVE ShutdownInv'
  BY <1>8 DEF IdleRecheck, MutexFree
<1>9. ASSUME NEW p \in Clients, NEW wait \in WaitModes, ShutDown(p, wait) PROVE ShutdownInv'
  BY <1>9 DEF ShutDown, NotifyAll, AwaitWorkers, MutexFree
<1>10. ASSUME NEW p \in Threads, ShutDownRecheck(p) PROVE ShutdownInv'
  BY <1>10 DEF ShutDownRecheck, AwaitWorkers, MutexFree
<1>11. ASSUME NEW p \in Threads, ShutDownReturn(p) PROVE ShutdownInv'
  BY <1>11 DEF ShutDownReturn, Restaff, AllJoinable
<1>12. ASSUME NEW w \in Workers, Acquire(w) PROVE ShutdownInv'
  BY <1>12 DEF Acquire, MutexFree
<1>13. ASSUME NEW w \in Workers, TakeTask(w) PROVE ShutdownInv'
  BY <1>13 DEF TakeTask, MayTake
<1>14. ASSUME NEW w \in Workers, CheckStop(w) PROVE ShutdownInv'
  BY <1>14 DEF CheckStop
<1>15. ASSUME NEW w \in Workers, EndTask(w) PROVE ShutdownInv'
  BY <1>15 DEF EndTask, QueueInv, WorkersAt, Busy
<1>16. ASSUME NEW w \in Workers, FinishTask(w) PROVE ShutdownInv'
  <2>1. \A p \in Threads : call'[p] \in InShutdown \/ call[p] \in InShutdown => call'[p] = call[p]
    BY <1>16 DEF FinishTask, CountOut, Notified
  <2>2. UNCHANGED <<workers, quick_shutdown, please_shutdown, status>>
    BY <1>16 DEF FinishTask
  <2> QED
    BY <2>1, <2>2
<1>17. ASSUME NEW w \in Workers, Leave(w) PROVE ShutdownInv'
  <2>1. \A p \in Threads :
          /\ call'[p] \in InShutdown <=> call[p] \in InShutdown
          /\ call'[p] = "shutdown_joining" => call[p] = "shutdown_joining"
    BY <1>17 DEF Leave, Notified
  <2>2. workers' = workers \ {w} /\ UNCHANGED <<quick_shutdown, please_shutdown, status>>
    BY <1>17 DEF Leave
  <2> QED
    BY <2>1, <2>2
<1>18. ASSUME NEW w \in Workers, Sleep(w) PROVE ShutdownInv'
  BY <1>18 DEF Sleep
<1>19. ASSUME NEW w \in Workers, ExitThread(w) PROVE ShutdownInv'
  BY <1>19 DEF ExitThread
<1>20. ASSUME NEW t \in Tasks, RequestStop(t) \/ ResetStop(t) PROVE ShutdownInv'
  BY <1>20 DEF RequestStop, ResetStop
<1>21. CASE SpuriousWake
  BY <1>21 DEF SpuriousWake
<1>22. CASE UNCHANGED vars
  BY <1>22 DEF vars
<1>23. ASSUME NEW p \in Threads, SpawnThrows(p) PROVE ShutdownInv'
  BY <1>23 DEF SpawnThrows, CountIn, RestaffFails, AllJoinable
<1>24. ASSUME NEW p \in Threads, SetCapacityThrows(p) PROVE ShutdownInv'
  BY <1>24 DEF SetCapacityThrows, RestaffFails, AllJoinable
<1>q. QED
  BY <1>1, <1>2, <1>3, <1>4, <1>5, <1>6, <1>7, <1>8, <1>9, <1>10, <1>11, <1>12, <1>13, <1>14, <1>15, <1>16, <1>17, <1>18, <1>19, <1>20, <1>21, <1>22, <1>23, <1>24 DEF Next, NewCall, CallStep, WorkerStep

\* The counter: six actions move a task between the parts of the sum.
LEMMA CountStep == ASSUME IInv, [Next]_vars PROVE CountExact'
<1> USE PoolAssumption DEF PoolAssumption, IInv, TypeOK, threads, queue, config
<1>1. ASSUME UNCHANGED <<queue, Holding, NeverCountedOut>> PROVE CountExact'
  BY <1>1 DEF CountExact
<1>2. ASSUME UNCHANGED <<queue, task, status>> PROVE CountExact'
  <2>1. Holding' = Holding /\ NeverCountedOut' = NeverCountedOut
    BY <1>2 DEF Holding, NeverCountedOut, Dropped, Lost
  <2> QED
    BY <1>1, <1>2, <2>1
<1>3. ASSUME NEW p \in Threads, NEW t \in Tasks, SpawnRejected(p, t) PROVE CountExact'
  <2>1. UNCHANGED <<queue, task>> /\ NeverCountedOut' = NeverCountedOut
    BY <1>3 DEF SpawnRejected, NeverCountedOut, Dropped, Lost
  <2> QED
    BY <1>1, <2>1 DEF Holding
<1>4. ASSUME NEW p \in Threads, SpawnPush(p) PROVE CountExact'
  <2>1. arg \in Tasks /\ status[arg] = "new"
    BY <1>4 DEF SpawnPush, MutexInv
  <2>2. Holding' = Holding /\ NeverCountedOut' = NeverCountedOut
    BY <1>4, <2>1 DEF SpawnPush, Holding, NeverCountedOut, Dropped, Lost
  <2>3. Len(pending_tasks') = Len(pending_tasks) + 1
    BY <1>4, <2>1 DEF SpawnPush
  <2>4. tasks_queued_or_running' = tasks_queued_or_running + 1
    BY <1>4 DEF SpawnPush, CountIn
  <2>5. Cardinality(Holding) \in Nat /\ Cardinality(NeverCountedOut) \in Nat /\ Len(pending_tasks) \in Nat
    BY FS_Subset, FS_CardinalityType DEF NeverCountedOut, Dropped, Lost, Holding
  <2> QED
    BY <2>2, <2>3, <2>4, <2>5 DEF CountExact
<1>5. ASSUME NEW p \in Threads, ShutDownReturn(p) PROVE CountExact'
  <2> DEFINE Queued == {t \in Tasks : status[t] = "queued"}
  <2>1. NeverCountedOut' = NeverCountedOut \cup Queued /\ NeverCountedOut \cap Queued = {}
    BY <1>5 DEF ShutDownReturn, NeverCountedOut, Dropped, Lost
  <2>2. IsFiniteSet(NeverCountedOut) /\ IsFiniteSet(Queued)
    BY FS_Subset DEF NeverCountedOut, Dropped, Lost
  <2>3. Holding' = Holding /\ Len(pending_tasks') = 0
    BY <1>5 DEF ShutDownReturn, Holding
  <2>4. Cardinality(NeverCountedOut') = Cardinality(NeverCountedOut) + Len(pending_tasks)
    <3>1. Cardinality(NeverCountedOut') = Cardinality(NeverCountedOut) + Cardinality(Queued) - Cardinality({})
      BY <2>1, <2>2, FS_Union
    <3> QED
      BY <2>2, <3>1, QueueLength, FS_EmptySet, FS_CardinalityType
  <2>5. /\ Cardinality(Holding) \in Nat /\ Cardinality(NeverCountedOut) \in Nat
        /\ Len(pending_tasks) \in Nat
    BY FS_Subset, FS_CardinalityType DEF Holding, NeverCountedOut, Dropped, Lost
  <2> QED
    BY <1>5, <2>3, <2>4, <2>5 DEF CountExact, ShutDownReturn
<1>6. ASSUME NEW w \in Workers, TakeTask(w) PROVE CountExact'
  <2>1. Head(pending_tasks) \in Tasks /\ status[Head(pending_tasks)] = "queued"
    BY <1>6 DEF TakeTask, MayTake, QueueInv
  <2>2. w \notin Holding /\ Holding' = Holding \cup {w}
    BY <1>6, <2>1 DEF TakeTask, ThreadInv, WorkersAt, Busy, Holding
  <2>3. NeverCountedOut' = NeverCountedOut /\ Len(pending_tasks') = Len(pending_tasks) - 1
    BY <1>6, <2>1 DEF TakeTask, MayTake, NeverCountedOut, Dropped, Lost
  <2>4. Cardinality(Holding') = Cardinality(Holding) + 1 /\ Cardinality(Holding) \in Nat
    BY <2>2, WorkerSets, FS_AddElement DEF Holding
  <2>5. Cardinality(NeverCountedOut) \in Nat /\ Len(pending_tasks) \in Nat
    BY FS_Subset, FS_CardinalityType DEF NeverCountedOut, Dropped, Lost
  <2> QED
    BY <1>6, <2>3, <2>4, <2>5 DEF CountExact, TakeTask
<1>7. ASSUME NEW w \in Workers, EndTask(w) PROVE CountExact'
  <2>1. task[w] \in Tasks /\ status[task[w]] = "taken"
    BY <1>7 DEF EndTask, QueueInv, ThreadInv, WorkersAt, Busy, Holding
  <2>2. UNCHANGED <<queue, task>> /\ NeverCountedOut' = NeverCountedOut
    BY <1>7, <2>1 DEF EndTask, NeverCountedOut, Dropped, Lost
  <2> QED
    BY <1>1, <2>2 DEF Holding
<1>8. ASSUME NEW w \in Workers, FinishTask(w) PROVE CountExact'
  <2>1. w \in Holding /\ Holding' = Holding \ {w} /\ NeverCountedOut' = NeverCountedOut
    BY <1>8 DEF FinishTask, ThreadInv, WorkersAt, Busy, Holding, NeverCountedOut, Dropped, Lost
  <2>2. Cardinality(Holding \ {w}) = Cardinality(Holding) - 1 /\ Cardinality(Holding) \in Nat
    <3>1. Holding \in SUBSET Workers
      BY DEF Holding
    <3> QED
      BY <2>1, <3>1, WorkerSets, FS_RemoveElement
  <2>3. UNCHANGED pending_tasks /\ tasks_queued_or_running' = tasks_queued_or_running - 1
    BY <1>8 DEF FinishTask, CountOut
  <2>4. Cardinality(NeverCountedOut) \in Nat /\ Len(pending_tasks) \in Nat
    BY FS_Subset, FS_CardinalityType DEF NeverCountedOut, Dropped, Lost
  <2> QED
    BY <2>1, <2>2, <2>3, <2>4 DEF CountExact
<1>9. CASE UNCHANGED vars
  BY <1>2, <1>9 DEF vars
<1>14. ASSUME NEW p \in Threads, SpawnThrows(p) PROVE CountExact'
  <2>1. arg \in Tasks /\ status[arg] = "new"
    BY <1>14 DEF SpawnThrows, MutexInv
  <2>2. arg \notin NeverCountedOut /\ NeverCountedOut' = NeverCountedOut \cup {arg} /\ Holding' = Holding
    BY <1>14, <2>1 DEF SpawnThrows, Holding, NeverCountedOut, Dropped, Lost
  <2>3. IsFiniteSet(NeverCountedOut)
    BY FS_Subset DEF NeverCountedOut, Dropped, Lost
  <2>4. Cardinality(NeverCountedOut') = Cardinality(NeverCountedOut) + 1 /\ Cardinality(NeverCountedOut) \in Nat
    BY <2>2, <2>3, FS_AddElement, FS_CardinalityType
  <2>5. UNCHANGED pending_tasks /\ tasks_queued_or_running' = tasks_queued_or_running + 1
    BY <1>14 DEF SpawnThrows, CountIn
  <2>6. Cardinality(Holding) \in Nat /\ Len(pending_tasks) \in Nat
    BY FS_Subset, FS_CardinalityType DEF Holding
  <2> QED
    BY <2>2, <2>4, <2>5, <2>6 DEF CountExact
<1>10. ASSUME NEW p \in Threads, CallStep(p) PROVE CountExact'
  BY <1>2, <1>4, <1>5, <1>14, <1>10
     DEF CallStep, SpawnNotify, SetCapacityApply, SetCapacityThrows, IdleRecheck, ShutDownRecheck
<1>11. ASSUME NEW w \in Workers, WorkerStep(w) PROVE CountExact'
  BY <1>2, <1>6, <1>7, <1>8, <1>11 DEF WorkerStep, Acquire, CheckStop, Leave, Sleep, ExitThread
<1>12. CASE NewCall
  BY <1>2, <1>3, <1>12 DEF NewCall, SpawnEnter, SetCapacityEnter, WaitForIdle, ShutDown, Threads
<1>13. CASE SpuriousWake \/ \E t \in Tasks : RequestStop(t) \/ ResetStop(t)
  BY <1>2, <1>13 DEF SpuriousWake, RequestStop, ResetStop
<1> QED
  BY <1>9, <1>10, <1>11, <1>12, <1>13 DEF Next

\* A worker that failed to launch stays in the list for ever, and no other step
\* loses a task.
LEMMA CrippledStays ==
  ASSUME IInv, [Next]_vars
  PROVE  /\ Crippled => Crippled'
         /\ Lost' # Lost => Crippled'
<1> USE PoolAssumption DEF PoolAssumption, IInv, TypeOK, ThreadInv, MutexInv, threads, queue, config,
        Crippled, WorkersAt, Employed
<1>1. ASSUME \A w \in Workers : wpc[w] = "failed" => wpc'[w] = "failed",
             \A t \in Tasks : status'[t] = "lost" <=> status[t] = "lost"
      PROVE  (Crippled => Crippled') /\ Lost' = Lost
  BY <1>1 DEF Lost
<1>2. ASSUME NEW p \in Threads, CallStep(p) PROVE (Crippled => Crippled') /\ (Lost' # Lost => Crippled')
  <2>1. CASE SpawnThrows(p) \/ SetCapacityThrows(p)
    <3>1. Crippled'
      BY <2>1 DEF SpawnThrows, SetCapacityThrows, RestaffFails
    <3> QED
      BY <3>1
  <2>2. CASE SpawnPush(p)
    <3>1. arg \in Tasks /\ status[arg] = "new" /\ status' = [status EXCEPT ![arg] = "queued"]
      BY <2>2 DEF SpawnPush
    <3>2. \A w \in Workers : wpc[w] = "failed" => wpc'[w] = "failed"
      BY <2>2 DEF SpawnPush, Restaff
    <3>3. \A t \in Tasks : status'[t] = "lost" <=> status[t] = "lost"
      BY <3>1
    <3> QED
      BY <1>1, <3>2, <3>3
  <2>3. CASE SpawnNotify(p)
    BY <1>1, <2>3 DEF SpawnNotify, NotifyOne
  <2>4. CASE SetCapacityApply(p)
    BY <1>1, <2>4 DEF SetCapacityApply, Restaff, NotifyAll
  <2>5. CASE ShutDownReturn(p)
    BY <1>1, <2>5 DEF ShutDownReturn, Restaff
  <2> QED
    BY <1>1, <1>2, <2>1, <2>2, <2>3, <2>4, <2>5 DEF CallStep, IdleRecheck, ShutDownRecheck
<1>3. ASSUME NEW w \in Workers, WorkerStep(w) PROVE (Crippled => Crippled') /\ Lost' = Lost
  <2>1. ASSUME TakeTask(w) PROVE (Crippled => Crippled') /\ Lost' = Lost
    BY <1>1, <2>1 DEF TakeTask, MayTake, QueueInv
  <2>2. ASSUME EndTask(w) PROVE (Crippled => Crippled') /\ Lost' = Lost
    BY <1>1, <2>2 DEF EndTask, QueueInv, Holding, Busy
  <2> QED
    BY <1>1, <1>3, <2>1, <2>2
       DEF WorkerStep, Acquire, CheckStop, FinishTask, Leave, Sleep, ExitThread
<1>4. CASE NewCall
  <2>1. ASSUME NEW p \in Clients, NEW wait \in WaitModes, ShutDown(p, wait)
        PROVE  (Crippled => Crippled') /\ Lost' = Lost
    BY <1>1, <2>1 DEF ShutDown, NotifyAll
  <2> QED
    BY <1>1, <1>4, <2>1 DEF NewCall, SpawnRejected, SpawnEnter, SetCapacityEnter, WaitForIdle
<1>5. CASE SpuriousWake \/ \E t \in Tasks : RequestStop(t) \/ ResetStop(t)
  BY <1>1, <1>5 DEF SpuriousWake, RequestStop, ResetStop
<1>6. CASE UNCHANGED vars
  BY <1>1, <1>6 DEF vars
<1> QED
  BY <1>2, <1>3, <1>4, <1>5, <1>6 DEF Next

\* Every step of the pool preserves the inductive invariant.
LEMMA IInvStep == ASSUME IInv, [Next]_vars PROVE IInv'
<1>1. LaunchInv'
  BY CrippledStays DEF IInv, LaunchInv
<1> QED
  BY <1>1, TypeOKStep, MutexStep, ThreadStep, QueueStep, ShutdownStep, CountStep DEF IInv

\* IInv holds throughout.
THEOREM Invariance == Spec => []IInv
<1>1. IInv /\ [Next]_vars => IInv'
  BY IInvStep
<1> QED
  BY InitIInv, <1>1, PTL DEF Spec

\* The variables of the pool keep their types and its counter is never negative.
THEOREM TypeCorrect == Spec => []TypeOK
<1>1. IInv => TypeOK
  BY DEF IInv
<1> QED
  BY Invariance, <1>1, PTL

\* The counter that wait_for_idle and spawn_real rely on is exact.
THEOREM CounterExact == Spec => []CountExact
<1>1. IInv => CountExact
  BY DEF IInv
<1> QED
  BY Invariance, <1>1, PTL

-----------------------------------------------------------------------------
(* Wakeups: who has to act is not asleep *)

\* The number of workers is a natural number, one less when a worker leaves.
LEMMA WorkerCount ==
  ASSUME IInv
  PROVE  /\ Cardinality(workers) \in Nat
         /\ \A w \in workers : Cardinality(workers \ {w}) = Cardinality(workers) - 1
<1>1. workers \in SUBSET Workers
  BY DEF IInv, TypeOK
<1> QED
  BY <1>1, WorkerSets, FS_RemoveElement

\* A shrink or a shutdown wakes every worker, and a worker goes to sleep inside
\* the mutex, where it sees both.
LEMMA NobodySleepsStep ==
  ASSUME IInv, NobodySleepsOnLeave, [Next]_vars
  PROVE  NobodySleepsOnLeave'
<1> USE PoolAssumption DEF PoolAssumption, IInv, TypeOK, threads, queue, config,
        NobodySleepsOnLeave, ShouldSecede, WorkersAt
<1>1. ASSUME UNCHANGED <<workers, desired_capacity, please_shutdown>>,
             \A w \in Workers : wpc'[w] = "waiting" => wpc[w] = "waiting"
      PROVE  NobodySleepsOnLeave'
  BY <1>1
<1>2. ASSUME NEW p \in Threads, SpawnPush(p) PROVE NobodySleepsOnLeave'
  <2>1. \A w \in Workers : wpc'[w] = "waiting" => wpc[w] = "waiting"
    BY <1>2 DEF SpawnPush, Restaff
  <2>2. CASE MustGrow
    <3>1. Cardinality(workers') = Cardinality(workers) + 1
      BY <1>2, <2>2, RestaffAdds DEF SpawnPush
    <3>2. Cardinality(workers) < desired_capacity
      BY <2>2 DEF MustGrow
    <3>3. ~ShouldSecede'
      BY <1>2, <3>1, <3>2, WorkerCount DEF SpawnPush
    <3> QED
      BY <1>2, <2>1, <3>3 DEF SpawnPush
  <2>3. CASE ~MustGrow
    <3>1. Cardinality(workers') = Cardinality(workers)
      BY <1>2, <2>3, RestaffAdds, WorkerCount DEF SpawnPush
    <3> QED
      BY <1>2, <2>1, <3>1 DEF SpawnPush
  <2> QED
    BY <2>2, <2>3
<1>3. ASSUME NEW p \in Threads, SetCapacityApply(p) PROVE NobodySleepsOnLeave'
  <2>1. arg \in Int /\ please_shutdown = FALSE
    BY <1>3 DEF SetCapacityApply, MutexInv
  <2>2. CASE Required(arg) >= 0
    <3>1. Required(arg) \in Nat /\ Cardinality(workers) + Required(arg) <= arg
      BY <2>1, <2>2, WorkerCount DEF Required
    <3>2. Cardinality(workers') = Cardinality(workers) + Required(arg)
      BY <1>3, <2>2, <3>1, RestaffAdds DEF SetCapacityApply
    <3> QED
      BY <1>3, <2>1, <3>1, <3>2, WorkerCount DEF SetCapacityApply
  <2>3. CASE ~(Required(arg) >= 0)
    BY <1>3, <2>3 DEF SetCapacityApply, NotifyAll
  <2> QED
    BY <2>2, <2>3
<1>13. ASSUME NEW p \in Threads, SpawnThrows(p) PROVE NobodySleepsOnLeave'
  <2>1. \A w \in Workers : wpc'[w] = "waiting" => wpc[w] = "waiting"
    BY <1>13 DEF SpawnThrows, RestaffFails
  <2>2. Cardinality(workers') = Cardinality(workers) + 1 /\ Cardinality(workers) \in Nat
    BY <1>13, RestaffFailsAdds, WorkerCount DEF SpawnThrows
  <2>3. ~ShouldSecede'
    BY <1>13, <2>2 DEF SpawnThrows, MustGrow
  <2> QED
    BY <1>13, <2>1, <2>3 DEF SpawnThrows
<1>14. ASSUME NEW p \in Threads, SetCapacityThrows(p) PROVE NobodySleepsOnLeave'
  <2>1. arg \in Int /\ please_shutdown = FALSE /\ Required(arg) > 0
    BY <1>14 DEF SetCapacityThrows, MutexInv
  <2>2. Required(arg) \in Nat /\ Cardinality(workers) + Required(arg) <= arg
    BY <2>1, WorkerCount DEF Required
  <2>3. Cardinality(workers') \in Nat /\ Cardinality(workers') <= arg
    BY <1>14, <2>1, <2>2, RestaffFailsAdds, WorkerCount DEF SetCapacityThrows
  <2> QED
    BY <1>14, <2>1, <2>3 DEF SetCapacityThrows
<1>4. ASSUME NEW p \in Clients, NEW wait \in WaitModes, ShutDown(p, wait)
      PROVE  NobodySleepsOnLeave'
  BY <1>4 DEF ShutDown, NotifyAll
<1>5. ASSUME NEW p \in Threads, ShutDownReturn(p) PROVE NobodySleepsOnLeave'
  BY <1>5 DEF ShutDownReturn, Restaff, ShutdownInv, ShuttingDown, CallersAt, InShutdown
<1>6. ASSUME NEW w \in Workers, Leave(w) PROVE NobodySleepsOnLeave'
  BY <1>6, WorkerCount DEF Leave
<1>7. ASSUME NEW w \in Workers, Sleep(w) PROVE NobodySleepsOnLeave'
  BY <1>7 DEF Sleep
<1>8. CASE UNCHANGED vars
  BY <1>8 DEF vars
<1>9. ASSUME NEW p \in Threads, CallStep(p) PROVE NobodySleepsOnLeave'
  <2>1. ASSUME SpawnNotify(p) PROVE NobodySleepsOnLeave'
    BY <1>1, <2>1 DEF SpawnNotify, NotifyOne
  <2> QED
    BY <1>1, <1>2, <1>3, <1>5, <1>9, <1>13, <1>14, <2>1
       DEF CallStep, IdleRecheck, ShutDownRecheck
<1>10. ASSUME NEW w \in Workers, WorkerStep(w) PROVE NobodySleepsOnLeave'
  BY <1>1, <1>6, <1>7, <1>10
     DEF WorkerStep, Acquire, TakeTask, CheckStop, EndTask, FinishTask, ExitThread
<1>11. CASE NewCall
  BY <1>1, <1>4, <1>11 DEF NewCall, SpawnRejected, SpawnEnter, SetCapacityEnter, WaitForIdle
<1>12. CASE SpuriousWake \/ \E t \in Tasks : RequestStop(t) \/ ResetStop(t)
  BY <1>1, <1>12 DEF SpuriousWake, RequestStop, ResetStop
<1> QED
  BY <1>8, <1>9, <1>10, <1>11, <1>12 DEF Next

\* No worker sleeps through a shrink or a shutdown.
THEOREM NoSleepThroughLeave == Spec => []NobodySleepsOnLeave
<1>1. Init => NobodySleepsOnLeave
  BY DEF Init, NobodySleepsOnLeave, WorkersAt
<1>2. IInv /\ NobodySleepsOnLeave /\ [Next]_vars => NobodySleepsOnLeave'
  BY NobodySleepsStep
<1> QED
  BY <1>1, <1>2, Invariance, PTL DEF Spec

Notifiers == CallersAt({"spawn_notifying"})
Arriving == WorkersAt({"start", "woken", "head"})

\* The sets of threads that the wakeup invariant counts are finite.
LEMMA ThreadSets ==
  ASSUME NEW S \in SUBSET Threads
  PROVE  IsFiniteSet(S) /\ Cardinality(S) \in Nat
<1>1. IsFiniteSet(Threads)
  BY PoolAssumption, FS_Union DEF PoolAssumption, Threads
<1> QED
  BY <1>1, FS_Subset, FS_CardinalityType

\* A push brings a notification, a notification an arriving worker, and a worker
\* stops arriving when it takes a task, finds none, or leaves a surplus.
LEMMA WakeupsStep ==
  ASSUME IInv, NobodySleepsOnLeave, NobodySleepsOnLeave', WakeupsCoverQueue, [Next]_vars
  PROVE  WakeupsCoverQueue'
<1> USE PoolAssumption DEF PoolAssumption, threads, queue, config
<1> DEFINE Sleepers == WorkersAt({"waiting"})
<1>a. WakeupsCoverQueue <=>
        (~quick_shutdown /\ Sleepers # {} =>
           Len(pending_tasks) <= Cardinality(Notifiers) + Cardinality(Arriving))
  BY DEF WakeupsCoverQueue, Notifiers, Arriving
<1>b. WakeupsCoverQueue' <=>
        (~quick_shutdown' /\ Sleepers' # {} =>
           Len(pending_tasks') <= Cardinality(Notifiers') + Cardinality(Arriving'))
  BY DEF WakeupsCoverQueue, Notifiers, Arriving
<1>c. Len(pending_tasks) \in Nat /\ IsFiniteSet(Notifiers) /\ IsFiniteSet(Arriving)
      /\ Cardinality(Notifiers) \in Nat /\ Cardinality(Arriving) \in Nat
  <2>1. Notifiers \in SUBSET Threads /\ Arriving \in SUBSET Threads
    BY DEF Notifiers, CallersAt, Arriving, WorkersAt, Threads
  <2> QED
    BY <2>1, ThreadSets DEF IInv, TypeOK
<1>d. IsFiniteSet(Notifiers') /\ IsFiniteSet(Arriving')
      /\ Cardinality(Notifiers') \in Nat /\ Cardinality(Arriving') \in Nat
  <2>1. Notifiers' \in SUBSET Threads /\ Arriving' \in SUBSET Threads
    BY DEF Notifiers, CallersAt, Arriving, WorkersAt, Threads
  <2> QED
    BY <2>1, ThreadSets
<1>1. ASSUME UNCHANGED <<pending_tasks, quick_shutdown>>, Sleepers' \subseteq Sleepers,
             Notifiers \subseteq Notifiers', Arriving \subseteq Arriving'
      PROVE  WakeupsCoverQueue'
  <2>1. Cardinality(Notifiers) <= Cardinality(Notifiers')
        /\ Cardinality(Arriving) <= Cardinality(Arriving')
    BY <1>1, <1>d, FS_Subset
  <2> QED
    BY <1>a, <1>b, <1>c, <1>d, <1>1, <2>1
<1>2. ASSUME Sleepers' = {} PROVE WakeupsCoverQueue'
  BY <1>2, <1>b
<1>3. ASSUME NEW p \in Threads, SpawnPush(p) PROVE WakeupsCoverQueue'
  <2>1. p \notin Notifiers /\ Notifiers' = Notifiers \cup {p}
    BY <1>3 DEF SpawnPush, Notifiers, CallersAt, IInv, TypeOK
  <2>2. Sleepers' \subseteq Sleepers /\ Arriving \subseteq Arriving'
    BY <1>3 DEF SpawnPush, Restaff, Arriving, WorkersAt, IInv, ThreadInv
  <2>3. Cardinality(Notifiers') = Cardinality(Notifiers) + 1
        /\ Cardinality(Arriving) <= Cardinality(Arriving')
    BY <1>c, <1>d, <2>1, <2>2, FS_AddElement, FS_Subset
  <2>4. Len(pending_tasks') = Len(pending_tasks) + 1 /\ UNCHANGED quick_shutdown
    BY <1>3 DEF SpawnPush, IInv, TypeOK, MutexInv
  <2> QED
    BY <1>a, <1>b, <1>c, <1>d, <2>2, <2>3, <2>4
<1>4. ASSUME NEW p \in Threads, SpawnNotify(p) PROVE WakeupsCoverQueue'
  <2>1. CASE Sleepers = {}
    BY <1>2, <1>4, <2>1 DEF SpawnNotify, NotifyOne, WorkersAt
  <2>2. CASE Sleepers # {}
    <3>1. PICK w \in Workers : wpc[w] = "waiting" /\ wpc' = [wpc EXCEPT ![w] = "woken"]
      BY <1>4, <2>2 DEF SpawnNotify, NotifyOne, WorkersAt
    <3>2. w \notin Arriving /\ Arriving' = Arriving \cup {w} /\ Sleepers' \subseteq Sleepers
      BY <3>1 DEF Arriving, WorkersAt, IInv, TypeOK
    <3>3. p \in Notifiers /\ Notifiers' = Notifiers \ {p}
      BY <1>4 DEF SpawnNotify, Notifiers, CallersAt, IInv, TypeOK
    <3>4. Cardinality(Arriving') = Cardinality(Arriving) + 1
          /\ Cardinality(Notifiers') = Cardinality(Notifiers) - 1
      BY <1>c, <3>2, <3>3, FS_AddElement, FS_RemoveElement
    <3> QED
      BY <1>a, <1>b, <1>c, <1>d, <1>4, <2>2, <3>4 DEF SpawnNotify
  <2> QED
    BY <2>1, <2>2
<1>5. ASSUME NEW p \in Threads, SetCapacityApply(p) PROVE WakeupsCoverQueue'
  <2>1. CASE Required(arg) >= 0
    <3>1. Sleepers' \subseteq Sleepers /\ Arriving \subseteq Arriving'
      BY <1>5, <2>1 DEF SetCapacityApply, Restaff, Arriving, WorkersAt, IInv, ThreadInv
    <3>2. Notifiers' = Notifiers
      BY <1>5 DEF SetCapacityApply, Notifiers, CallersAt, IInv, TypeOK
    <3> QED
      BY <1>1, <1>5, <3>1, <3>2 DEF SetCapacityApply
  <2>2. CASE ~(Required(arg) >= 0)
    BY <1>2, <1>5, <2>2 DEF SetCapacityApply, NotifyAll, WorkersAt
  <2> QED
    BY <2>1, <2>2
<1>6. ASSUME NEW p \in Threads, ShutDownReturn(p) PROVE WakeupsCoverQueue'
  <2>1. Len(pending_tasks') = 0
    BY <1>6 DEF ShutDownReturn
  <2> QED
    BY <1>b, <1>d, <2>1
<1>7. ASSUME NEW w \in Workers, TakeTask(w) PROVE WakeupsCoverQueue'
  <2>1. w \in Arriving /\ Arriving' = Arriving \ {w} /\ Sleepers' \subseteq Sleepers
    BY <1>7 DEF TakeTask, Arriving, WorkersAt, IInv, TypeOK
  <2>2. Len(pending_tasks') = Len(pending_tasks) - 1 /\ UNCHANGED <<quick_shutdown, Notifiers>>
    BY <1>7 DEF TakeTask, MayTake, Notifiers, CallersAt, IInv, TypeOK
  <2>3. Cardinality(Arriving') = Cardinality(Arriving) - 1
    BY <1>c, <2>1, FS_RemoveElement
  <2> QED
    BY <1>a, <1>b, <1>c, <1>d, <2>1, <2>2, <2>3
<1>8. ASSUME NEW w \in Workers, Sleep(w) PROVE WakeupsCoverQueue'
  <2>1. pending_tasks' = << >>
    BY <1>8 DEF Sleep, MayTake, IInv, ShutdownInv
  <2>2. Len(pending_tasks') = 0
    BY <2>1
  <2> QED
    BY <1>b, <1>d, <2>2
<1>9. ASSUME NEW w \in Workers, Leave(w) PROVE WakeupsCoverQueue'
  <2>1. Sleepers = {}
    BY <1>9 DEF Leave, NobodySleepsOnLeave
  <2>2. Sleepers' \subseteq Sleepers
    BY <1>9 DEF Leave, WorkersAt
  <2> QED
    BY <1>2, <2>1, <2>2
<1>10. ASSUME NEW p \in Clients, NEW wait \in WaitModes, ShutDown(p, wait)
       PROVE  WakeupsCoverQueue'
  BY <1>2, <1>10 DEF ShutDown, NotifyAll, WorkersAt
<1>11. ASSUME UNCHANGED <<pending_tasks, quick_shutdown>>,
              \A w \in Workers :
                /\ wpc'[w] = "waiting" => wpc[w] = "waiting"
                /\ wpc[w] \in {"start", "woken", "head"} => wpc'[w] \in {"start", "woken", "head"},
              \A p \in Threads : call[p] = "spawn_notifying" => call'[p] = "spawn_notifying"
       PROVE  WakeupsCoverQueue'
  BY <1>1, <1>11 DEF Notifiers, CallersAt, Arriving, WorkersAt
<1> USE DEF IInv, TypeOK
<1>12. ASSUME NEW p \in Threads, CallStep(p) PROVE WakeupsCoverQueue'
  <2>1. ASSUME IdleRecheck(p) \/ ShutDownRecheck(p) PROVE WakeupsCoverQueue'
    BY <1>11, <2>1 DEF IdleRecheck, ShutDownRecheck, AwaitWorkers
  <2>2. ASSUME SpawnThrows(p) PROVE WakeupsCoverQueue'
    BY <1>11, <2>2 DEF SpawnThrows, RestaffFails, ThreadInv, WorkersAt
  <2>3. ASSUME SetCapacityThrows(p) PROVE WakeupsCoverQueue'
    BY <1>11, <2>3 DEF SetCapacityThrows, RestaffFails, ThreadInv, WorkersAt
  <2> QED
    BY <1>3, <1>4, <1>5, <1>6, <1>12, <2>1, <2>2, <2>3 DEF CallStep
<1>13. ASSUME NEW w \in Workers, WorkerStep(w) PROVE WakeupsCoverQueue'
  <2>1. ASSUME Acquire(w) \/ CheckStop(w) \/ EndTask(w) \/ ExitThread(w)
        PROVE  WakeupsCoverQueue'
    BY <1>11, <2>1 DEF Acquire, CheckStop, EndTask, ExitThread
  <2>2. ASSUME FinishTask(w) PROVE WakeupsCoverQueue'
    BY <1>11, <2>2 DEF FinishTask, CountOut, Notified
  <2> QED
    BY <1>7, <1>8, <1>9, <1>13, <2>1, <2>2 DEF WorkerStep
<1>14. CASE NewCall
  <2>1. ASSUME NEW p \in Threads, NEW t \in Tasks, SpawnRejected(p, t) \/ SpawnEnter(p, t)
        PROVE  WakeupsCoverQueue'
    BY <1>11, <2>1 DEF SpawnRejected, SpawnEnter, CanCall
  <2>2. ASSUME NEW p \in Threads, NEW n \in Capacities, SetCapacityEnter(p, n)
        PROVE  WakeupsCoverQueue'
    BY <1>11, <2>2 DEF SetCapacityEnter, CanCall
  <2>3. ASSUME NEW p \in Clients, WaitForIdle(p) PROVE WakeupsCoverQueue'
    BY <1>11, <2>3 DEF WaitForIdle
  <2> QED
    BY <1>10, <1>14, <2>1, <2>2, <2>3 DEF NewCall
<1>15. CASE SpuriousWake \/ \E t \in Tasks : RequestStop(t) \/ ResetStop(t)
  BY <1>11, <1>15 DEF SpuriousWake, RequestStop, ResetStop
<1>16. CASE UNCHANGED vars
  BY <1>11, <1>16 DEF vars
<1> QED
  BY <1>12, <1>13, <1>14, <1>15, <1>16 DEF Next

\* No wakeup is lost: a queued task never waits for a sleeping worker.
THEOREM NoLostWakeup == Spec => []WakeupsCoverQueue
<1>1. Init => WakeupsCoverQueue
  BY DEF Init, WakeupsCoverQueue, WorkersAt
<1>2. IInv /\ NobodySleepsOnLeave /\ NobodySleepsOnLeave' /\ WakeupsCoverQueue /\ [Next]_vars
        => WakeupsCoverQueue'
  BY WakeupsStep
<1> QED
  BY <1>1, <1>2, Invariance, NoSleepThroughLeave, PTL DEF Spec

\* A waiter is notified by the step that makes what it waits for true.
LEMMA SleepersStep ==
  ASSUME IInv, SleepersHaveReason, [Next]_vars
  PROVE  SleepersHaveReason'
<1> USE PoolAssumption DEF PoolAssumption, IInv, TypeOK, threads, queue, config,
        SleepersHaveReason, CallersAt, Threads
<1>1. ASSUME UNCHANGED tasks_queued_or_running,
             workers # {} => workers' # {},
             \A p \in Threads :
               /\ call'[p] = "idle_waiting" => call[p] = "idle_waiting"
               /\ call'[p] = "shutdown_waiting" => call[p] = "shutdown_waiting"
      PROVE  SleepersHaveReason'
  BY <1>1
<1>2. ASSUME NEW p \in Threads, SpawnPush(p) PROVE SleepersHaveReason'
  BY <1>2 DEF SpawnPush, CountIn, Restaff
<1>3. ASSUME NEW p \in Threads, SetCapacityApply(p) PROVE SleepersHaveReason'
  BY <1>1, <1>3 DEF SetCapacityApply, Restaff
<1>15. ASSUME NEW p \in Threads, SpawnThrows(p) PROVE SleepersHaveReason'
  BY <1>15 DEF SpawnThrows, CountIn, RestaffFails
<1>16. ASSUME NEW p \in Threads, SetCapacityThrows(p) PROVE SleepersHaveReason'
  BY <1>1, <1>16 DEF SetCapacityThrows, RestaffFails
<1>4. ASSUME NEW p \in Threads, IdleRecheck(p) PROVE SleepersHaveReason'
  BY <1>4 DEF IdleRecheck
<1>5. ASSUME NEW p \in Threads, AwaitWorkers(p), UNCHANGED <<threads, tasks_queued_or_running>>
      PROVE  SleepersHaveReason'
  BY <1>5 DEF AwaitWorkers
<1>6. ASSUME NEW p \in Threads, ShutDownReturn(p) PROVE SleepersHaveReason'
  BY <1>1, <1>6 DEF ShutDownReturn, Restaff
<1>7. ASSUME NEW w \in Workers, FinishTask(w) PROVE SleepersHaveReason'
  <2>1. tasks_queued_or_running' \in Nat
    BY TypeOKStep, <1>7 DEF Next, WorkerStep
  <2>2. UNCHANGED workers /\ tasks_queued_or_running' = tasks_queued_or_running - 1
    BY <1>7 DEF FinishTask, CountOut
  <2>3. \A p \in Threads : call'[p] = "shutdown_waiting" => call[p] = "shutdown_waiting"
    BY <1>7 DEF FinishTask, CountOut, Notified
  <2>4. tasks_queued_or_running' = 0 => \A p \in Threads : call'[p] # "idle_waiting"
    BY <1>7 DEF FinishTask, CountOut, Notified
  <2> QED
    BY <2>1, <2>2, <2>3, <2>4
<1>8. ASSUME NEW w \in Workers, Leave(w) PROVE SleepersHaveReason'
  <2>1. UNCHANGED tasks_queued_or_running
        /\ \A p \in Threads : call'[p] = "idle_waiting" => call[p] = "idle_waiting"
    BY <1>8 DEF Leave, Notified
  <2>2. \A p \in Threads : call'[p] # "shutdown_waiting"
    BY <1>8 DEF Leave, Notified, ShutdownInv, ShuttingDown, InShutdown
  <2> QED
    BY <2>1, <2>2
<1>9. ASSUME NEW p \in Clients, WaitForIdle(p) PROVE SleepersHaveReason'
  BY <1>9 DEF WaitForIdle
<1>10. ASSUME NEW p \in Threads, CallStep(p) PROVE SleepersHaveReason'
  <2>1. ASSUME SpawnNotify(p) PROVE SleepersHaveReason'
    BY <1>1, <2>1 DEF SpawnNotify
  <2> QED
    BY <1>2, <1>3, <1>4, <1>5, <1>6, <1>10, <1>15, <1>16, <2>1 DEF CallStep, ShutDownRecheck
<1>11. ASSUME NEW w \in Workers, WorkerStep(w) PROVE SleepersHaveReason'
  BY <1>1, <1>7, <1>8, <1>11
     DEF WorkerStep, Acquire, TakeTask, CheckStop, EndTask, Sleep, ExitThread
<1>12. CASE NewCall
  <2>1. ASSUME NEW p \in Threads, NEW t \in Tasks, SpawnRejected(p, t) \/ SpawnEnter(p, t)
        PROVE  SleepersHaveReason'
    BY <1>1, <2>1 DEF SpawnRejected, SpawnEnter
  <2>2. ASSUME NEW p \in Threads, NEW n \in Capacities, SetCapacityEnter(p, n)
        PROVE  SleepersHaveReason'
    BY <1>1, <2>2 DEF SetCapacityEnter
  <2>3. ASSUME NEW p \in Clients, NEW wait \in WaitModes, ShutDown(p, wait)
        PROVE  SleepersHaveReason'
    BY <1>5, <2>3 DEF ShutDown
  <2> QED
    BY <1>9, <1>12, <2>1, <2>2, <2>3 DEF NewCall
<1>13. CASE SpuriousWake \/ \E t \in Tasks : RequestStop(t) \/ ResetStop(t)
  BY <1>1, <1>13 DEF SpuriousWake, RequestStop, ResetStop
<1>14. CASE UNCHANGED vars
  BY <1>1, <1>14 DEF vars
<1> QED
  BY <1>10, <1>11, <1>12, <1>13, <1>14 DEF Next

\* wait_for_idle and shut_down never sleep past what they wait for.
THEOREM SleepersAreRight == Spec => []SleepersHaveReason
<1>1. Init => SleepersHaveReason
  BY DEF Init, SleepersHaveReason, CallersAt
<1>2. IInv /\ SleepersHaveReason /\ [Next]_vars => SleepersHaveReason'
  BY SleepersStep
<1> QED
  BY <1>1, <1>2, Invariance, PTL DEF Spec

-----------------------------------------------------------------------------
(* Staffing *)

\* While the pool is open and no launch has failed, its counter is what is queued
\* or held, and only the workers in the list hold tasks.
LEMMA CountBound ==
  ASSUME IInv, ~please_shutdown
  PROVE  /\ Crippled \/ tasks_queued_or_running <= Len(pending_tasks) + Cardinality(workers)
         /\ Len(pending_tasks) <= tasks_queued_or_running
         /\ Len(pending_tasks) \in Nat
<1>1. /\ Cardinality(NeverCountedOut) \in Nat
      /\ Crippled \/ Cardinality(NeverCountedOut) = 0
  <2>1. Crippled \/ NeverCountedOut = {}
    BY DEF IInv, ShutdownInv, LaunchInv, NeverCountedOut
  <2>2. IsFiniteSet(NeverCountedOut)
    BY PoolAssumption, FS_Subset DEF PoolAssumption, NeverCountedOut, Dropped, Lost
  <2> QED
    BY <2>1, <2>2, FS_EmptySet, FS_CardinalityType
<1>2. Holding \in SUBSET workers /\ workers \in SUBSET Workers
  BY DEF IInv, TypeOK, ThreadInv, WorkersAt, Busy, Employed
<1>3. Cardinality(Holding) <= Cardinality(workers) /\ Cardinality(Holding) \in Nat
      /\ Cardinality(workers) \in Nat
  BY <1>2, WorkerSets, FS_Subset
<1>4. Len(pending_tasks) \in Nat
  BY DEF IInv, TypeOK
<1> QED
  BY <1>1, <1>3, <1>4 DEF IInv, TypeOK, CountExact

\* Each action that adds a task or removes a worker keeps the balance.
LEMMA EnoughStep ==
  ASSUME IInv, ~Crippled, EnoughWorkers, [Next]_vars
  PROVE  EnoughWorkers'
<1> USE PoolAssumption DEF PoolAssumption, IInv, TypeOK, threads, queue, config,
        EnoughWorkers
<1>1. ASSUME UNCHANGED <<workers, desired_capacity, tasks_queued_or_running>>,
             please_shutdown => please_shutdown'
      PROVE  EnoughWorkers'
  BY <1>1
<1>2. ASSUME NEW p \in Threads, SpawnPush(p) PROVE EnoughWorkers'
  <2>1. tasks_queued_or_running' = tasks_queued_or_running + 1
        /\ UNCHANGED <<desired_capacity, please_shutdown>>
    BY <1>2 DEF SpawnPush, CountIn
  <2>2. CASE MustGrow
    <3>1. Cardinality(workers') = Cardinality(workers) + 1
      BY <1>2, <2>2, RestaffAdds DEF SpawnPush
    <3> QED
      BY <2>1, <3>1, WorkerCount
  <2>3. CASE ~MustGrow
    <3>1. Cardinality(workers') = Cardinality(workers)
      BY <1>2, <2>3, RestaffAdds, WorkerCount DEF SpawnPush
    <3> QED
      BY <2>1, <2>3, <3>1, WorkerCount DEF MustGrow
  <2> QED
    BY <2>2, <2>3
<1>3. ASSUME NEW p \in Threads, SetCapacityApply(p) PROVE EnoughWorkers'
  <2>1. /\ arg \in Int /\ ~please_shutdown
        /\ desired_capacity' = arg
        /\ UNCHANGED <<tasks_queued_or_running, please_shutdown>>
    BY <1>3 DEF SetCapacityApply, MutexInv
  <2>2. CASE Required(arg) >= 0
    <3>1. /\ Required(arg) \in Nat
          /\ Required(arg) = Len(pending_tasks) \/ Required(arg) = arg - Cardinality(workers)
      BY <2>1, <2>2, WorkerCount DEF Required
    <3>2. Cardinality(workers') = Cardinality(workers) + Required(arg)
      BY <1>3, <2>2, <3>1, RestaffAdds DEF SetCapacityApply
    <3> QED
      BY <2>1, <3>1, <3>2, WorkerCount, CountBound
  <2>3. CASE ~(Required(arg) >= 0)
    <3>1. Cardinality(workers) > arg
      BY <2>1, <2>3, WorkerCount, CountBound DEF Required
    <3> QED
      BY <1>3, <2>1, <2>3, <3>1, WorkerCount DEF SetCapacityApply
  <2> QED
    BY <2>2, <2>3
<1>4. ASSUME NEW p \in Threads, ShutDownReturn(p) PROVE EnoughWorkers'
  BY <1>4 DEF ShutDownReturn, ShutdownInv, ShuttingDown, CallersAt, InShutdown
<1>5. ASSUME NEW w \in Workers, FinishTask(w) PROVE EnoughWorkers'
  BY <1>5, WorkerCount DEF FinishTask, CountOut
<1>6. ASSUME NEW w \in Workers, Leave(w) PROVE EnoughWorkers'
  <2>1. w \in workers
    BY <1>6 DEF Leave, ThreadInv, WorkersAt, Employed
  <2>2. /\ Cardinality(workers) \in Nat
        /\ Cardinality(workers') = Cardinality(workers) - 1
    BY <1>6, <2>1, WorkerCount DEF Leave
  <2>3. please_shutdown \/ Cardinality(workers) > desired_capacity
    BY <1>6 DEF Leave, ShouldSecede
  <2>4. UNCHANGED <<please_shutdown, desired_capacity>> /\ desired_capacity \in Int
    BY <1>6 DEF Leave
  <2> QED
    BY <2>2, <2>3, <2>4
<1>7. ASSUME NEW p \in Threads, CallStep(p) PROVE EnoughWorkers'
  <2>1. ASSUME SpawnNotify(p) PROVE EnoughWorkers'
    BY <1>1, <2>1 DEF SpawnNotify
  <2>2. ASSUME SpawnThrows(p) \/ SetCapacityThrows(p) PROVE EnoughWorkers'
    <3>1. ASSUME SpawnThrows(p) PROVE Crippled'
      BY <3>1, RestaffFailsAdds DEF SpawnThrows
    <3>2. ASSUME SetCapacityThrows(p) PROVE Crippled'
      <4>1. arg \in Int /\ Required(arg) > 0 /\ RestaffFails(Required(arg))
        BY <3>2 DEF SetCapacityThrows, MutexInv
      <4>2. Required(arg) \in Nat
        BY <4>1, WorkerCount DEF Required
      <4> QED
        BY <4>1, <4>2, RestaffFailsAdds
    <3> QED
      BY <2>2, <3>1, <3>2
  <2> QED
    BY <1>1, <1>2, <1>3, <1>4, <1>7, <2>1, <2>2 DEF CallStep, IdleRecheck, ShutDownRecheck
<1>8. ASSUME NEW w \in Workers, WorkerStep(w) PROVE EnoughWorkers'
  BY <1>1, <1>5, <1>6, <1>8
     DEF WorkerStep, Acquire, TakeTask, CheckStop, EndTask, Sleep, ExitThread
<1>9. CASE NewCall
  BY <1>1, <1>9
     DEF NewCall, SpawnRejected, SpawnEnter, SetCapacityEnter, WaitForIdle, ShutDown
<1>10. CASE SpuriousWake \/ \E t \in Tasks : RequestStop(t) \/ ResetStop(t)
  BY <1>1, <1>10 DEF SpuriousWake, RequestStop, ResetStop
<1>11. CASE UNCHANGED vars
  BY <1>1, <1>11 DEF vars
<1> QED
  BY <1>7, <1>8, <1>9, <1>10, <1>11 DEF Next

\* An open pool has a worker for each task, up to its capacity.
THEOREM PoolIsStaffed == Spec => []EnoughWorkers
<1>1. Init => EnoughWorkers
  BY FS_EmptySet DEF Init, EnoughWorkers
<1>2. IInv /\ EnoughWorkers /\ [Next]_vars => EnoughWorkers'
  <2>1. ASSUME IInv, Crippled, [Next]_vars PROVE EnoughWorkers'
    BY <2>1, CrippledStays DEF EnoughWorkers
  <2> QED
    BY <2>1, EnoughStep
<1> QED
  BY <1>1, <1>2, Invariance, PTL DEF Spec

-----------------------------------------------------------------------------
(* Shutdown *)

\* While a waiting shutdown drains the queue, a worker is left to do it.
DrainInv ==
  please_shutdown /\ ~quick_shutdown /\ pending_tasks # << >> => workers # {}

\* The last worker of a pool of positive capacity has no reason to secede.
LEMMA DrainStep ==
  ASSUME IInv, EnoughWorkers, DrainInv, [Next]_vars, \A n \in Capacities : n > 0
  PROVE  DrainInv'
<1> USE PoolAssumption DEF PoolAssumption, IInv, TypeOK, threads, queue, config, DrainInv
<1>1. ASSUME UNCHANGED <<please_shutdown, quick_shutdown, pending_tasks>>,
             workers # {} => workers' # {}
      PROVE  DrainInv'
  BY <1>1
<1>2. ASSUME NEW p \in Threads, \/ SpawnPush(p) \/ SetCapacityApply(p)
                               \/ SpawnThrows(p) \/ SetCapacityThrows(p)
      PROVE  DrainInv'
  BY <1>2 DEF SpawnPush, SetCapacityApply, SpawnThrows, SetCapacityThrows, MutexInv
<1>3. ASSUME NEW p \in Clients, NEW wait \in WaitModes, ShutDown(p, wait) PROVE DrainInv'
  <2>1. pending_tasks # << >> => tasks_queued_or_running > 0
    BY <1>3, CountBound, EmptySeq DEF ShutDown
  <2>2. pending_tasks # << >> /\ ~Crippled => Cardinality(workers) > 0
    BY <1>3, <2>1, WorkerCount DEF ShutDown, EnoughWorkers
  <2>3. pending_tasks # << >> => workers # {}
    BY <2>2, WorkerSets DEF ThreadInv, Crippled, WorkersAt, Employed
  <2> QED
    BY <1>3, <2>3 DEF ShutDown
<1>4. ASSUME NEW p \in Threads, ShutDownReturn(p) PROVE DrainInv'
  BY <1>4 DEF ShutDownReturn
<1>5. ASSUME NEW w \in Workers, TakeTask(w) PROVE DrainInv'
  BY <1>5 DEF TakeTask, ThreadInv, WorkersAt, Employed
<1>6. ASSUME NEW w \in Workers, Leave(w) PROVE DrainInv'
  <2>1. CASE ShouldSecede
    <3>1. w \in workers /\ Cardinality(workers) > 1
      BY <1>6, <2>1, WorkerCount DEF Leave, ShouldSecede, ThreadInv, WorkersAt, Employed
    <3>2. Cardinality(workers') > 0
      BY <1>6, <3>1, WorkerCount DEF Leave
    <3>3. workers' \in SUBSET Workers
      BY <1>6 DEF Leave
    <3>4. workers' # {}
      BY <3>2, <3>3, WorkerSets
    <3> QED
      BY <3>4
  <2>2. CASE ~ShouldSecede
    BY <1>6, <2>2 DEF Leave, MayTake
  <2> QED
    BY <2>1, <2>2
<1>7. ASSUME NEW p \in Threads, CallStep(p) PROVE DrainInv'
  <2>1. ASSUME SpawnNotify(p) PROVE DrainInv'
    BY <1>1, <2>1 DEF SpawnNotify
  <2> QED
    BY <1>1, <1>2, <1>4, <1>7, <2>1 DEF CallStep, IdleRecheck, ShutDownRecheck
<1>8. ASSUME NEW w \in Workers, WorkerStep(w) PROVE DrainInv'
  BY <1>1, <1>5, <1>6, <1>8
     DEF WorkerStep, Acquire, CheckStop, EndTask, FinishTask, Sleep, ExitThread
<1>9. CASE NewCall
  BY <1>1, <1>3, <1>9 DEF NewCall, SpawnRejected, SpawnEnter, SetCapacityEnter, WaitForIdle
<1>10. CASE SpuriousWake \/ \E t \in Tasks : RequestStop(t) \/ ResetStop(t)
  BY <1>1, <1>10 DEF SpuriousWake, RequestStop, ResetStop
<1>11. CASE UNCHANGED vars
  BY <1>1, <1>11 DEF vars
<1> QED
  BY <1>7, <1>8, <1>9, <1>10, <1>11 DEF Next

\* With positive capacities the DCHECK_EQ of shut_down never fails.
THEOREM ShutDownNeverAborts ==
  ASSUME \A n \in Capacities : n > 0
  PROVE  Spec => []NoAbort
<1>1. Init => DrainInv
  BY DEF Init, DrainInv
<1>2. IInv /\ EnoughWorkers /\ DrainInv /\ [Next]_vars => DrainInv'
  BY DrainStep
<1>3. IInv /\ DrainInv => NoAbort
  BY DEF IInv, ShutdownInv, ShuttingDown, CallersAt, InShutdown, DrainInv, NoAbort
<1> QED
  BY <1>1, <1>2, <1>3, Invariance, PoolIsStaffed, PTL DEF Spec

\* Nothing is left of a pool that is closed.
ClosedInv ==
  please_shutdown /\ ~ShuttingDown =>
    /\ workers = {} /\ finished_workers = {}
    /\ pending_tasks = << >>

\* Nothing enters a pool that is being shut down.
LEMMA ClosedStep ==
  ASSUME IInv, ClosedInv, [Next]_vars
  PROVE  ClosedInv'
<1> USE PoolAssumption DEF PoolAssumption, IInv, TypeOK, threads, queue, config,
        ClosedInv, ShuttingDown, InShutdown, CallersAt, Threads
<1>1. ASSUME UNCHANGED <<please_shutdown, threads, pending_tasks>>,
             \A p \in Threads : call[p] \in InShutdown => call'[p] \in InShutdown
      PROVE  ClosedInv'
  BY <1>1
<1>2. ASSUME NEW p \in Threads, \/ SpawnPush(p) \/ SetCapacityApply(p)
                               \/ SpawnThrows(p) \/ SetCapacityThrows(p)
      PROVE  ClosedInv'
  BY <1>2 DEF SpawnPush, SetCapacityApply, SpawnThrows, SetCapacityThrows, MutexInv
<1>3. ASSUME NEW p \in Threads, AwaitWorkers(p) PROVE ClosedInv'
  BY <1>3 DEF AwaitWorkers
<1>4. ASSUME NEW p \in Threads, ShutDownReturn(p) PROVE ClosedInv'
  <2>1. workers = {} /\ pending_tasks' = << >> /\ finished_workers' = {}
    BY <1>4 DEF ShutDownReturn, ShutdownInv, Restaff
  <2>2. Cardinality(workers') = 0
    BY <1>4, <2>1, RestaffAdds, FS_EmptySet DEF ShutDownReturn
  <2>3. workers' \in SUBSET Workers
    BY <1>4 DEF ShutDownReturn, Restaff
  <2> QED
    BY <2>1, <2>2, <2>3, WorkerSets
<1>5. ASSUME NEW w \in Workers, w \in workers, UNCHANGED please_shutdown,
             \A p \in Threads : call[p] \in InShutdown => call'[p] \in InShutdown
      PROVE  ClosedInv'
  BY <1>5
<1>6. ASSUME NEW w \in Workers, WorkerStep(w) PROVE ClosedInv'
  <2>1. w \in workers \/ w \in finished_workers
    BY <1>6 DEF WorkerStep, Acquire, TakeTask, CheckStop, EndTask, FinishTask, Leave, Sleep,
                ExitThread, ThreadInv, WorkersAt, Employed
  <2>2. UNCHANGED please_shutdown
    BY <1>6 DEF WorkerStep, Acquire, TakeTask, CheckStop, EndTask, FinishTask, Leave, Sleep,
                ExitThread
  <2>3. \A p \in Threads : call[p] \in InShutdown => call'[p] \in InShutdown
    BY <1>6 DEF WorkerStep, Acquire, TakeTask, CheckStop, EndTask, FinishTask, CountOut,
                Leave, Notified, Sleep, ExitThread
  <2> QED
    BY <2>1, <2>2, <2>3
<1>7. ASSUME NEW p \in Threads, CallStep(p) PROVE ClosedInv'
  <2>1. ASSUME SpawnNotify(p) PROVE ClosedInv'
    BY <1>1, <2>1 DEF SpawnNotify
  <2>2. ASSUME IdleRecheck(p) PROVE ClosedInv'
    BY <1>1, <2>2 DEF IdleRecheck
  <2> QED
    BY <1>2, <1>3, <1>4, <1>7, <2>1, <2>2 DEF CallStep, ShutDownRecheck
<1>8. CASE NewCall
  <2>1. ASSUME NEW p \in Threads, NEW t \in Tasks, SpawnRejected(p, t) \/ SpawnEnter(p, t)
        PROVE  ClosedInv'
    BY <1>1, <2>1 DEF SpawnRejected, SpawnEnter, CanCall
  <2>2. ASSUME NEW p \in Threads, NEW n \in Capacities, SetCapacityEnter(p, n)
        PROVE  ClosedInv'
    BY <1>1, <2>2 DEF SetCapacityEnter, CanCall
  <2>3. ASSUME NEW p \in Clients, WaitForIdle(p) PROVE ClosedInv'
    BY <1>1, <2>3 DEF WaitForIdle
  <2> QED
    BY <1>3, <1>8, <2>1, <2>2, <2>3 DEF NewCall, ShutDown
<1>9. CASE SpuriousWake \/ \E t \in Tasks : RequestStop(t) \/ ResetStop(t)
  BY <1>1, <1>9 DEF SpuriousWake, RequestStop, ResetStop
<1>10. CASE UNCHANGED vars
  BY <1>1, <1>10 DEF vars
<1> QED
  BY <1>6, <1>7, <1>8, <1>9, <1>10 DEF Next

\* ClosedInv is what the threads and tasks of a closed pool come to.
LEMMA ClosedMeansQuiet == ASSUME IInv, ClosedInv PROVE ShutdownQuiesces
BY DEF IInv, TypeOK, ThreadInv, Employed, Busy, WorkersAt, QueueInv, ClosedInv,
       ShutdownQuiesces

\* Once shut_down has returned, the pool has no thread and no task.
THEOREM ClosedIsQuiet == Spec => []ShutdownQuiesces
<1>1. Init => ClosedInv
  BY DEF Init, ClosedInv
<1>2. IInv /\ ClosedInv /\ [Next]_vars => ClosedInv'
  BY ClosedStep
<1>3. IInv /\ ClosedInv => ShutdownQuiesces
  BY ClosedMeansQuiet
<1> QED
  BY <1>1, <1>2, <1>3, Invariance, PTL DEF Spec

-----------------------------------------------------------------------------
(* Deadlock *)

\* Between two steps only a thread that joins, or that is at the head of its loop, is
\* inside the mutex.
OwnerInv ==
  \/ owner = None
  \/ \E p \in Threads : owner = p /\ call[p] \in Joining
  \/ \E w \in Workers : owner = w /\ wpc[w] = "head"

\* A thread that has entered the mutex leaves it by a step of its own.
LEMMA OwnerStep == ASSUME IInv, OwnerInv, [Next]_vars PROVE OwnerInv'
<1> USE PoolAssumption DEF PoolAssumption, IInv, TypeOK, MutexInv, threads, queue, config,
        MutexFree, Threads, Joining
<1>1. ASSUME UNCHANGED owner,
             \A p \in Threads : call[p] \in Joining => call'[p] = call[p],
             \A w \in Workers : wpc[w] = "head" => wpc'[w] = "head"
      PROVE  OwnerInv'
  BY <1>1 DEF OwnerInv
<1>2. ASSUME owner' = None PROVE OwnerInv'
  BY <1>2 DEF OwnerInv
<1>3. ASSUME NEW p \in Threads, owner' = p, call'[p] \in Joining PROVE OwnerInv'
  BY <1>3 DEF OwnerInv
<1>4. ASSUME NEW w \in Workers, owner' = w, wpc'[w] = "head" PROVE OwnerInv'
  BY <1>4 DEF OwnerInv
<1>5. ASSUME NEW w \in Workers, WorkerStep(w) PROVE OwnerInv'
  <2>1. ASSUME Acquire(w) \/ FinishTask(w) PROVE OwnerInv'
    BY <1>4, <2>1 DEF Acquire, FinishTask
  <2>2. ASSUME TakeTask(w) \/ Leave(w) \/ Sleep(w) PROVE OwnerInv'
    BY <1>2, <2>2 DEF TakeTask, Leave, Sleep
  <2>3. ASSUME CheckStop(w) \/ EndTask(w) \/ ExitThread(w) PROVE OwnerInv'
    BY <1>1, <2>3 DEF CheckStop, EndTask, ExitThread
  <2> QED
    BY <1>5, <2>1, <2>2, <2>3 DEF WorkerStep
<1>6. ASSUME NEW p \in Threads, AwaitWorkers(p) PROVE OwnerInv'
  <2>1. CASE workers = {}
    BY <1>3, <1>6, <2>1 DEF AwaitWorkers
  <2>2. CASE workers # {}
    BY <1>2, <1>6, <2>2 DEF AwaitWorkers
  <2> QED
    BY <2>1, <2>2
<1>7. ASSUME NEW p \in Threads, CallStep(p) PROVE OwnerInv'
  <2>1. ASSUME SpawnNotify(p) PROVE OwnerInv'
    BY <1>1, <2>1 DEF SpawnNotify, NotifyOne
  <2>2. ASSUME IdleRecheck(p) PROVE OwnerInv'
    BY <1>1, <2>2 DEF IdleRecheck
  <2> QED
    BY <1>2, <1>6, <1>7, <2>1, <2>2
       DEF CallStep, SpawnPush, SpawnThrows, SetCapacityApply, SetCapacityThrows,
           ShutDownRecheck, ShutDownReturn
<1>8. CASE NewCall
  <2>1. ASSUME NEW p \in Threads, NEW t \in Tasks, SpawnRejected(p, t) PROVE OwnerInv'
    BY <1>1, <2>1 DEF SpawnRejected
  <2>2. ASSUME NEW p \in Threads, NEW t \in Tasks, SpawnEnter(p, t) PROVE OwnerInv'
    BY <1>3, <2>2 DEF SpawnEnter
  <2>3. ASSUME NEW p \in Threads, NEW n \in Capacities, SetCapacityEnter(p, n)
        PROVE  OwnerInv'
    BY <1>3, <2>3 DEF SetCapacityEnter
  <2>4. ASSUME NEW p \in Clients, WaitForIdle(p) PROVE OwnerInv'
    BY <1>1, <2>4 DEF WaitForIdle
  <2> QED
    BY <1>6, <1>8, <2>1, <2>2, <2>3, <2>4 DEF NewCall, ShutDown
<1>9. CASE SpuriousWake
  BY <1>1, <1>9 DEF SpuriousWake
<1>10. CASE UNCHANGED vars \/ \E t \in Tasks : RequestStop(t) \/ ResetStop(t)
  BY <1>1, <1>10 DEF vars, RequestStop, ResetStop
<1> QED
  BY <1>5, <1>7, <1>8, <1>9, <1>10 DEF Next

\* Whoever launches workers finds ids for them: no capacity exceeds their number.
LEMMA RoomToLaunch ==
  ASSUME IInv
  PROVE  /\ MustGrow => Room(1)
         /\ \A p \in Threads : call[p] = "capacity_joining" => Room(Required(arg))
<1> USE PoolAssumption DEF PoolAssumption
<1>1. /\ workers \in SUBSET Workers /\ IsFiniteSet(workers) /\ Cardinality(workers) \in Nat
      /\ IsFiniteSet(Workers) /\ Cardinality(Workers) \in Nat
  BY WorkerSets DEF IInv, TypeOK
<1>2. Cardinality(Workers \ workers) = Cardinality(Workers) - Cardinality(workers)
  <2>1. Workers \cap workers = workers
    BY <1>1
  <2>2. Cardinality(Workers \ workers)
          = Cardinality(Workers) - Cardinality(Workers \cap workers)
    BY <1>1, FS_Difference
  <2> QED
    BY <2>1, <2>2
<1>3. ASSUME MustGrow PROVE Room(1)
  <2>1. /\ desired_capacity \in Int /\ desired_capacity <= Cardinality(Workers)
        /\ Cardinality(workers) < desired_capacity
    BY <1>3 DEF IInv, TypeOK, MustGrow
  <2> QED
    BY <1>1, <1>2, <2>1 DEF Room
<1>4. ASSUME NEW p \in Threads, call[p] = "capacity_joining" PROVE Room(Required(arg))
  <2>1. arg \in Int /\ arg <= Cardinality(Workers)
    BY <1>4 DEF IInv, MutexInv
  <2>2. Len(pending_tasks) \in Nat
    BY DEF IInv, TypeOK
  <2> QED
    BY <1>1, <1>2, <2>1, <2>2 DEF Room, Required
<1> QED
  BY <1>3, <1>4

\* Where nobody can move, the mutex is free, nobody works or joins, and every worker of
\* the list sleeps or has failed.
LEMMA Stillness ==
  ASSUME IInv, OwnerInv, NoAbort,
         \A w \in Workers : ~WorkerCanMove(w),
         \A q \in Threads : ~CallerCanMove(q)
  PROVE  /\ MutexFree
         /\ \A p \in Threads : call[p] \in {"none", "idle_waiting", "shutdown_waiting"}
         /\ \A w \in Workers : wpc[w] \in {"unborn", "waiting", "exited", "failed"}
<1> USE DEF WorkerCanMove, CallerCanMove
<1>1. \A w \in Workers : wpc[w] \notin {"head", "check", "returned"}
  OBVIOUS
<1>2. AllJoinable
  BY <1>1 DEF AllJoinable, IInv, TypeOK, ThreadInv, WorkersAt
<1>3. \A p \in Threads : call[p] \notin Joining
  <2>1. \A p \in Threads :
          call[p] = "shutdown_joining" => quick_shutdown \/ pending_tasks = << >>
    BY DEF NoAbort, CallersAt
  <2> QED
    BY <1>2, <2>1, RoomToLaunch DEF Joining
<1>4. MutexFree
  BY <1>1, <1>3 DEF OwnerInv, MutexFree
<1>5. \A p \in Threads : call[p] \in {"none", "idle_waiting", "shutdown_waiting"}
  BY <1>3, <1>4 DEF IInv, TypeOK, Joining
<1>6. \A w \in Workers : call[w] = "none"
  BY <1>5 DEF IInv, MutexInv, Threads
<1>7. \A w \in Workers : wpc[w] \in {"unborn", "waiting", "exited", "failed"}
  BY <1>1, <1>4, <1>6 DEF IInv, TypeOK
<1> QED
  BY <1>4, <1>5, <1>7

\* A caller that waits there waits for what may never come.
LEMMA StillIsAllowed ==
  ASSUME IInv, ClosedInv, EnoughWorkers, NobodySleepsOnLeave, WakeupsCoverQueue,
         SleepersHaveReason, MutexFree, ~Crippled,
         \A q \in Threads : call[q] \in {"none", "idle_waiting", "shutdown_waiting"},
         \A w \in Workers : wpc[w] \in {"unborn", "waiting", "exited", "failed"},
         NEW p \in Threads, call[p] # "none"
  PROVE  call[p] = "idle_waiting" /\ (Dropped # {} \/ desired_capacity <= 0)
<1>1. workers = WorkersAt({"waiting"})
  BY DEF IInv, ThreadInv, WorkersAt, Employed, Crippled
<1>2. call[p] # "shutdown_waiting"
  <2> SUFFICES ASSUME call[p] = "shutdown_waiting" PROVE FALSE
    OBVIOUS
  <2>1. please_shutdown
    BY DEF IInv, ShutdownInv, ShuttingDown, InShutdown, CallersAt
  <2>2. workers # {}
    BY DEF SleepersHaveReason, CallersAt
  <2> QED
    BY <1>1, <2>1, <2>2 DEF NobodySleepsOnLeave
<1>3. call[p] = "idle_waiting"
  BY <1>2
<1>4. ASSUME Dropped = {} PROVE desired_capacity <= 0
  <2>1. tasks_queued_or_running > 0
    BY <1>3 DEF SleepersHaveReason, CallersAt
  <2>2. Len(pending_tasks) > 0
    <3>1. Holding = {}
      BY DEF IInv, ThreadInv, WorkersAt, Busy
    <3>2. NeverCountedOut = {}
      BY <1>4 DEF IInv, LaunchInv, NeverCountedOut
    <3>3. tasks_queued_or_running = Len(pending_tasks) + 0 + 0
      BY <3>1, <3>2, FS_EmptySet DEF IInv, CountExact
    <3> QED
      BY <2>1, <3>3 DEF IInv, TypeOK
  <2>3. workers = {}
    <3> SUFFICES ASSUME workers # {} PROVE FALSE
      OBVIOUS
    <3>1. ~quick_shutdown
      BY <1>1 DEF NobodySleepsOnLeave, IInv, ShutdownInv
    <3>2. CallersAt({"spawn_notifying"}) = {} /\ WorkersAt({"start", "woken", "head"}) = {}
      BY DEF CallersAt, WorkersAt
    <3>3. Len(pending_tasks) <= 0 + 0
      BY <1>1, <3>1, <3>2, FS_EmptySet DEF WakeupsCoverQueue
    <3> QED
      BY <2>2, <3>3 DEF IInv, TypeOK
  <2>4. ~please_shutdown
    <3> SUFFICES ASSUME please_shutdown PROVE FALSE
      OBVIOUS
    <3>1. pending_tasks # << >>
      BY <2>2
    <3>2. ShuttingDown
      BY <3>1 DEF ClosedInv
    <3>3. CallersAt({"shutdown_waiting"}) # {}
      BY <3>2 DEF ShuttingDown, InShutdown, CallersAt
    <3> QED
      BY <2>3, <3>3 DEF SleepersHaveReason
  <2>5. Cardinality(workers) = 0
    BY <2>3, FS_EmptySet
  <2> QED
    BY <2>1, <2>4, <2>5, PoolAssumption DEF EnoughWorkers, IInv, TypeOK, PoolAssumption
<1> QED
  BY <1>3, <1>4

\* What the invariants say of wakeups, staff and closed pools leaves no deadlock.
LEMMA NobodyStuckHolds ==
  ASSUME IInv, ClosedInv, OwnerInv, EnoughWorkers, NobodySleepsOnLeave, WakeupsCoverQueue,
         SleepersHaveReason
  PROVE  NobodyIsStuck
<1> SUFFICES ASSUME NoAbort,
                    \A w \in Workers : ~WorkerCanMove(w),
                    \A q \in Threads : ~CallerCanMove(q),
                    NEW p \in Threads, call[p] # "none"
             PROVE  \/ /\ call[p] = "idle_waiting"
                       /\ Dropped # {} \/ Crippled \/ desired_capacity <= 0
                    \/ call[p] = "shutdown_waiting" /\ Crippled
  BY DEF NobodyIsStuck
<1>1. /\ MutexFree
      /\ \A q \in Threads : call[q] \in {"none", "idle_waiting", "shutdown_waiting"}
      /\ \A w \in Workers : wpc[w] \in {"unborn", "waiting", "exited", "failed"}
  BY Stillness
<1>2. CASE Crippled
  BY <1>1, <1>2
<1>3. CASE ~Crippled
  BY <1>1, <1>3, StillIsAllowed
<1> QED
  BY <1>2, <1>3

\* The pool has no deadlock, whatever its clients, tasks and capacities.
THEOREM DeadlockFree == Spec => []NobodyIsStuck
<1>1. Init => ClosedInv /\ OwnerInv
  BY DEF Init, ClosedInv, OwnerInv
<1>2. IInv /\ ClosedInv /\ OwnerInv /\ [Next]_vars => ClosedInv' /\ OwnerInv'
  BY ClosedStep, OwnerStep
<1>3. /\ IInv /\ ClosedInv /\ OwnerInv /\ EnoughWorkers
      /\ NobodySleepsOnLeave /\ WakeupsCoverQueue /\ SleepersHaveReason
      => NobodyIsStuck
  BY NobodyStuckHolds
<1> QED
  BY <1>1, <1>2, <1>3, Invariance, PoolIsStaffed, NoSleepThroughLeave, NoLostWakeup,
     SleepersAreRight, PTL DEF Spec

-----------------------------------------------------------------------------
(* Stop requests *)

\* A task that will not run unless its source is reset: it waits in the queue, its worker
\* has not decided or has decided for the callback, or it is over.
Doomed(t) ==
  /\ t \in stopped
  /\ \/ status[t] \in {"queued", "dropped", "cancelled"}
     \/ \E w \in Holding : task[w] = t /\ wpc[w] \in {"check", "stopping"}

\* Nothing but a reset makes Doomed(t) false: only the worker that holds t could run it.
LEMMA DoomedStep ==
  ASSUME IInv, NEW t \in Tasks, Doomed(t), [Next]_vars, ~ResetStop(t)
  PROVE  Doomed(t)'
<1> USE PoolAssumption DEF PoolAssumption, IInv, TypeOK, threads, queue, config, Doomed, Holding
<1>1. ASSUME UNCHANGED <<status, task>>, t \in stopped',
             \A w \in Holding : wpc[w] \in {"check", "stopping"} => wpc'[w] = wpc[w]
      PROVE  Doomed(t)'
  BY <1>1
<1>2. ASSUME NEW w \in Workers, TakeTask(w) PROVE Doomed(t)'
  <2>1. /\ Head(pending_tasks) \in Tasks /\ status[Head(pending_tasks)] = "queued"
        /\ \A v \in Holding : wpc[v] \in Busy
    BY <1>2, EmptySeq DEF TakeTask, MayTake, QueueInv, ThreadInv, WorkersAt
  <2>2. w \notin Holding
    BY <1>2, <2>1 DEF TakeTask, Busy
  <2>3. CASE t = Head(pending_tasks)
    BY <1>2, <2>1, <2>3 DEF TakeTask
  <2>4. CASE t # Head(pending_tasks)
    BY <1>2, <2>2, <2>4 DEF TakeTask
  <2> QED
    BY <2>3, <2>4
<1>3. ASSUME NEW w \in Workers, CheckStop(w) PROVE Doomed(t)'
  BY <1>3 DEF CheckStop, IsStopRequested
<1>4. ASSUME NEW w \in Workers, EndTask(w) PROVE Doomed(t)'
  <2>1. w \in Holding /\ task[w] \in Tasks /\ status[task[w]] = "taken"
    BY <1>4 DEF EndTask, ThreadInv, QueueInv, WorkersAt, Busy
  <2>2. CASE task[w] = t
    <3>1. wpc[w] = "stopping"
      BY <1>4, <2>1, <2>2 DEF EndTask, QueueInv
    <3> QED
      BY <1>4, <2>2, <3>1 DEF EndTask
  <2>3. CASE task[w] # t
    BY <1>4, <2>1, <2>3 DEF EndTask
  <2> QED
    BY <2>2, <2>3
<1>5. ASSUME NEW w \in Workers, FinishTask(w) PROVE Doomed(t)'
  BY <1>5 DEF FinishTask
<1>6. ASSUME NEW w \in Workers, WorkerStep(w) PROVE Doomed(t)'
  BY <1>1, <1>2, <1>3, <1>4, <1>5, <1>6
     DEF WorkerStep, Acquire, Leave, Sleep, ExitThread
<1>7. /\ \A w \in Workers : wpc[w] = "unborn" \/ w \in finished_workers => w \notin Holding
      /\ \A w \in Holding : wpc[w] \in Busy
  BY DEF ThreadInv, WorkersAt, Busy
<1>8. ASSUME NEW p \in Threads, CallStep(p) PROVE Doomed(t)'
  <2>1. ASSUME SpawnPush(p) PROVE Doomed(t)'
    BY <1>7, <2>1 DEF SpawnPush, Restaff, MutexInv
  <2>2. ASSUME SpawnThrows(p) PROVE Doomed(t)'
    BY <1>7, <2>2 DEF SpawnThrows, RestaffFails, MutexInv
  <2>3. ASSUME SetCapacityApply(p) PROVE Doomed(t)'
    BY <1>7, <2>3 DEF SetCapacityApply, Restaff, NotifyAll
  <2>4. ASSUME SetCapacityThrows(p) PROVE Doomed(t)'
    BY <1>7, <2>4 DEF SetCapacityThrows, RestaffFails
  <2>5. ASSUME ShutDownReturn(p) PROVE Doomed(t)'
    BY <1>7, <2>5 DEF ShutDownReturn, Restaff
  <2>6. ASSUME SpawnNotify(p) PROVE Doomed(t)'
    BY <1>1, <2>6 DEF SpawnNotify, NotifyOne
  <2> QED
    BY <1>1, <1>8, <2>1, <2>2, <2>3, <2>4, <2>5, <2>6
       DEF CallStep, IdleRecheck, ShutDownRecheck
<1>9. CASE NewCall
  BY <1>1, <1>9
     DEF NewCall, SpawnRejected, SpawnEnter, SetCapacityEnter, WaitForIdle, ShutDown, NotifyAll
<1>10. CASE SpuriousWake \/ \E u \in Tasks : RequestStop(u) \/ ResetStop(u)
  <2>1. ASSUME NEW u \in Tasks, ResetStop(u) PROVE Doomed(t)'
    BY <1>1, <2>1 DEF ResetStop
  <2> QED
    BY <1>1, <1>10, <2>1 DEF SpuriousWake, RequestStop
<1>11. CASE UNCHANGED vars
  BY <1>1, <1>11 DEF vars
<1> QED
  BY <1>6, <1>8, <1>9, <1>10, <1>11 DEF Next

\* A stop requested of a queued task is in force until its source is reset.
StopsHold ==
  \A t \in Tasks :
    /\ [](t \in stopped /\ status[t] = "queued" => Doomed(t))
    /\ [](Doomed(t) => status[t] # "done")
    /\ [][Doomed(t) => Doomed(t)' \/ ResetStop(t)]_vars

\* No resize, shutdown, fall asleep or failing launch, and no other thread, lets a stopped
\* task run: only StopSource::reset does.
THEOREM StopIsHonoured == Spec => StopsHold
<1> SUFFICES ASSUME NEW t \in Tasks
             PROVE  Spec => /\ [](t \in stopped /\ status[t] = "queued" => Doomed(t))
                            /\ [](Doomed(t) => status[t] # "done")
                            /\ [][Doomed(t) => Doomed(t)' \/ ResetStop(t)]_vars
  BY DEF StopsHold
<1>1. t \in stopped /\ status[t] = "queued" => Doomed(t)
  BY DEF Doomed
<1>2. IInv /\ [Next]_vars => [Doomed(t) => Doomed(t)' \/ ResetStop(t)]_vars
  BY DoomedStep
<1>3. IInv /\ Doomed(t) => status[t] # "done"
  BY DEF IInv, TypeOK, QueueInv, Doomed
<1> QED
  BY <1>1, <1>2, <1>3, Invariance, PTL DEF Spec
=============================================================================
