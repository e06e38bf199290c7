-------------------------- MODULE WorkerPoolProofs --------------------------
(***************************************************************************)
(* Proofs about WorkerPool, for any clients, threads, tasks and sizes.     *)
(* IInv is the inductive invariant: what each worker holds, what each      *)
(* caller of commit is doing, what the status of a task says about the     *)
(* queue, and which threads are left while the pool is being destroyed.    *)
(***************************************************************************)
EXTENDS WorkerPool, FiniteSetTheorems, FunctionTheorems, SequenceTheorems, TLAPS

Alive == {"ready", "blocking", "waiting", "running", "counting"}
Busy == {"running", "counting"}

\* The workers: who is in m_pool, who holds m_lock, who has a task, who calls.
ThreadInv ==
  /\ pool = {w \in Workers : wpc[w] # "unborn"}
  /\ \A w \in Workers :
       /\ owner = w <=> wpc[w] = "blocking"
       /\ wpc[w] = "blocking" => task_que = << >>
       /\ task[w] # None <=> wpc[w] \in Busy
       /\ call[w] # "none" => wpc[w] = "running"

\* The tasks that have passed the test of m_run and are not in the queue yet.
CommitInv ==
  /\ \A p \in Threads : call[p] = "pushing" => arg[p] \in Tasks /\ status[arg[p]] = "checked"
  /\ \A p, q \in Threads :
       call[p] = "pushing" /\ call[q] = "pushing" /\ arg[p] = arg[q] => p = q
  /\ \A t \in Tasks :
       status[t] = "checked" => \E p \in Threads : call[p] = "pushing" /\ arg[p] = t

\* The queue holds each queued task once, and no two workers run one task.
QueueInv ==
  /\ \A i \in DOMAIN task_que : status[task_que[i]] = "queued"
  /\ \A i, j \in DOMAIN task_que : task_que[i] = task_que[j] => i = j
  /\ \A t \in Tasks : status[t] = "queued" => \E i \in DOMAIN task_que : task_que[i] = t
  /\ \A w \in Workers : wpc[w] = "running" => status[task[w]] = "running"
  /\ \A v, w \in Workers :
       wpc[v] = "running" /\ wpc[w] = "running" /\ task[v] = task[w] => v = w
  /\ \A t \in Tasks :
       status[t] = "running" => \E w \in Workers : wpc[w] = "running" /\ task[w] = t

\* The destructor: only the pool's own tasks still commit, and a worker leaves a
\* task in the queue only to another one.
LifeInv ==
  /\ run <=> life \in {"adding", "counting", "open"}
  /\ ~run => \A p \in Clients : call[p] = "none"
  /\ \A w \in Workers : wpc[w] = "exited" => ~run
  /\ task_que # << >> /\ (\E w \in Workers : wpc[w] = "exited") =>
       \E w \in Workers : wpc[w] \in Alive
  /\ life = "destroyed" => \A w \in pool : wpc[w] = "exited"

IInv == TypeOK /\ ThreadInv /\ CommitInv /\ QueueInv /\ LifeInv

-----------------------------------------------------------------------------
\* A set of threads is finite.
LEMMA ThreadSets ==
  ASSUME NEW S \in SUBSET Threads
  PROVE  IsFiniteSet(S) /\ Cardinality(S) \in Nat
<1>1. IsFiniteSet(Threads)
  BY WorkerPoolAssumption, FS_Union DEF WorkerPoolAssumption, Threads
<1> QED
  BY <1>1, FS_Subset, FS_CardinalityType

\* The pool starts with no thread and no task.
LEMMA InitIInv == Init => IInv
<1> SUFFICES ASSUME Init PROVE IInv
  OBVIOUS
<1> USE WorkerPoolAssumption DEF WorkerPoolAssumption, Init, Threads
<1>1. TypeOK
  <2>1. wpc \in [Workers -> {"unborn"}] /\ task \in [Workers -> {None}]
    OBVIOUS
  <2>2. call \in [Threads -> {"none"}] /\ arg \in [Threads -> {None}]
    OBVIOUS
  <2>3. status \in [Tasks -> {"new"}] /\ task_que \in Seq(Tasks) /\ budget \in 0..Budget
    OBVIOUS
  <2>4. Cardinality(pool) <= MaxThreads
    BY FS_EmptySet
  <2>5. wpc \in [Workers -> {"unborn", "ready", "blocking", "waiting", "running",
                             "counting", "exited"}]
        /\ task \in [Workers -> Tasks \cup {None}]
    BY <2>1
  <2>6. call \in [Threads -> {"none", "pushing", "notifying"}]
        /\ arg \in [Threads -> Tasks \cup {None}]
    BY <2>2
  <2>7. status \in [Tasks -> {"new", "refused", "checked", "queued", "running", "done"}]
    BY <2>3
  <2>8. run \in BOOLEAN /\ constructed \in BOOLEAN
    OBVIOUS
  <2>9. /\ pool \subseteq Workers /\ owner \in Workers \cup {None}
        /\ idl \in Int /\ left \in Nat
        /\ life \in {"adding", "counting", "open", "stopping", "joining", "destroyed"}
    OBVIOUS
  <2> QED
    BY <2>3, <2>4, <2>5, <2>6, <2>7, <2>8, <2>9 DEF TypeOK
<1>2. ThreadInv /\ CommitInv
  BY DEF ThreadInv, CommitInv, Busy
<1>3. QueueInv /\ LifeInv
  BY DEF QueueInv, LifeInv
<1> QED
  BY <1>1, <1>2, <1>3 DEF IInv

\* Typing: Launch adds a thread only while there is room.
LEMMA TypeOKStep == ASSUME IInv, [Next]_vars PROVE TypeOK'
<1> USE WorkerPoolAssumption DEF WorkerPoolAssumption, Threads, queue, calls, owners, LockFree, IInv, TypeOK, ThreadInv, CommitInv
<1>1. CASE Launch
  <2>1. PICK w \in Workers \ pool :
          pool' = pool \cup {w} /\ wpc' = [wpc EXCEPT ![w] = "ready"]
    BY <1>1 DEF Launch
  <2>2. Cardinality(pool') = Cardinality(pool) + 1 /\ Cardinality(pool) \in Nat
    BY <2>1, ThreadSets, FS_AddElement
  <2>3. Cardinality(pool') <= MaxThreads
    BY <1>1, <2>2 DEF Launch, HasRoom
  <2> QED
    BY <1>1, <2>1, <2>3 DEF Launch
<1>2. CASE CountThread
  BY <1>2 DEF CountThread
<1>3. CASE AddThreadReturns
  BY <1>3 DEF AddThreadReturns
<1>4. ASSUME NEW size \in Sizes, AddThread(size) PROVE TypeOK'
  BY <1>4 DEF AddThread
<1>5. ASSUME NEW p \in Threads, NEW t \in Tasks, CommitRefused(p, t) PROVE TypeOK'
  BY <1>5 DEF CommitRefused, MayCommit
<1>6. ASSUME NEW p \in Threads, NEW t \in Tasks, CommitChecked(p, t) PROVE TypeOK'
  BY <1>6 DEF CommitChecked, MayCommit
<1>7. ASSUME NEW p \in Threads, CommitPush(p) PROVE TypeOK'
  BY <1>7 DEF CommitPush
<1>8. ASSUME NEW p \in Threads, CommitNotify(p) PROVE TypeOK'
  BY <1>8 DEF CommitNotify, NotifyOne
<1>9. ASSUME NEW w \in Workers, Take(w) PROVE TypeOK'
  BY <1>9 DEF Take
<1>10. ASSUME NEW w \in Workers, Exit(w) PROVE TypeOK'
  BY <1>10 DEF Exit, MayExit
<1>11. ASSUME NEW w \in Workers, DecideToWait(w) PROVE TypeOK'
  BY <1>11 DEF DecideToWait
<1>12. ASSUME NEW w \in Workers, Block(w) PROVE TypeOK'
  BY <1>12 DEF Block
<1>13. ASSUME NEW w \in Workers, Finish(w) PROVE TypeOK'
  BY <1>13 DEF Finish
<1>14. ASSUME NEW w \in Workers, CountIdle(w) PROVE TypeOK'
  BY <1>14 DEF CountIdle, IdleAgain
<1>15. CASE StopRunning
  BY <1>15 DEF StopRunning
<1>16. CASE StopNotify
  BY <1>16 DEF StopNotify, NotifyAll
<1>17. CASE JoinAll
  BY <1>17 DEF JoinAll
<1>18. CASE SpuriousWake
  BY <1>18 DEF SpuriousWake
<1>19. CASE UNCHANGED vars
  BY <1>19 DEF vars
<1> QED
  BY <1>1, <1>2, <1>3, <1>4, <1>5, <1>6, <1>7, <1>8, <1>9, <1>10, <1>11, <1>12, <1>13, <1>14, <1>15, <1>16, <1>17, <1>18, <1>19 DEF Next, WorkerStep, CommitStep, OwnerStep

\* A worker changes only its own place, except when it is woken up.
LEMMA ThreadStep == ASSUME IInv, [Next]_vars PROVE ThreadInv'
<1> USE WorkerPoolAssumption DEF WorkerPoolAssumption, Threads, queue, calls, owners, LockFree, IInv, TypeOK, ThreadInv, Busy
<1>1. CASE Launch
  BY <1>1 DEF Launch
<1>2. CASE CountThread
  BY <1>2 DEF CountThread
<1>3. CASE AddThreadReturns
  BY <1>3 DEF AddThreadReturns
<1>4. ASSUME NEW size \in Sizes, AddThread(size) PROVE ThreadInv'
  BY <1>4 DEF AddThread
<1>5. ASSUME NEW p \in Threads, NEW t \in Tasks, CommitRefused(p, t) PROVE ThreadInv'
  BY <1>5 DEF CommitRefused, MayCommit
<1>6. ASSUME NEW p \in Threads, NEW t \in Tasks, CommitChecked(p, t) PROVE ThreadInv'
  BY <1>6 DEF CommitChecked, MayCommit
<1>7. ASSUME NEW p \in Threads, CommitPush(p) PROVE ThreadInv'
  BY <1>7 DEF CommitPush
<1>8. ASSUME NEW p \in Threads, CommitNotify(p) PROVE ThreadInv'
  BY <1>8 DEF CommitNotify, NotifyOne
<1>9. ASSUME NEW w \in Workers, Take(w) PROVE ThreadInv'
  BY <1>9 DEF Take
<1>10. ASSUME NEW w \in Workers, Exit(w) PROVE ThreadInv'
  BY <1>10 DEF Exit, MayExit
<1>11. ASSUME NEW w \in Workers, DecideToWait(w) PROVE ThreadInv'
  BY <1>11 DEF DecideToWait
<1>12. ASSUME NEW w \in Workers, Block(w) PROVE ThreadInv'
  BY <1>12 DEF Block
<1>13. ASSUME NEW w \in Workers, Finish(w) PROVE ThreadInv'
  BY <1>13 DEF Finish
<1>14. ASSUME NEW w \in Workers, CountIdle(w) PROVE ThreadInv'
  BY <1>14 DEF CountIdle, IdleAgain
<1>15. CASE StopRunning
  BY <1>15 DEF StopRunning
<1>16. CASE StopNotify
  BY <1>16 DEF StopNotify, NotifyAll
<1>17. CASE JoinAll
  BY <1>17 DEF JoinAll
<1>18. CASE SpuriousWake
  BY <1>18 DEF SpuriousWake
<1>19. CASE UNCHANGED vars
  BY <1>19 DEF vars
<1> QED
  BY <1>1, <1>2, <1>3, <1>4, <1>5, <1>6, <1>7, <1>8, <1>9, <1>10, <1>11, <1>12, <1>13, <1>14, <1>15, <1>16, <1>17, <1>18, <1>19 DEF Next, WorkerStep, CommitStep, OwnerStep

\* A task is checked, then queued, by one caller.
LEMMA CommitStepInv == ASSUME IInv, [Next]_vars PROVE CommitInv'
<1> USE WorkerPoolAssumption DEF WorkerPoolAssumption, Threads, queue, calls, owners, LockFree, IInv, TypeOK, ThreadInv, CommitInv, QueueInv
<1>1. CASE Launch
  BY <1>1 DEF Launch
<1>2. CASE CountThread
  BY <1>2 DEF CountThread
<1>3. CASE AddThreadReturns
  BY <1>3 DEF AddThreadReturns
<1>4. ASSUME NEW size \in Sizes, AddThread(size) PROVE CommitInv'
  BY <1>4 DEF AddThread
<1>5. ASSUME NEW p \in Threads, NEW t \in Tasks, CommitRefused(p, t) PROVE CommitInv'
  BY <1>5 DEF CommitRefused, MayCommit
<1>6. ASSUME NEW p \in Threads, NEW t \in Tasks, CommitChecked(p, t) PROVE CommitInv'
  BY <1>6 DEF CommitChecked, MayCommit
<1>7. ASSUME NEW p \in Threads, CommitPush(p) PROVE CommitInv'
  BY <1>7 DEF CommitPush
<1>8. ASSUME NEW p \in Threads, CommitNotify(p) PROVE CommitInv'
  BY <1>8 DEF CommitNotify, NotifyOne
<1>9. ASSUME NEW w \in Workers, Take(w) PROVE CommitInv'
  BY <1>9 DEF Take
<1>10. ASSUME NEW w \in Workers, Exit(w) PROVE CommitInv'
  BY <1>10 DEF Exit, MayExit
<1>11. ASSUME NEW w \in Workers, DecideToWait(w) PROVE CommitInv'
  BY <1>11 DEF DecideToWait
<1>12. ASSUME NEW w \in Workers, Block(w) PROVE CommitInv'
  BY <1>12 DEF Block
<1>13. ASSUME NEW w \in Workers, Finish(w) PROVE CommitInv'
  BY <1>13 DEF Finish
<1>14. ASSUME NEW w \in Workers, CountIdle(w) PROVE CommitInv'
  BY <1>14 DEF CountIdle, IdleAgain
<1>15. CASE StopRunning
  BY <1>15 DEF StopRunning
<1>16. CASE StopNotify
  BY <1>16 DEF StopNotify, NotifyAll
<1>17. CASE JoinAll
  BY <1>17 DEF JoinAll
<1>18. CASE SpuriousWake
  BY <1>18 DEF SpuriousWake
<1>19. CASE UNCHANGED vars
  BY <1>19 DEF vars
<1> QED
  BY <1>1, <1>2, <1>3, <1>4, <1>5, <1>6, <1>7, <1>8, <1>9, <1>10, <1>11, <1>12, <1>13, <1>14, <1>15, <1>16, <1>17, <1>18, <1>19 DEF Next, WorkerStep, CommitStep, OwnerStep

\* Tasks enter the queue at the back, checked, and leave at the front to one worker.
LEMMA QueueStep == ASSUME IInv, [Next]_vars PROVE QueueInv'
<1> USE WorkerPoolAssumption DEF WorkerPoolAssumption, Threads, queue, calls, owners, LockFree, IInv, TypeOK, ThreadInv, CommitInv, QueueInv, Busy
<1>1. CASE Launch
  BY <1>1 DEF Launch
<1>2. CASE CountThread
  BY <1>2 DEF CountThread
<1>3. CASE AddThreadReturns
  BY <1>3 DEF AddThreadReturns
<1>4. ASSUME NEW size \in Sizes, AddThread(size) PROVE QueueInv'
  BY <1>4 DEF AddThread
<1>5. ASSUME NEW p \in Threads, NEW t \in Tasks, CommitRefused(p, t) PROVE QueueInv'
  BY <1>5 DEF CommitRefused, MayCommit
<1>6. ASSUME NEW p \in Threads, NEW t \in Tasks, CommitChecked(p, t) PROVE QueueInv'
  BY <1>6 DEF CommitChecked, MayCommit
<1>7. ASSUME NEW p \in Threads, CommitPush(p) PROVE QueueInv'
  <2> DEFINE t == arg[p]
  <2>1. t \in Tasks /\ status[t] = "checked"
    BY <1>7 DEF CommitPush
  <2>2. task_que' = Append(task_que, t) /\ status' = [status EXCEPT ![t] = "queued"]
    BY <1>7 DEF CommitPush
  <2>3. /\ DOMAIN task_que = 1..Len(task_que)
        /\ DOMAIN task_que' = 1..Len(task_que) + 1
        /\ \A i \in DOMAIN task_que : task_que'[i] = task_que[i]
        /\ task_que'[Len(task_que) + 1] = t
    BY <2>1, <2>2
  <2>4. \A i \in DOMAIN task_que : task_que[i] \in Tasks /\ task_que[i] # t
    BY <2>1
  <2>5. UNCHANGED <<wpc, task>>
    BY <1>7 DEF CommitPush
  <2>6. \A u \in Tasks : status'[u] = IF u = t THEN "queued" ELSE status[u]
    BY <2>2
  <2> QED
    BY <2>1, <2>3, <2>4, <2>5, <2>6
<1>8. ASSUME NEW p \in Threads, CommitNotify(p) PROVE QueueInv'
  BY <1>8 DEF CommitNotify, NotifyOne
<1>9. ASSUME NEW w \in Workers, Take(w) PROVE QueueInv'
  <2> DEFINE h == Head(task_que)
  <2>1. /\ task_que # << >> /\ task_que' = Tail(task_que)
        /\ wpc[w] = "ready" /\ wpc' = [wpc EXCEPT ![w] = "running"]
        /\ task' = [task EXCEPT ![w] = h]
        /\ status' = [status EXCEPT ![h] = "running"]
    BY <1>9 DEF Take
  <2>2. /\ h = task_que[1] /\ h \in Tasks /\ status[h] = "queued"
        /\ DOMAIN task_que = 1..Len(task_que) /\ Len(task_que) \in Nat \ {0}
    BY <2>1
  <2>3. /\ DOMAIN task_que' = 1..(Len(task_que) - 1)
        /\ \A i \in DOMAIN task_que' : task_que'[i] = task_que[i + 1]
    BY <2>1, <2>2
  <2>4. \A i \in DOMAIN task_que' : task_que'[i] \in Tasks /\ task_que'[i] # h
    BY <2>2, <2>3
  <2>5. \A u \in Tasks : status'[u] = IF u = h THEN "running" ELSE status[u]
    BY <2>1
  <2>6. \A u \in Tasks : status[u] = "queued" /\ u # h => \E i \in DOMAIN task_que' : task_que'[i] = u
    <3> SUFFICES ASSUME NEW u \in Tasks, status[u] = "queued", u # h
                 PROVE  \E i \in DOMAIN task_que' : task_que'[i] = u
      OBVIOUS
    <3>1. PICK j \in DOMAIN task_que : task_que[j] = u
      OBVIOUS
    <3>2. j # 1 /\ j - 1 \in DOMAIN task_que'
      BY <2>2, <2>3, <3>1
    <3> QED
      BY <2>2, <2>3, <3>1, <3>2
  <2>7. \A i, j \in DOMAIN task_que' : task_que'[i] = task_que'[j] => i = j
    BY <2>2, <2>3
  <2>8. \A v \in Workers : wpc[v] = "running" => task[v] \in Tasks /\ task[v] # h /\ v # w
    BY <2>1, <2>2
  <2> QED
    BY <2>1, <2>2, <2>3, <2>4, <2>5, <2>6, <2>7, <2>8
<1>10. ASSUME NEW w \in Workers, Exit(w) PROVE QueueInv'
  BY <1>10 DEF Exit, MayExit
<1>11. ASSUME NEW w \in Workers, DecideToWait(w) PROVE QueueInv'
  BY <1>11 DEF DecideToWait
<1>12. ASSUME NEW w \in Workers, Block(w) PROVE QueueInv'
  BY <1>12 DEF Block
<1>13. ASSUME NEW w \in Workers, Finish(w) PROVE QueueInv'
  BY <1>13 DEF Finish
<1>14. ASSUME NEW w \in Workers, CountIdle(w) PROVE QueueInv'
  BY <1>14 DEF CountIdle, IdleAgain
<1>15. CASE StopRunning
  BY <1>15 DEF StopRunning
<1>16. CASE StopNotify
  BY <1>16 DEF StopNotify, NotifyAll
<1>17. CASE JoinAll
  BY <1>17 DEF JoinAll
<1>18. CASE SpuriousWake
  BY <1>18 DEF SpuriousWake
<1>19. CASE UNCHANGED vars
  BY <1>19 DEF vars
<1> QED
  BY <1>1, <1>2, <1>3, <1>4, <1>5, <1>6, <1>7, <1>8, <1>9, <1>10, <1>11, <1>12, <1>13, <1>14, <1>15, <1>16, <1>17, <1>18, <1>19 DEF Next, WorkerStep, CommitStep, OwnerStep

\* A worker exits only when it finds no task, and only a live one commits one.
LEMMA LifeStep == ASSUME IInv, [Next]_vars PROVE LifeInv'
<1> USE WorkerPoolAssumption DEF WorkerPoolAssumption, Threads, queue, calls, owners, LockFree, IInv, TypeOK, ThreadInv, LifeInv, Alive
<1>1. CASE Launch
  BY <1>1 DEF Launch
<1>2. CASE CountThread
  BY <1>2 DEF CountThread
<1>3. CASE AddThreadReturns
  BY <1>3 DEF AddThreadReturns
<1>4. ASSUME NEW size \in Sizes, AddThread(size) PROVE LifeInv'
  BY <1>4 DEF AddThread
<1>5. ASSUME NEW p \in Threads, NEW t \in Tasks, CommitRefused(p, t) PROVE LifeInv'
  BY <1>5 DEF CommitRefused, MayCommit
<1>6. ASSUME NEW p \in Threads, NEW t \in Tasks, CommitChecked(p, t) PROVE LifeInv'
  BY <1>6 DEF CommitChecked, MayCommit
<1>7. ASSUME NEW p \in Threads, CommitPush(p) PROVE LifeInv'
  BY <1>7 DEF CommitPush
<1>8. ASSUME NEW p \in Threads, CommitNotify(p) PROVE LifeInv'
  BY <1>8 DEF CommitNotify, NotifyOne
<1>9. ASSUME NEW w \in Workers, Take(w) PROVE LifeInv'
  BY <1>9 DEF Take
<1>10. ASSUME NEW w \in Workers, Exit(w) PROVE LifeInv'
  BY <1>10 DEF Exit, MayExit
<1>11. ASSUME NEW w \in Workers, DecideToWait(w) PROVE LifeInv'
  BY <1>11 DEF DecideToWait
<1>12. ASSUME NEW w \in Workers, Block(w) PROVE LifeInv'
  BY <1>12 DEF Block
<1>13. ASSUME NEW w \in Workers, Finish(w) PROVE LifeInv'
  BY <1>13 DEF Finish
<1>14. ASSUME NEW w \in Workers, CountIdle(w) PROVE LifeInv'
  BY <1>14 DEF CountIdle, IdleAgain
<1>15. CASE StopRunning
  BY <1>15 DEF StopRunning
<1>16. CASE StopNotify
  BY <1>16 DEF StopNotify, NotifyAll
<1>17. CASE JoinAll
  BY <1>17 DEF JoinAll
<1>18. CASE SpuriousWake
  BY <1>18 DEF SpuriousWake
<1>19. CASE UNCHANGED vars
  BY <1>19 DEF vars
<1> QED
  BY <1>1, <1>2, <1>3, <1>4, <1>5, <1>6, <1>7, <1>8, <1>9, <1>10, <1>11, <1>12, <1>13, <1>14, <1>15, <1>16, <1>17, <1>18, <1>19 DEF Next, WorkerStep, CommitStep, OwnerStep

\* IInv holds throughout.
THEOREM Invariance == Spec => []IInv
<1>1. IInv /\ [Next]_vars => IInv'
  BY TypeOKStep, ThreadStep, CommitStepInv, QueueStep, LifeStep DEF IInv
<1> QED
  BY InitIInv, <1>1, PTL DEF Spec

\* The variables keep their types, and the pool its bound.
THEOREM TypeCorrect == Spec => []TypeOK
<1>1. IInv => TypeOK
  BY DEF IInv
<1> QED
  BY Invariance, <1>1, PTL

\* A destroyed pool that had a thread has run every task it accepted.
THEOREM DestructorDrains == Spec => []DestroyedDrained
<1>1. IInv => DestroyedDrained
  <2> SUFFICES ASSUME IInv, life = "destroyed", pool # {}, NEW t \in Tasks
               PROVE  status[t] \in {"new", "refused", "done"}
    BY DEF DestroyedDrained
  <2>1. \A w \in Workers : wpc[w] \in {"unborn", "exited"}
    BY DEF IInv, LifeInv, ThreadInv
  <2>2. task_que = << >>
    BY <2>1 DEF IInv, LifeInv, ThreadInv, Alive
  <2>3. \A p \in Threads : call[p] = "none"
    BY <2>1 DEF IInv, LifeInv, ThreadInv, Threads
  <2> QED
    BY <2>1, <2>2, <2>3 DEF IInv, TypeOK, QueueInv, CommitInv
<1> QED
  BY Invariance, <1>1, PTL
-----------------------------------------------------------------------------
(* The count of idle threads *)

BusyWorkers == WorkersAt({"running", "counting"})

\* A thread that is added, takes a task or reports back moves one term.
LEMMA IdleStep ==
  ASSUME IInv, IdleExact, [Next]_vars
  PROVE  IdleExact'
<1> USE WorkerPoolAssumption DEF WorkerPoolAssumption, queue, calls, owners, IInv, TypeOK
<1>a. BusyWorkers \in SUBSET Threads /\ pool \in SUBSET Threads
  BY DEF BusyWorkers, WorkersAt, Threads
<1>b. /\ IsFiniteSet(BusyWorkers) /\ Cardinality(BusyWorkers) \in Nat
      /\ IsFiniteSet(pool) /\ Cardinality(pool) \in Nat
  BY <1>a, ThreadSets
<1>c. idl = Cardinality(pool) - Cardinality(BusyWorkers)
              - (IF life = "counting" THEN 1 ELSE 0)
  BY DEF IdleExact, BusyWorkers
<1>d. IdleExact' <=> idl' = Cardinality(pool') - Cardinality(BusyWorkers')
                              - (IF life' = "counting" THEN 1 ELSE 0)
  BY DEF IdleExact, BusyWorkers
<1>1. ASSUME UNCHANGED <<idl, pool, BusyWorkers>>, life' = "counting" <=> life = "counting"
      PROVE  IdleExact'
  BY <1>1, <1>c, <1>d
<1>2. CASE Launch
  <2>1. PICK w \in Workers \ pool :
          pool' = pool \cup {w} /\ wpc' = [wpc EXCEPT ![w] = "ready"]
    BY <1>2 DEF Launch
  <2>2. Cardinality(pool') = Cardinality(pool) + 1
    BY <1>b, <2>1, FS_AddElement
  <2>3. BusyWorkers' = BusyWorkers
    BY <2>1 DEF BusyWorkers, WorkersAt, ThreadInv
  <2> QED
    BY <1>2, <1>b, <1>c, <1>d, <2>2, <2>3 DEF Launch
<1>3. CASE CountThread
  <2>1. BusyWorkers' = BusyWorkers
    BY <1>3 DEF CountThread, BusyWorkers, WorkersAt
  <2> QED
    BY <1>3, <1>b, <1>c, <1>d, <2>1 DEF CountThread
<1>4. ASSUME NEW w \in Workers, Take(w) PROVE IdleExact'
  <2>1. w \notin BusyWorkers /\ BusyWorkers' = BusyWorkers \cup {w}
    BY <1>4 DEF Take, BusyWorkers, WorkersAt
  <2>2. Cardinality(BusyWorkers') = Cardinality(BusyWorkers) + 1
    BY <1>b, <2>1, FS_AddElement
  <2> QED
    BY <1>4, <1>b, <1>c, <1>d, <2>2 DEF Take
<1>5. ASSUME NEW w \in Workers, CountIdle(w) PROVE IdleExact'
  <2>1. w \in BusyWorkers /\ BusyWorkers' = BusyWorkers \ {w}
    BY <1>5 DEF CountIdle, BusyWorkers, WorkersAt
  <2>2. Cardinality(BusyWorkers') = Cardinality(BusyWorkers) - 1
    BY <1>b, <2>1, FS_RemoveElement
  <2> QED
    BY <1>5, <1>b, <1>c, <1>d, <2>2 DEF CountIdle, IdleAgain
<1>6. ASSUME NEW w \in Workers, Exit(w) \/ DecideToWait(w) \/ Block(w) \/ Finish(w)
      PROVE  IdleExact'
  <2>1. UNCHANGED <<idl, pool, life>>
    BY <1>6 DEF Exit, DecideToWait, Block, Finish
  <2>2. BusyWorkers' = BusyWorkers
    BY <1>6 DEF Exit, DecideToWait, Block, Finish, BusyWorkers, WorkersAt
  <2> QED
    BY <1>1, <2>1, <2>2
<1>7. ASSUME NEW p \in Threads, CommitStep(p) PROVE IdleExact'
  <2>1. UNCHANGED <<idl, pool, life>>
    BY <1>7 DEF CommitStep, CommitPush, CommitNotify
  <2>2. BusyWorkers' = BusyWorkers
    BY <1>7 DEF CommitStep, CommitPush, CommitNotify, NotifyOne, BusyWorkers, WorkersAt
  <2> QED
    BY <1>1, <2>1, <2>2
<1>8. ASSUME NEW p \in Threads, NEW t \in Tasks, CommitRefused(p, t) \/ CommitChecked(p, t)
      PROVE  IdleExact'
  BY <1>1, <1>8 DEF CommitRefused, CommitChecked, BusyWorkers, WorkersAt
<1>9. CASE AddThreadReturns \/ StopNotify \/ JoinAll
  <2>1. UNCHANGED <<idl, pool>> /\ life # "counting" /\ life' # "counting"
    BY <1>9 DEF AddThreadReturns, StopNotify, JoinAll
  <2>2. BusyWorkers' = BusyWorkers
    BY <1>9 DEF AddThreadReturns, StopNotify, JoinAll, NotifyAll, BusyWorkers, WorkersAt
  <2> QED
    BY <1>1, <2>1, <2>2
<1>10. ASSUME NEW size \in Sizes, AddThread(size) PROVE IdleExact'
  BY <1>1, <1>10 DEF AddThread, BusyWorkers, WorkersAt
<1>11. CASE StopRunning
  BY <1>1, <1>11 DEF StopRunning, BusyWorkers, WorkersAt
<1>12. CASE SpuriousWake
  <2>1. UNCHANGED <<idl, pool, life>>
    BY <1>12 DEF SpuriousWake
  <2>2. BusyWorkers' = BusyWorkers
    BY <1>12 DEF SpuriousWake, BusyWorkers, WorkersAt
  <2> QED
    BY <1>1, <2>1, <2>2
<1>13. CASE UNCHANGED vars
  BY <1>1, <1>13 DEF vars, BusyWorkers, WorkersAt
<1> QED
  BY <1>2, <1>3, <1>4, <1>5, <1>6, <1>7, <1>8, <1>9, <1>10, <1>11, <1>12, <1>13
     DEF Next, WorkerStep, OwnerStep

\* get_idl_count is exact.
THEOREM IdleCountExact == Spec => []IdleExact
<1>1. Init => IdleExact
  <2> SUFFICES ASSUME Init PROVE IdleExact
    OBVIOUS
  <2>1. WorkersAt({"running", "counting"}) = {} /\ pool = {}
    BY DEF Init, WorkersAt
  <2>2. Cardinality(WorkersAt({"running", "counting"})) = 0 /\ Cardinality(pool) = 0
    BY <2>1, FS_EmptySet
  <2>3. idl = 0 /\ life # "counting"
    BY DEF Init
  <2> QED
    BY <2>2, <2>3 DEF IdleExact
<1>2. IInv /\ IdleExact /\ [Next]_vars => IdleExact'
  BY IdleStep
<1> QED
  BY <1>1, <1>2, Invariance, PTL DEF Spec

-----------------------------------------------------------------------------
(* Wakeups *)

Sleepers == WorkersAt({"waiting"})
Arriving == WorkersAt({"ready"})
Notifiers == CallersAt({"notifying"})

\* A push brings a notification, a notification an arriving worker, and a worker
\* that takes a task takes its share of both sides.
LEMMA WakeupsStep ==
  ASSUME IInv, WakeupsCoverQueue, [Next]_vars
  PROVE  WakeupsCoverQueue'
<1> USE WorkerPoolAssumption DEF WorkerPoolAssumption, queue, calls, owners, IInv, TypeOK
<1>a. WakeupsCoverQueue <=>
        (Sleepers # {} => Len(task_que) <= Cardinality(Notifiers) + Cardinality(Arriving))
  BY DEF WakeupsCoverQueue, Sleepers, Notifiers, Arriving
<1>b. WakeupsCoverQueue' <=>
        (Sleepers' # {} => Len(task_que') <= Cardinality(Notifiers') + Cardinality(Arriving'))
  BY DEF WakeupsCoverQueue, Sleepers, Notifiers, Arriving
<1>c. Len(task_que) \in Nat /\ IsFiniteSet(Notifiers) /\ IsFiniteSet(Arriving)
      /\ Cardinality(Notifiers) \in Nat /\ Cardinality(Arriving) \in Nat
  <2>1. Notifiers \in SUBSET Threads /\ Arriving \in SUBSET Threads
    BY DEF Notifiers, CallersAt, Arriving, WorkersAt, Threads
  <2> QED
    BY <2>1, ThreadSets
<1>d. IsFiniteSet(Notifiers') /\ IsFiniteSet(Arriving')
      /\ Cardinality(Notifiers') \in Nat /\ Cardinality(Arriving') \in Nat
  <2>1. Notifiers' \in SUBSET Threads /\ Arriving' \in SUBSET Threads
    BY DEF Notifiers, CallersAt, Arriving, WorkersAt, Threads
  <2> QED
    BY <2>1, ThreadSets
<1>1. ASSUME UNCHANGED task_que, Sleepers' \subseteq Sleepers,
             Notifiers \subseteq Notifiers', Arriving \subseteq Arriving'
      PROVE  WakeupsCoverQueue'
  <2>1. Cardinality(Notifiers) <= Cardinality(Notifiers')
        /\ Cardinality(Arriving) <= Cardinality(Arriving')
    BY <1>1, <1>d, FS_Subset
  <2> QED
    BY <1>a, <1>b, <1>c, <1>d, <1>1, <2>1
<1>2. ASSUME task_que' = << >> PROVE WakeupsCoverQueue'
  <2>1. Len(task_que') = 0
    BY <1>2
  <2> QED
    BY <1>b, <1>d, <2>1
<1>3. ASSUME Sleepers' = {} PROVE WakeupsCoverQueue'
  BY <1>3, <1>b
<1>4. ASSUME NEW p \in Threads, CommitPush(p) PROVE WakeupsCoverQueue'
  <2>1. p \notin Notifiers /\ Notifiers' = Notifiers \cup {p}
    BY <1>4 DEF CommitPush, Notifiers, CallersAt
  <2>2. Sleepers' = Sleepers /\ Arriving' = Arriving
    BY <1>4 DEF CommitPush, Sleepers, Arriving, WorkersAt
  <2>3. Cardinality(Notifiers') = Cardinality(Notifiers) + 1
    BY <1>c, <2>1, FS_AddElement
  <2>4. Len(task_que') = Len(task_que) + 1
    BY <1>4 DEF CommitPush, CommitInv
  <2> QED
    BY <1>a, <1>b, <1>c, <1>d, <2>2, <2>3, <2>4
<1>5. ASSUME NEW p \in Threads, CommitNotify(p) PROVE WakeupsCoverQueue'
  <2>1. CASE Sleepers = {}
    BY <1>3, <1>5, <2>1 DEF CommitNotify, NotifyOne, Sleepers, WorkersAt
  <2>2. CASE Sleepers # {}
    <3>1. PICK w \in Workers : wpc[w] = "waiting" /\ wpc' = [wpc EXCEPT ![w] = "ready"]
      BY <1>5, <2>2 DEF CommitNotify, NotifyOne, Sleepers, WorkersAt
    <3>2. w \notin Arriving /\ Arriving' = Arriving \cup {w}
      BY <3>1 DEF Arriving, WorkersAt
    <3>3. p \in Notifiers /\ Notifiers' = Notifiers \ {p}
      BY <1>5 DEF CommitNotify, Notifiers, CallersAt
    <3>4. Cardinality(Arriving') = Cardinality(Arriving) + 1
          /\ Cardinality(Notifiers') = Cardinality(Notifiers) - 1
      BY <1>c, <3>2, <3>3, FS_AddElement, FS_RemoveElement
    <3> QED
      BY <1>a, <1>b, <1>c, <1>d, <1>5, <2>2, <3>4 DEF CommitNotify
  <2> QED
    BY <2>1, <2>2
<1>6. ASSUME NEW w \in Workers, Take(w) PROVE WakeupsCoverQueue'
  <2>1. w \in Arriving /\ Arriving' = Arriving \ {w} /\ Sleepers' = Sleepers
    BY <1>6 DEF Take, Arriving, Sleepers, WorkersAt
  <2>2. Len(task_que') = Len(task_que) - 1 /\ Notifiers' = Notifiers
    BY <1>6 DEF Take, Notifiers, CallersAt
  <2>3. Cardinality(Arriving') = Cardinality(Arriving) - 1
    BY <1>c, <2>1, FS_RemoveElement
  <2> QED
    BY <1>a, <1>b, <1>c, <1>d, <2>1, <2>2, <2>3
<1>7. ASSUME NEW w \in Workers, Exit(w) \/ DecideToWait(w) \/ Block(w)
      PROVE  WakeupsCoverQueue'
  <2>1. task_que = << >> /\ task_que' = task_que
    BY <1>7 DEF Exit, MayExit, DecideToWait, Block, ThreadInv
  <2> QED
    BY <1>2, <2>1
<1>8. ASSUME UNCHANGED task_que,
             \A w \in Workers : /\ wpc'[w] = "waiting" => wpc[w] = "waiting"
                                /\ wpc[w] = "ready" => wpc'[w] = "ready",
             \A p \in Threads : call[p] = "notifying" => call'[p] = "notifying"
      PROVE  WakeupsCoverQueue'
  BY <1>1, <1>8 DEF Sleepers, Notifiers, CallersAt, Arriving, WorkersAt
<1>9. ASSUME NEW w \in Workers, Finish(w) \/ CountIdle(w) PROVE WakeupsCoverQueue'
  BY <1>8, <1>9 DEF Finish, CountIdle
<1>10. ASSUME NEW p \in Threads, NEW t \in Tasks, CommitRefused(p, t) \/ CommitChecked(p, t)
       PROVE  WakeupsCoverQueue'
  BY <1>8, <1>10 DEF CommitRefused, CommitChecked, MayCommit
<1>11. CASE OwnerStep
  BY <1>8, <1>11 DEF OwnerStep, Launch, CountThread, AddThreadReturns, StopNotify,
                     NotifyAll, JoinAll, ThreadInv
<1>12. CASE StopRunning \/ SpuriousWake \/ \E size \in Sizes : AddThread(size)
  BY <1>8, <1>12 DEF StopRunning, SpuriousWake, AddThread
<1>13. CASE UNCHANGED vars
  BY <1>8, <1>13 DEF vars
<1> QED
  BY <1>4, <1>5, <1>6, <1>7, <1>9, <1>10, <1>11, <1>12, <1>13
     DEF Next, WorkerStep, CommitStep

\* No wakeup is lost: a queued task never waits for a sleeping worker.
THEOREM NoLostWakeup == Spec => []WakeupsCoverQueue
<1>1. Init => WakeupsCoverQueue
  BY DEF Init, WakeupsCoverQueue, WorkersAt
<1>2. IInv /\ WakeupsCoverQueue /\ [Next]_vars => WakeupsCoverQueue'
  BY WakeupsStep
<1> QED
  BY <1>1, <1>2, Invariance, PTL DEF Spec

-----------------------------------------------------------------------------
(* Deadlock *)

\* When a thread that has something to do can do it: nobody else holds m_lock, and the
\* threads that the destructor joins have ended.
WorkerCanMove(w) ==
  \/ wpc[w] = "blocking"
  \/ wpc[w] = "running" /\ call[w] = "none"
  \/ wpc[w] \in {"ready", "counting"} /\ LockFree

CallerCanMove(p) ==
  \/ call[p] = "notifying"
  \/ call[p] = "pushing" /\ LockFree

OwnerCanMove ==
  \/ life \in {"adding", "stopping"}
  \/ life = "counting" /\ LockFree
  \/ life = "joining" /\ \A w \in pool : wpc[w] = "exited"

SomebodyCanMove ==
  \/ \E w \in Workers : WorkerCanMove(w)
  \/ \E p \in Threads : CallerCanMove(p)
  \/ OwnerCanMove

Unfinished == {t \in Tasks : status[t] \in {"checked", "queued", "running"}}

\* A pool that has a thread never stands still with a task that it has accepted, and
\* nothing but a worker that missed the destructor's notification blocks the destructor.
NobodyIsStuck ==
  /\ pool # {} /\ Unfinished # {} => SomebodyCanMove
  /\ life \notin {"open", "destroyed"} =>
       SomebodyCanMove \/ (life = "joining" /\ WorkersAt({"waiting"}) # {})

\* Where nobody can move, no thread is in the middle of anything.
LEMMA Stillness ==
  ASSUME IInv, ~SomebodyCanMove
  PROVE  /\ LockFree
         /\ \A p \in Threads : call[p] = "none"
         /\ \A w \in Workers : wpc[w] \in {"unborn", "waiting", "exited"}
<1> USE DEF SomebodyCanMove, WorkerCanMove, CallerCanMove
<1>1. LockFree
  BY DEF IInv, TypeOK, ThreadInv, LockFree
<1>2. \A p \in Threads : call[p] = "none"
  BY <1>1 DEF IInv, TypeOK
<1>3. \A w \in Workers : wpc[w] \in {"unborn", "waiting", "exited"}
  BY <1>1, <1>2 DEF IInv, TypeOK, Threads
<1> QED
  BY <1>1, <1>2, <1>3

\* A sleeping worker would be notified of a queued task, and an exited one has seen the
\* queue empty with no worker left that could fill it.
LEMMA NobodyStuckHolds == ASSUME IInv, WakeupsCoverQueue PROVE NobodyIsStuck
<1> SUFFICES ASSUME ~SomebodyCanMove
             PROVE  /\ pool # {} => Unfinished = {}
                    /\ life \notin {"open", "destroyed"} =>
                         life = "joining" /\ WorkersAt({"waiting"}) # {}
  BY DEF NobodyIsStuck
<1>1. /\ LockFree
      /\ \A p \in Threads : call[p] = "none"
      /\ \A w \in Workers : wpc[w] \in {"unborn", "waiting", "exited"}
  BY Stillness
<1>2. ASSUME pool # {}, NEW t \in Unfinished PROVE FALSE
  <2>1. t \in Tasks /\ status[t] = "queued"
    BY <1>1, <1>2 DEF Unfinished, IInv, CommitInv, QueueInv
  <2>2. task_que # << >> /\ Len(task_que) \in Nat \ {0}
    BY <2>1 DEF IInv, TypeOK, QueueInv
  <2>3. CASE WorkersAt({"waiting"}) # {}
    <3>1. CallersAt({"notifying"}) = {} /\ WorkersAt({"ready"}) = {}
      BY <1>1 DEF CallersAt, WorkersAt
    <3>2. Len(task_que) <= 0 + 0
      BY <2>3, <3>1, FS_EmptySet DEF WakeupsCoverQueue
    <3> QED
      BY <2>2, <3>2
  <2>4. CASE WorkersAt({"waiting"}) = {}
    <3>1. \A w \in Workers : wpc[w] \in {"unborn", "exited"}
      BY <1>1, <2>4 DEF WorkersAt
    <3>2. \E w \in Workers : wpc[w] = "exited"
      BY <1>2, <3>1 DEF IInv, ThreadInv
    <3> QED
      BY <2>2, <3>1, <3>2 DEF IInv, LifeInv, Alive
  <2> QED
    BY <2>3, <2>4
<1>3. ASSUME life \notin {"open", "destroyed"}
      PROVE  life = "joining" /\ WorkersAt({"waiting"}) # {}
  <2>1. life = "joining" /\ \E w \in pool : wpc[w] # "exited"
    BY <1>1, <1>3 DEF SomebodyCanMove, OwnerCanMove, IInv, TypeOK
  <2>2. PICK w \in Workers : wpc[w] = "waiting"
    BY <1>1, <2>1 DEF IInv, ThreadInv
  <2> QED
    BY <2>1, <2>2 DEF WorkersAt
<1> QED
  BY <1>2, <1>3

\* Accepted tasks do not block one another, and the missed notification is the only thing
\* that can block the destructor.
THEOREM DeadlockOnlyIfMissed == Spec => []NobodyIsStuck
<1>1. IInv /\ WakeupsCoverQueue => NobodyIsStuck
  BY NobodyStuckHolds
<1> QED
  BY <1>1, Invariance, NoLostWakeup, PTL
=============================================================================
