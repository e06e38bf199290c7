---------------------------- MODULE SimpleTimer ----------------------------
(***************************************************************************)
(* simple_timer::MySimpleTimer (src/MySimpleTimer/my_simple_timer.cpp): a  *)
(* wheel of WHEEL_LEN buckets, served by one thread, from which tasks that *)
(* are due are committed to the timer's own ThreadPool.                    *)
(*                                                                         *)
(* Callers only append to m_input_tasks, under m_mutex; the wheel belongs  *)
(* to the timer's thread.  Time is counted in milliseconds since           *)
(* m_start_time.  What the pool does with a committed task is the subject  *)
(* of WorkerPool: it outlives the thread, so that commit never throws, and *)
(* its destructor, which ends the timer's, is one step here.               *)
(***************************************************************************)
EXTENDS Integers, Sequences, SequencesExt, FiniteSets

CONSTANTS
  Clients,      \* threads that call add_task; they stop before the destructor
  PoolThreads,  \* threads of m_thread_pool, whose tasks may call add_task
  Tasks,        \* each added at most once
  Timeouts,     \* arguments `msec' of add_task
  WheelLen,     \* WHEEL_LEN
  MaxTime,      \* the clock stops then, unless the thread waits for a later time
  Budget        \* bound on spurious wakeups

ASSUME SimpleTimerAssumption ==
  /\ IsFiniteSet(Tasks)
  /\ Timeouts \subseteq Int
  /\ WheelLen \in Nat \ {0}
  /\ MaxTime \in Nat /\ Budget \in Nat

Callers == Clients \cup PoolThreads
Slots == 0..WheelLen - 1
NoWait == -1   \* what get_next_wait_ms returns for an empty wheel
Untimed == -1  \* the thread waits without a time limit

VARIABLES
  now,        \* steady_clock::now() - m_start_time
  stop,       \* m_stop
  input,      \* m_input_tasks
  wheel,      \* m_timed_task
  deadline,   \* m_deadline of each task
  timeout,    \* m_time_out of each task
  tick,       \* m_tick_count
  tpc,        \* where the timer's thread is
  wait,       \* wait_mill_sec
  wake_at,    \* when m_cond.wait_for gives up
  cursor,     \* the argument of the next call of tick
  batch,      \* task_list, what is left of it
  call,       \* where each caller is in add_task
  life,       \* what the owner of the timer is doing
  added,      \* history: when add_task took each task
  status,     \* history: what became of each task
  skipped,    \* history: tasks in the one bucket get_next_wait_ms leaves out
  budget      \* what is left of Budget

tasks == <<deadline, timeout, added, status>>
loop == <<wait, wake_at, cursor, batch, skipped>>
vars == <<now, stop, input, wheel, tasks, tick, tpc, loop, call, life, budget>>

Init ==
  /\ now = 0 /\ stop = FALSE /\ input = << >>
  /\ wheel = [i \in Slots |-> << >>]
  /\ deadline = [t \in Tasks |-> 0] /\ timeout = [t \in Tasks |-> 0]
  /\ added = [t \in Tasks |-> 0] /\ status = [t \in Tasks |-> "new"]
  /\ tick = 0 /\ tpc = "top" /\ wait = NoWait /\ wake_at = Untimed
  /\ cursor = 0 /\ batch = << >> /\ skipped = {}
  /\ call = [c \in Callers |-> "none"]
  /\ life = "open" /\ budget = Budget

\* A failed assertion aborts the whole program.
Alive == tpc # "aborted"

-----------------------------------------------------------------------------
(* add_task *)

MayAdd(c) ==
  /\ Alive /\ call[c] = "none"
  /\ IF c \in Clients THEN life = "open"
     ELSE life \notin {"destroyed", "blocked"} /\ \E t \in Tasks : status[t] = "committed"

AddNow(c, t, msec) ==
  /\ MayAdd(c) /\ status[t] = "new"
  /\ msec <= 0
  /\ status' = [status EXCEPT ![t] = "committed"]
  /\ UNCHANGED <<now, stop, input, wheel, deadline, timeout, added, tick, tpc,
                 loop, call, life, budget>>

\* Once the thread is joined m_input_tasks is destroyed, before m_thread_pool: what a
\* task of the pool would do here then is undefined, and left out.
AddTimed(c, t, msec) ==
  /\ MayAdd(c) /\ status[t] = "new"
  /\ msec > 0
  /\ life # "joined"
  /\ input' = Append(input, t)
  /\ timeout' = [timeout EXCEPT ![t] = msec]
  /\ added' = [added EXCEPT ![t] = now]
  /\ status' = [status EXCEPT ![t] = "input"]
  /\ call' = [call EXCEPT ![c] = "notifying"]
  /\ UNCHANGED <<now, stop, wheel, deadline, tick, tpc, loop, life, budget>>

\* m_cond.notify_one(): only the timer's thread ever waits.
NotifyThreadMutant == UNCHANGED tpc
NotifyThread == tpc' = IF tpc = "waiting" THEN "testing" ELSE tpc

AddNotify(c) ==
  /\ Alive /\ call[c] = "notifying"
  /\ NotifyThread
  /\ call' = [call EXCEPT ![c] = "none"]
  /\ UNCHANGED <<now, stop, input, wheel, tasks, tick, loop, life, budget>>

-----------------------------------------------------------------------------
(* The thread: how long to wait *)

\* The buckets get_next_wait_ms looks at, by their distance from the current one,
\* and the time left to the deadline at the front of each.
Offsets == {i \in 1..WheelLen - 1 : wheel[(tick + i) % WheelLen] # << >>}
TimeLeft(i) == deadline[Head(wheel[(tick + i) % WheelLen])] - tick

\* It stops at the first bucket whose front is less than one turn away.
IsNextWait(ms) ==
  LET soon == {i \in Offsets : TimeLeft(i) < WheelLen}
  IN  \/ Offsets = {} /\ ms = NoWait
      \/ \E i \in soon : ms = TimeLeft(i) /\ \A j \in soon : i <= j
      \/ /\ soon = {}
         /\ \E i \in Offsets : ms = TimeLeft(i) /\ \A j \in Offsets : ms <= TimeLeft(j)

\* assert(dt > 0), evaluated for the first bucket with a task only.
FrontIsAhead ==
  \A i \in Offsets : (\A j \in Offsets : i <= j) => TimeLeft(i) > 0

\* m_stop is read without m_mutex: the read may miss the destructor's store.
LoopTestStops ==
  /\ tpc = "top" /\ stop
  /\ tpc' = "exited"
  /\ UNCHANGED <<now, stop, input, wheel, tasks, tick, loop, call, life, budget>>

AssertFails ==
  /\ tpc = "top" /\ ~FrontIsAhead
  /\ tpc' = "aborted"
  /\ UNCHANGED <<now, stop, input, wheel, tasks, tick, loop, call, life, budget>>

ChooseWait ==
  /\ tpc = "top" /\ FrontIsAhead
  /\ IsNextWait(wait')
  /\ skipped' = skipped \cup ToSet(wheel[tick % WheelLen])
  /\ tpc' = "testing"
  /\ UNCHANGED <<now, stop, input, wheel, tasks, tick, wake_at, cursor, batch,
                 call, life, budget>>

-----------------------------------------------------------------------------
(* The thread: wait for a deadline, a new task or the destructor.  A thread *)
(* that is "testing" takes m_mutex and evaluates the loop's condition.      *)

\* After a notification the whole time is waited for again.
Wait ==
  /\ tpc = "testing" /\ ~stop /\ input = << >>
  /\ wake_at' = IF wait > 0 THEN now + wait ELSE Untimed
  /\ tpc' = "waiting"
  /\ UNCHANGED <<now, stop, input, wheel, tasks, tick, wait, cursor, batch, skipped,
                 call, life, budget>>

TimeOut ==
  /\ tpc = "waiting" /\ wake_at # Untimed /\ now >= wake_at
  /\ tpc' = "timedout"
  /\ UNCHANGED <<now, stop, input, wheel, tasks, tick, loop, call, life, budget>>

Return ==
  /\ tpc \in {"testing", "timedout"} /\ stop
  /\ tpc' = "exited"
  /\ UNCHANGED <<now, stop, input, wheel, tasks, tick, loop, call, life, budget>>

Collect ==
  /\ tpc \in {"testing", "timedout"} /\ ~stop
  /\ tpc = "timedout" \/ input # << >>
  /\ batch' = input /\ input' = << >>
  /\ status' = [t \in Tasks |-> IF status[t] = "input" THEN "batch" ELSE status[t]]
  /\ tpc' = "clock"
  /\ UNCHANGED <<now, stop, wheel, deadline, timeout, added, tick, wait, wake_at,
                 cursor, skipped, call, life, budget>>

-----------------------------------------------------------------------------
(* The thread: tick over the time that has passed, then add the new tasks *)

Reached(dt) == dt >= wait /\ wait # NoWait

ReadClock ==
  /\ tpc = "clock"
  /\ tick' = now
  /\ cursor' = IF Reached(now - tick) THEN tick + wait ELSE now
  /\ tpc' = "ticking"
  /\ UNCHANGED <<now, stop, input, wheel, tasks, wait, wake_at, batch, skipped,
                 call, life, budget>>

Bucket == wheel[cursor % WheelLen]

\* The calls of tick are for the times before m_tick_count, never for itself.
MoreTicksMutant == cursor <= tick
MoreTicks == cursor < tick

IsDueMutant(t) == cursor > deadline[t]
IsDue(t) == cursor >= deadline[t]
FrontIsDue == Bucket # << >> /\ IsDue(Head(Bucket))

CommitDue ==
  /\ tpc = "ticking" /\ MoreTicks
  /\ FrontIsDue
  /\ status' = [status EXCEPT ![Head(Bucket)] = "committed"]
  /\ wheel' = [wheel EXCEPT ![cursor % WheelLen] = Tail(@)]
  /\ UNCHANGED <<now, stop, input, deadline, timeout, added, tick, tpc, loop,
                 call, life, budget>>

TickOver ==
  /\ tpc = "ticking" /\ MoreTicks
  /\ ~FrontIsDue
  /\ cursor' = cursor + 1
  /\ UNCHANGED <<now, stop, input, wheel, tasks, tick, tpc, wait, wake_at, batch,
                 skipped, call, life, budget>>

\* Where a task with this deadline goes: before the first that is not due earlier.
Position(bucket, due) ==
  CHOOSE i \in 1..Len(bucket) + 1 :
    /\ \A j \in 1..i - 1 : deadline[bucket[j]] < due
    /\ i <= Len(bucket) => due <= deadline[bucket[i]]

InsertedMutant(bucket, t, due) == Append(bucket, t)
Inserted(bucket, t, due) == InsertAt(bucket, Position(bucket, due), t)

AddNewTask ==
  /\ tpc = "ticking" /\ ~MoreTicks
  /\ batch # << >>
  /\ LET t == Head(batch)
         due == tick + timeout[t]
     IN  /\ deadline' = [deadline EXCEPT ![t] = due]
         /\ wheel' = [wheel EXCEPT ![due % WheelLen] = Inserted(@, t, due)]
         /\ status' = [status EXCEPT ![t] = "scheduled"]
  /\ batch' = Tail(batch)
  /\ UNCHANGED <<now, stop, input, timeout, added, tick, tpc, wait, wake_at, cursor,
                 skipped, call, life, budget>>

LoopAgain ==
  /\ tpc = "ticking" /\ ~MoreTicks
  /\ batch = << >>
  /\ wait' = NoWait /\ wake_at' = Untimed /\ cursor' = 0  \* out of scope
  /\ tpc' = "top"
  /\ UNCHANGED <<now, stop, input, wheel, tasks, tick, batch, skipped, call, life, budget>>

-----------------------------------------------------------------------------
(* The destructor *)

SetStop ==
  /\ Alive /\ life = "open"
  /\ \A c \in Clients : call[c] = "none"
  /\ stop' = TRUE
  /\ life' = "stopping"
  /\ UNCHANGED <<now, input, wheel, tasks, tick, tpc, loop, call, budget>>

StopNotify ==
  /\ Alive /\ life = "stopping"
  /\ NotifyThread
  /\ life' = "joining"
  /\ UNCHANGED <<now, stop, input, wheel, tasks, tick, loop, call, budget>>

Join ==
  /\ life = "joining" /\ tpc = "exited"
  /\ life' = "joined"
  /\ UNCHANGED <<now, stop, input, wheel, tasks, tick, tpc, loop, call, budget>>

\* After the destructor's body the members go, m_thread_pool among them: its destructor
\* joins the pool's threads, or waits for ever for one that missed its notification
\* (DestructorReturnsUnlessMissed of WorkerPool says when).
DestroyPool ==
  /\ life = "joined"
  /\ \/ life' = "destroyed" /\ \A c \in PoolThreads : call[c] = "none"
     \/ life' = "blocked"
  /\ UNCHANGED <<now, stop, input, wheel, tasks, tick, tpc, loop, call, budget>>

-----------------------------------------------------------------------------
SpuriousWake ==
  /\ budget > 0 /\ budget' = budget - 1
  /\ tpc = "waiting" /\ tpc' = "testing"
  /\ UNCHANGED <<now, stop, input, wheel, tasks, tick, loop, call, life>>

\* After MaxTime the clock goes on only while the thread waits for a later time.
ClockTick ==
  /\ Alive
  /\ now < MaxTime \/ (tpc = "waiting" /\ now < wake_at)
  /\ now' = now + 1
  /\ UNCHANGED <<stop, input, wheel, tasks, tick, tpc, loop, call, life, budget>>

TimerStep ==
  \/ LoopTestStops \/ AssertFails \/ ChooseWait
  \/ Wait \/ TimeOut \/ Return \/ Collect
  \/ ReadClock \/ CommitDue \/ TickOver \/ AddNewTask \/ LoopAgain

DestructorStep == StopNotify \/ Join \/ DestroyPool

Next ==
  \/ TimerStep
  \/ \E c \in Callers, t \in Tasks, msec \in Timeouts :
       AddNow(c, t, msec) \/ AddTimed(c, t, msec)
  \/ \E c \in Callers : AddNotify(c)
  \/ SetStop \/ DestructorStep
  \/ SpuriousWake \/ ClockTick

\* Time passes and every thread that can take a step is run; nobody has to add a
\* task or to destroy the timer.
Fairness ==
  /\ WF_vars(TimerStep) /\ WF_vars(ClockTick) /\ WF_vars(DestructorStep)
  /\ \A c \in Callers : WF_vars(AddNotify(c))

Spec == Init /\ [][Next]_vars
FairSpec == Spec /\ Fairness

-----------------------------------------------------------------------------
(* What the timer is relied on for *)

\* Every variable holds a value of its kind.
TypeOK ==
  /\ now \in Nat /\ tick \in Nat /\ cursor \in Nat
  /\ wait \in Int /\ wake_at \in Int
  /\ stop \in BOOLEAN
  /\ input \in Seq(Tasks) /\ batch \in Seq(Tasks)
  /\ wheel \in [Slots -> Seq(Tasks)]
  /\ deadline \in [Tasks -> Nat] /\ timeout \in [Tasks -> Nat] /\ added \in [Tasks -> Nat]
  /\ tpc \in {"top", "testing", "waiting", "timedout", "clock", "ticking", "exited",
              "aborted"}
  /\ call \in [Callers -> {"none", "notifying"}]
  /\ life \in {"open", "stopping", "joining", "joined", "destroyed", "blocked"}
  /\ status \in [Tasks -> {"new", "input", "batch", "scheduled", "committed"}]
  /\ skipped \subseteq Tasks
  /\ budget \in Nat

\* A task is committed only when its time has passed in full: m_tick_count and the
\* time of the call are both rounded down to a millisecond, so more than `msec' ticks
\* of the clock must lie between them.
NeverEarly ==
  \A t \in Tasks :
    status[t] = "committed" /\ timeout[t] > 0 => now > added[t] + timeout[t]

\* Each task is in the one place its history says, once; in the wheel, in the bucket
\* of its deadline, and no bucket has a later deadline before an earlier one, which
\* tick and get_next_wait_ms rely on when they stop at its front.
WheelSound ==
  /\ \A s \in Slots : \A i \in DOMAIN wheel[s] :
       /\ status[wheel[s][i]] = "scheduled"
       /\ deadline[wheel[s][i]] % WheelLen = s
       /\ \A j \in DOMAIN wheel[s] :
            i < j => /\ deadline[wheel[s][i]] <= deadline[wheel[s][j]]
                     /\ wheel[s][i] # wheel[s][j]
  /\ \A t \in Tasks :
       status[t] = "scheduled" => \E i \in DOMAIN wheel[deadline[t] % WheelLen] :
                                    wheel[deadline[t] % WheelLen][i] = t

Overdue == {t \in Tasks : status[t] = "scheduled" /\ deadline[t] < tick}

\* The first thing to go wrong is always the same: while no task was in the bucket
\* that get_next_wait_ms leaves out, no deadline is passed over and no assertion fails.
LateOnlyIfSkipped ==
  skipped = {} => tpc # "aborted" /\ (tpc = "top" => Overdue = {})

\* The thread never sleeps through what it waits for, although add_task and the
\* destructor notify after they have released m_mutex: a notification is still to come
\* for each new task and for m_stop, and as long as no task was left out it waits
\* without a time limit only if no task is in the wheel.
NoMissedWakeup ==
  tpc = "waiting" =>
    /\ input # << >> => \E c \in Callers : call[c] = "notifying"
    /\ stop => life = "stopping"
    /\ wake_at = Untimed /\ skipped = {} => \A t \in Tasks : status[t] # "scheduled"

\* The thread takes up every task it is given, unless the timer is destroyed first.
AddedIsScheduled ==
  \A t \in Tasks : status[t] = "input" ~>
                     status[t] \in {"scheduled", "committed"} \/ stop \/ ~Alive

\* A task whose time comes is committed, as long as no task was in the bucket that
\* get_next_wait_ms leaves out.  (The last millisecond has none after it to tick in.)
DueRunsUnlessSkipped ==
  \A t \in Tasks :
    status[t] = "scheduled" /\ deadline[t] < MaxTime
      ~> status[t] = "committed" \/ skipped # {} \/ stop

\* The destructor returns, whatever the timer's thread is doing when it begins: the join
\* of that thread never blocks it, only the destructor of m_thread_pool may.
DestructorReturnsUnlessPoolBlocks ==
  life = "stopping" ~> life \in {"destroyed", "blocked"} \/ ~Alive

\* "When the time has come it is committed" (my_simple_timer.cpp:66).
DueRuns ==
  \A t \in Tasks :
    status[t] = "scheduled" /\ deadline[t] < MaxTime
      ~> status[t] = "committed" \/ stop
=============================================================================
