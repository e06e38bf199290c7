---------------------------- MODULE SalesServer ----------------------------
(***************************************************************************)
(* The sales server and its clients (src/05).  Two threads begin by        *)
(* reading the configuration: one receives the messages of the clients and *)
(* gives each a detached thread that adds it to the summary, the other     *)
(* reports the count of messages and the best and the worst product.       *)
(*                                                                         *)
(* The summary is protected by a spin lock, Config::get by nothing.  ZeroMQ*)
(* delivers a message or drops it when the socket lingers too long, and    *)
(* the HTTP post changes nothing, whether or not it succeeds.              *)
(***************************************************************************)
EXTENDS Integers, FiniteSets, Functions

CONSTANTS
  Messages,   \* the sales that clients send: records with an id, sold and revenue
  UintLimit,  \* 2^w of `unsigned int'
  None

ASSUME SalesServerAssumption ==
  /\ IsFiniteSet(Messages)
  /\ UintLimit \in Nat \ {0}
  /\ \A m \in Messages : {m.sold, m.revenue} \subseteq 0..UintLimit - 1
  /\ None \notin {m.id : m \in Messages}
  /\ None \notin [sold : 0..UintLimit - 1, revenue : 0..UintLimit - 1]

Ids == {m.id : m \in Messages}
Threads == {"recv", "log"}

VARIABLES
  program,  \* running, or over
  what,     \* m_what: the key that was matched last
  key,      \* the argument of Config::get, of each of the two threads
  at,       \* where they are
  mpc,      \* where each message, then its detached thread, is
  count,    \* count
  lock,     \* the flag of m_lock
  sales,    \* m_sales: None for an id that is not in the map
  found     \* the answer of m_sales.find, of each detached thread

config == <<what, key, at>>
summary == <<lock, sales>>
vars == <<program, config, mpc, count, summary, found>>

Init ==
  /\ program = "running" /\ what = None
  /\ key = [recv |-> "zmq_ipc_addr", log |-> "http_addr"]
  /\ at = [p \in Threads |-> "matching"]
  /\ mpc = [m \in Messages |-> "new"]
  /\ count = 0 /\ lock = FALSE
  /\ sales = [i \in Ids |-> None]
  /\ found = [m \in Messages |-> FALSE]

Running == program = "running"
Goto(p, place) == at' = [at EXCEPT ![p] = place]
Become(m, place) == mpc' = [mpc EXCEPT ![m] = place]

-----------------------------------------------------------------------------
(* Config::get: match the key, then take the name from m_what *)

Match(p) ==
  /\ Running /\ at[p] = "matching"
  /\ what' = key[p]
  /\ Goto(p, "matched")
  /\ UNCHANGED <<program, key, mpc, count, summary, found>>

InGet(p) == at[p] \in {"matching", "matched"}

\* What is left in m_what is of no consequence once nobody is to read it.
LastRead(p) == what' = IF \E q \in Threads \ {p} : InGet(q) THEN what ELSE None

Got(p, k) == Running /\ at[p] = "matched" /\ key[p] = k

\* The other thread may have matched in between: the value is then of its key.  No
\* value but that of zmq_ipc_addr binds, and only time_interval is an integer.
Bind ==
  /\ Got("recv", "zmq_ipc_addr")
  /\ Goto("recv", IF what = "zmq_ipc_addr" THEN "receiving" ELSE "failed")
  /\ LastRead("recv")
  /\ UNCHANGED <<program, key, mpc, count, summary, found>>

\* A wrong http_addr is only posted to in vain.
GotHttpAddr ==
  /\ Got("log", "http_addr")
  /\ key' = [key EXCEPT !["log"] = "time_interval"]
  /\ Goto("log", "matching")
  /\ UNCHANGED <<program, what, mpc, count, summary, found>>

GotTimeInterval ==
  /\ Got("log", "time_interval")
  /\ Goto("log", IF what = "time_interval" THEN "sleeping" ELSE "failed")
  /\ LastRead("log")
  /\ UNCHANGED <<program, key, mpc, count, summary, found>>

\* Two threads write m_what and the stack of Lua at once, or Lua has no handler for a
\* wrong type.
ConfigCrashes ==
  /\ Running
  /\ \/ \A p \in Threads : InGet(p)
     \/ Got("log", "time_interval") /\ what # "time_interval"
  /\ program' = "over"
  /\ UNCHANGED <<config, mpc, count, summary, found>>

-----------------------------------------------------------------------------
(* The clients and ZeroMQ *)

Send(m) ==
  /\ mpc[m] = "new"
  /\ Become(m, "sent")
  /\ UNCHANGED <<program, config, count, summary, found>>

LingerExpires(m) ==
  /\ mpc[m] = "sent"
  /\ Become(m, "lost")
  /\ UNCHANGED <<program, config, count, summary, found>>

-----------------------------------------------------------------------------
(* recv_cycle *)

Receive(m) ==
  /\ Running /\ at["recv"] = "receiving"
  /\ mpc[m] = "sent"
  /\ count' = count + 1
  /\ Become(m, "received")
  /\ Goto("recv", "spawning")
  /\ UNCHANGED <<program, what, key, summary, found>>

Spawn(m) ==
  /\ Running /\ at["recv"] = "spawning" /\ mpc[m] = "received"
  /\ Become(m, "unpacking")
  /\ Goto("recv", "receiving")
  /\ UNCHANGED <<program, what, key, count, summary, found>>

\* sock.recv throws, or std::thread's constructor: the message, though counted, is
\* dropped.  fu2.wait returns, and ~future of fu1 waits for the other thread.
RecvThrows ==
  /\ Running /\ at["recv"] \in {"receiving", "spawning"}
  /\ mpc' = [m \in Messages |-> IF mpc[m] = "received" THEN "dropped" ELSE mpc[m]]
  /\ Goto("recv", "failed")
  /\ UNCHANGED <<program, what, key, count, summary, found>>

MainReturns ==
  /\ Running /\ \A p \in Threads : at[p] = "failed"
  /\ program' = "over"
  /\ UNCHANGED <<config, mpc, count, summary, found>>

-----------------------------------------------------------------------------
(* SplinLock: a thread that finds the flag set yields and tries again *)

TestAndSetMutant == lock' = TRUE
TestAndSet == ~lock /\ lock' = TRUE

ClearMutant(m) == lock' = ~found[m]
Clear(m) == lock' = FALSE

-----------------------------------------------------------------------------
(* The detached thread of a message: Summary::add_sales *)

\* The bytes are not those of a SalesData, and the exception leaves the thread's
\* function: std::terminate.
UnpackThrows(m) ==
  /\ Running /\ mpc[m] = "unpacking"
  /\ program' = "over"
  /\ UNCHANGED <<config, mpc, count, summary, found>>

Unpack(m) ==
  /\ Running /\ mpc[m] = "unpacking"
  /\ Become(m, "locking")
  /\ UNCHANGED <<program, config, count, summary, found>>

AddLock(m) ==
  /\ Running /\ mpc[m] = "locking"
  /\ TestAndSet
  /\ Become(m, "finding")
  /\ UNCHANGED <<program, config, count, sales, found>>

Find(m) ==
  /\ Running /\ mpc[m] = "finding"
  /\ found' = [found EXCEPT ![m] = sales[m.id] # None]
  /\ Become(m, "updating")
  /\ UNCHANGED <<program, config, count, summary>>

Insert(m) ==
  /\ Running /\ mpc[m] = "updating" /\ ~found[m]
  /\ sales' = [sales EXCEPT ![m.id] = [sold |-> m.sold, revenue |-> m.revenue]]
  /\ Become(m, "unlocking")
  /\ UNCHANGED <<program, config, count, lock, found>>

IncSold(m) ==
  /\ Running /\ mpc[m] = "updating" /\ found[m]
  /\ sales' = [sales EXCEPT ![m.id].sold = (@ + m.sold) % UintLimit]
  /\ Become(m, "earning")
  /\ UNCHANGED <<program, config, count, lock, found>>

\* The sum is a double: out of range, its conversion is undefined.
IncRevenue(m) ==
  /\ Running /\ mpc[m] = "earning"
  /\ \E value \in 0..UintLimit - 1 :
       /\ LET sum == sales[m.id].revenue + m.revenue
          IN  sum < UintLimit => value = sum
       /\ sales' = [sales EXCEPT ![m.id].revenue = value]
  /\ Become(m, "unlocking")
  /\ UNCHANGED <<program, config, count, lock, found>>

AddUnlock(m) ==
  /\ Running /\ mpc[m] = "unlocking"
  /\ Clear(m)
  /\ found' = [found EXCEPT ![m] = FALSE]  \* out of scope
  /\ Become(m, "added")
  /\ UNCHANGED <<program, config, count, sales>>

-----------------------------------------------------------------------------
(* log_cycle: what it reads and posts is an output, so that only its turns with *)
(* the lock are steps                                                          *)

LogLock ==
  /\ Running /\ at["log"] = "sleeping"
  /\ TestAndSet
  /\ Goto("log", "reading")
  /\ UNCHANGED <<program, what, key, mpc, count, sales, found>>

MinMaxSales ==
  /\ Running /\ at["log"] = "reading"
  /\ lock' = FALSE
  /\ Goto("log", "sleeping")
  /\ UNCHANGED <<program, what, key, mpc, count, sales, found>>

-----------------------------------------------------------------------------
AddStep(m) ==
  \/ UnpackThrows(m) \/ Unpack(m) \/ Find(m) \/ Insert(m) \/ IncSold(m)
  \/ IncRevenue(m) \/ AddUnlock(m)
ConfigStep ==
  (\E p \in Threads : Match(p)) \/ Bind \/ GotHttpAddr \/ GotTimeInterval
RecvStep == \E m \in Messages : Receive(m) \/ Spawn(m)
LogStep == LogLock \/ MinMaxSales

Next ==
  \/ ConfigStep
  \/ \E m \in Messages : Send(m) \/ LingerExpires(m) \/ AddLock(m) \/ AddStep(m)
  \/ RecvStep \/ LogStep
  \/ ConfigCrashes \/ RecvThrows \/ MainReturns

\* Every thread that can take a step is run.  The spin lock promises nobody a turn, but
\* the thread that reports sleeps between two turns of its own for seconds, so that
\* one that spins finds the lock free again and again.
Fairness ==
  /\ \A p \in Threads : WF_vars(Match(p))
  /\ WF_vars(Bind) /\ WF_vars(GotHttpAddr) /\ WF_vars(GotTimeInterval)
  /\ \A m \in Messages : WF_vars(AddStep(m)) /\ SF_vars(AddLock(m))
  /\ WF_vars(RecvStep) /\ WF_vars(LogStep)

Spec == Init /\ [][Next]_vars /\ Fairness

-----------------------------------------------------------------------------
(* What the server is relied on for *)

Total(i, field) ==
  SumFunction([m \in Messages |-> IF m.id = i /\ mpc[m] = "added" THEN m[field] ELSE 0])

\* Whenever the lock is free, and when the thread that reports looks, no sale is lost
\* or half added: an id is in the map once a sale of it was added, with the number sold
\* modulo 2^w and, as long as the sum fits, the revenue.  A message was counted before.
SummaryExact ==
  ~lock \/ at["log"] = "reading" =>
    /\ \A i \in Ids :
         IF \E m \in Messages : m.id = i /\ mpc[m] = "added"
         THEN /\ sales[i] # None
              /\ sales[i].sold = Total(i, "sold") % UintLimit
              /\ Total(i, "revenue") < UintLimit => sales[i].revenue = Total(i, "revenue")
         ELSE sales[i] = None
    /\ Cardinality({m \in Messages : mpc[m] = "added"}) <= count

\* A message that is not lost on its way or dropped by a server that fails is added,
\* and one that got its thread is added even then: nobody keeps the spin lock,
\* whichever way out of add_sales it takes.
SalesReachSummary ==
  \A m \in Messages :
    mpc[m] \in {"sent", "unpacking"} ~>
      \/ mpc[m] \in {"lost", "dropped", "added"}
      \/ mpc[m] = "sent" /\ at["recv"] = "failed"
      \/ ~Running
=============================================================================
