------------------------- MODULE SalesServerProofs -------------------------
(***************************************************************************)
(* The summary of SalesServer, for any messages and any width of unsigned  *)
(* int: it is exact whenever the spin lock is free.                        *)
(***************************************************************************)
EXTENDS SalesServer, SumTheorems, TLAPS

Uints == 0..UintLimit - 1

Types ==
  /\ at \in [Threads -> {"matching", "matched", "receiving", "spawning", "sleeping",
                         "reading", "failed"}]
  /\ mpc \in [Messages -> {"new", "sent", "lost", "received", "dropped", "unpacking",
                           "locking", "finding", "updating", "earning", "unlocking",
                           "added"}]
  /\ count \in Nat /\ lock \in BOOLEAN
  /\ sales \in [Ids -> {None} \cup [sold : Uints, revenue : Uints]]
  /\ found \in [Messages -> BOOLEAN]

\* Inside add_sales, with the lock.
Critical == {m \in Messages : mpc[m] \in {"finding", "updating", "earning", "unlocking"}}

\* The lock is taken by one thread at a time, it stays taken, and it is released.
LockInv ==
  /\ \A m, n \in Critical : m = n
  /\ Critical # {} => at["log"] # "reading"
  /\ lock <=> Critical # {} \/ at["log"] = "reading"

\* The messages whose number, or revenue, is in the summary, added to the end or not.
Sold == {m \in Messages : mpc[m] \in {"earning", "unlocking", "added"}}
Earned == {m \in Messages : mpc[m] \in {"unlocking", "added"}}

Part(i, field, S) ==
  SumFunction([m \in Messages |-> IF m.id = i /\ m \in S THEN m[field] ELSE 0])

\* What the map holds of an id follows from how far each message has come.
SalesInv ==
  /\ \A i \in Ids : sales[i] = None <=> \A m \in Sold : m.id # i
  /\ \A i \in Ids : sales[i] # None =>
       /\ sales[i].sold = Part(i, "sold", Sold) % UintLimit
       /\ Part(i, "revenue", Earned) < UintLimit =>
            sales[i].revenue = Part(i, "revenue", Earned)
  /\ \A m \in Messages : mpc[m] = "updating" => (found[m] <=> sales[m.id] # None)

\* A message is counted before anything else happens to it.
Counted == {m \in Messages : mpc[m] \notin {"new", "sent", "lost"}}
CountInv == Cardinality(Counted) = count

-----------------------------------------------------------------------------
(* Sums and remainders *)

\* A remainder may be taken before an addition as well as after it.
LEMMA ModAdds ==
  ASSUME NEW n \in Nat \ {0}, NEW a \in Nat, NEW b \in Nat
  PROVE  ((a % n) + b) % n = (a + b) % n
<1>1. PICK q \in Nat, r \in 0..n - 1 : a = n * q + r /\ r = a % n
  <2>1. a % n \in 0..n - 1 /\ a = n * (a \div n) + (a % n) /\ a \div n \in Nat
    OBVIOUS
  <2> QED
    BY <2>1
<1>2. PICK k \in Nat, s \in 0..n - 1 : r + b = n * k + s /\ s = (r + b) % n
  <2>1. r + b \in Nat
    OBVIOUS
  <2>2. /\ (r + b) % n \in 0..n - 1 /\ r + b = n * ((r + b) \div n) + ((r + b) % n)
        /\ (r + b) \div n \in Nat
    BY <2>1
  <2> QED
    BY <2>2
<1>3. a + b = (q + k) * n + s
  <2> DEFINE x == n * q
             y == n * k
             z == (q + k) * n
  <2>1. z = x + y /\ x \in Nat /\ y \in Nat
    OBVIOUS
  <2>2. a = x + r /\ r + b = y + s
    BY <1>1, <1>2
  <2> HIDE DEF x, y, z
  <2>3. a + b = z + s
    BY <2>1, <2>2
  <2> QED
    BY <2>3 DEF z
<1>4. \A j \in Nat : (j * n + s) % n = s
  OBVIOUS
<1>5. q + k \in Nat
  OBVIOUS
<1>6. ((q + k) * n + s) % n = s
  BY <1>4, <1>5
<1> QED
  BY <1>1, <1>2, <1>3, <1>6

\* The remainder of what is small enough is the number itself.
LEMMA ModOfSmall == ASSUME NEW n \in Nat \ {0}, NEW r \in 0..n - 1 PROVE r % n = r
OBVIOUS

\* The sums are of numbers.
LEMMA PartIsNat ==
  ASSUME NEW i \in Ids, NEW field \in {"sold", "revenue"}, NEW S
  PROVE  Part(i, field, S) \in Nat
<1> DEFINE g == [m \in Messages |-> IF m.id = i /\ m \in S THEN m[field] ELSE 0]
           z == [m \in Messages |-> 0]
<1>1. IsFiniteSet(Messages) /\ \A m \in Messages : m.sold \in Nat /\ m.revenue \in Nat
  BY SalesServerAssumption DEF SalesServerAssumption
<1>2. \A m \in Messages : m[field] \in Nat
  BY <1>1
<1>3. g \in [Messages -> Int] /\ z \in [Messages -> Int] /\ \A m \in Messages : z[m] <= g[m]
  BY <1>2
<1>4. SumFunction(z) = 0 /\ SumFunction(z) <= SumFunction(g) /\ SumFunction(g) \in Int
  <2>1. \A m \in Messages : z[m] = 0
    OBVIOUS
  <2> HIDE DEF g, z
  <2> QED
    BY <1>1, <1>3, <2>1, SumOfZeros, SumIsMonotonic, SumIsInt
<1> QED
  BY <1>4 DEF Part

\* One message more is its number, or revenue, more for its id, nothing for another.
LEMMA PartGrows ==
  ASSUME NEW i \in Ids, NEW field \in {"sold", "revenue"}, NEW S, NEW m \in Messages \ S
  PROVE  Part(i, field, S \cup {m}) = Part(i, field, S) + IF m.id = i THEN m[field] ELSE 0
<1> DEFINE f == [n \in Messages |-> IF n.id = i /\ n \in S THEN n[field] ELSE 0]
           g == [n \in Messages |-> IF n.id = i /\ n \in S \cup {m} THEN n[field] ELSE 0]
<1>1. IsFiniteSet(Messages) /\ \A n \in Messages : n.sold \in Nat /\ n.revenue \in Nat
  BY SalesServerAssumption DEF SalesServerAssumption
<1>2. \A n \in Messages : n[field] \in Nat
  BY <1>1
<1>3. f \in [Messages -> Int] /\ g \in [Messages -> Int]
  BY <1>2
<1>4. \A n \in Messages \ {m} : g[n] = f[n]
  OBVIOUS
<1>5. f[m] = 0 /\ g[m] = IF m.id = i THEN m[field] ELSE 0
  OBVIOUS
<1>6. SumFunction(g) = SumFunction(f) + g[m] - f[m] /\ SumFunction(f) \in Int
  <2> HIDE DEF f, g
  <2> QED
    BY <1>1, <1>3, <1>4, SumChanges, SumIsInt
<1>7. g[m] \in Int
  BY <1>3
<1> QED
  BY <1>5, <1>6, <1>7 DEF Part
\* An id of which nothing is in a set has nothing there to sum up.
LEMMA PartOfNone ==
  ASSUME NEW i \in Ids, NEW field \in {"sold", "revenue"}, NEW S, \A m \in S : m.id # i
  PROVE  Part(i, field, S) = 0
<1> DEFINE g == [m \in Messages |-> IF m.id = i /\ m \in S THEN m[field] ELSE 0]
<1>1. IsFiniteSet(Messages)
  BY SalesServerAssumption DEF SalesServerAssumption
<1>2. \A m \in Messages : g[m] = 0
  OBVIOUS
<1>3. g \in [Messages -> Int]
  BY <1>2
<1>4. SumFunction(g) = 0
  <2> HIDE DEF g
  <2> QED
    BY <1>1, <1>2, <1>3, SumOfZeros
<1> QED
  BY <1>4 DEF Part

-----------------------------------------------------------------------------
(* The invariant is inductive *)

Inv == Types /\ LockInv /\ SalesInv /\ CountInv

\* With no message sent there is nothing in the summary.
LEMMA InitInv == Init => Inv
<1> SUFFICES ASSUME Init PROVE Inv
  OBVIOUS
<1>1. Types
  <2>1. at \in [Threads -> {"matching"}] /\ mpc \in [Messages -> {"new"}]
    BY DEF Init
  <2>2. sales \in [Ids -> {None}] /\ found \in [Messages -> BOOLEAN]
    BY DEF Init
  <2>3. count \in Nat /\ lock \in BOOLEAN
    BY DEF Init
  <2> QED
    BY <2>1, <2>2, <2>3 DEF Types
<1>2. Critical = {} /\ Sold = {} /\ Counted = {}
  BY DEF Init, Critical, Sold, Counted
<1>3. LockInv
  BY <1>2 DEF Init, LockInv, Threads
<1>4. SalesInv
  BY <1>2 DEF Init, SalesInv
<1>5. CountInv
  BY <1>2, FS_EmptySet DEF Init, CountInv
<1> QED
  BY <1>1, <1>3, <1>4, <1>5 DEF Inv

\* Every variable keeps its type; a sale is added to a record that is there.
LEMMA TypesStep == ASSUME Inv, [Next]_vars PROVE Types'
<1> USE SalesServerAssumption DEF SalesServerAssumption, Inv, Types, Goto, Become, config,
        summary, Threads, Uints
<1>1. ASSUME ConfigStep PROVE Types'
  BY <1>1 DEF ConfigStep, Match, Bind, GotHttpAddr, GotTimeInterval
<1>2. ASSUME NEW m \in Messages, Send(m) \/ LingerExpires(m) \/ AddLock(m) PROVE Types'
  BY <1>2 DEF Send, LingerExpires, AddLock, TestAndSet
<1>3. ASSUME NEW m \in Messages, UnpackThrows(m) \/ Unpack(m) \/ Find(m) \/ AddUnlock(m)
      PROVE  Types'
  BY <1>3 DEF UnpackThrows, Unpack, Find, AddUnlock, Clear
<1>4. ASSUME NEW m \in Messages, Insert(m) PROVE Types'
  BY <1>4 DEF Insert, Ids
<1>5. ASSUME NEW m \in Messages, IncSold(m) PROVE Types'
  <2>1. m.id \in Ids /\ m.sold \in Nat
    BY DEF Ids
  <2>2. sales[m.id] \in [sold : Uints, revenue : Uints]
    BY <1>5, <2>1 DEF IncSold, SalesInv
  <2>3. (sales[m.id].sold + m.sold) % UintLimit \in Uints
    BY <2>1, <2>2
  <2>4. sales' = [sales EXCEPT ![m.id] =
                    [sales[m.id] EXCEPT !.sold = (sales[m.id].sold + m.sold) % UintLimit]]
    BY <1>5 DEF IncSold
  <2>5. [sales[m.id] EXCEPT !.sold = (sales[m.id].sold + m.sold) % UintLimit]
          \in [sold : Uints, revenue : Uints]
    BY <2>2, <2>3
  <2>6. sales' \in [Ids -> {None} \cup [sold : Uints, revenue : Uints]]
    BY <2>1, <2>4, <2>5
  <2> QED
    BY <1>5, <2>6 DEF IncSold
<1>6. ASSUME NEW m \in Messages, IncRevenue(m) PROVE Types'
  <2>1. m.id \in Ids
    BY DEF Ids
  <2>2. sales[m.id] \in [sold : Uints, revenue : Uints]
    BY <1>6, <2>1 DEF IncRevenue, SalesInv, Sold
  <2>3. PICK value \in Uints : sales' = [sales EXCEPT ![m.id] = [sales[m.id] EXCEPT !.revenue = value]]
    BY <1>6 DEF IncRevenue
  <2>4. sales' \in [Ids -> {None} \cup [sold : Uints, revenue : Uints]]
    BY <2>1, <2>2, <2>3
  <2> QED
    BY <1>6, <2>4 DEF IncRevenue
<1>7. ASSUME NEW m \in Messages, Receive(m) \/ Spawn(m) PROVE Types'
  BY <1>7 DEF Receive, Spawn
<1>8. CASE LogStep
  BY <1>8 DEF LogStep, LogLock, MinMaxSales, TestAndSet
<1>9. CASE ConfigCrashes \/ MainReturns
  BY <1>9 DEF ConfigCrashes, MainReturns
<1>10. CASE RecvThrows
  BY <1>10 DEF RecvThrows
<1>11. CASE UNCHANGED vars
  BY <1>11 DEF vars
<1> QED
  BY <1>1, <1>2, <1>3, <1>4, <1>5, <1>6, <1>7, <1>8, <1>9, <1>10, <1>11
     DEF Next, AddStep, RecvStep

\* Only who finds the flag clear sets it, and only who has set it clears it.
LEMMA LockStep == ASSUME Inv, [Next]_vars PROVE LockInv'
<1> USE DEF Inv, Types, LockInv, Critical, Goto, Become, config, summary, Threads
<1>1. ASSUME ConfigStep PROVE LockInv'
  <2>1. UNCHANGED <<mpc, lock>>
    BY <1>1 DEF ConfigStep, Match, Bind, GotHttpAddr, GotTimeInterval
  <2>2. at'["log"] = "reading" <=> at["log"] = "reading"
    <3>1. ASSUME NEW p \in Threads, Match(p) PROVE at'["log"] = "reading" <=> at["log"] = "reading"
      BY <3>1 DEF Match
    <3>2. CASE Bind
      BY <3>2 DEF Bind, Got
    <3>3. CASE GotHttpAddr \/ GotTimeInterval
      BY <3>3 DEF GotHttpAddr, GotTimeInterval, Got
    <3> QED
      BY <1>1, <3>1, <3>2, <3>3 DEF ConfigStep
  <2> QED
    BY <2>1, <2>2
<1>2. ASSUME NEW m \in Messages, Send(m) \/ LingerExpires(m) PROVE LockInv'
  BY <1>2 DEF Send, LingerExpires
<1>3. ASSUME NEW m \in Messages, AddLock(m) PROVE LockInv'
  BY <1>3 DEF AddLock, TestAndSet
<1>4. ASSUME NEW m \in Messages, UnpackThrows(m) \/ Unpack(m) \/ Find(m) PROVE LockInv'
  BY <1>4 DEF UnpackThrows, Unpack, Find
<1>5. ASSUME NEW m \in Messages, Insert(m) \/ IncSold(m) \/ IncRevenue(m) PROVE LockInv'
  BY <1>5 DEF Insert, IncSold, IncRevenue
<1>6. ASSUME NEW m \in Messages, AddUnlock(m) PROVE LockInv'
  BY <1>6 DEF AddUnlock, Clear
<1>7. ASSUME NEW m \in Messages, Receive(m) \/ Spawn(m) PROVE LockInv'
  BY <1>7 DEF Receive, Spawn
<1>8. CASE LogStep
  BY <1>8 DEF LogStep, LogLock, MinMaxSales, TestAndSet
<1>9. CASE ConfigCrashes \/ MainReturns
  BY <1>9 DEF ConfigCrashes, MainReturns
<1>10. CASE RecvThrows
  BY <1>10 DEF RecvThrows
<1>11. CASE UNCHANGED vars
  BY <1>11 DEF vars
<1> QED
  BY <1>1, <1>2, <1>3, <1>4, <1>5, <1>6, <1>7, <1>8, <1>9, <1>10, <1>11
     DEF Next, AddStep, RecvStep

\* count goes up with each message received, which never becomes new again.
LEMMA CountStep == ASSUME Inv, [Next]_vars PROVE CountInv'
<1> USE DEF Inv, Types, CountInv, Goto, Become, config, summary
<1>1. ASSUME UNCHANGED <<Counted, count>> PROVE CountInv'
  BY <1>1
<1>2. ASSUME NEW m \in Messages, Receive(m) PROVE CountInv'
  <2>1. Counted' = Counted \cup {m} /\ m \notin Counted /\ count' = count + 1
    BY <1>2 DEF Receive, Counted
  <2>2. IsFiniteSet(Counted)
    BY SalesServerAssumption, FS_Subset DEF SalesServerAssumption, Counted
  <2>3. Cardinality(Counted \cup {m}) = Cardinality(Counted) + 1
    BY <2>1, <2>2, FS_AddElement
  <2> QED
    BY <2>1, <2>3
<1>3. ASSUME UNCHANGED count, \A m \in Messages : mpc'[m] \in {"new", "sent", "lost"}
                                                    <=> mpc[m] \in {"new", "sent", "lost"}
      PROVE  CountInv'
  BY <1>1, <1>3 DEF Counted
<1>4. ASSUME ConfigStep \/ LogStep \/ ConfigCrashes \/ MainReturns \/ RecvThrows PROVE CountInv'
  BY <1>3, <1>4 DEF ConfigStep, Match, Bind, GotHttpAddr, GotTimeInterval, LogStep, LogLock,
                    MinMaxSales, ConfigCrashes, MainReturns, RecvThrows
<1>5. ASSUME NEW m \in Messages, Send(m) \/ LingerExpires(m) \/ AddLock(m) \/ Spawn(m)
      PROVE  CountInv'
  BY <1>3, <1>5 DEF Send, LingerExpires, AddLock, Spawn
<1>6. ASSUME NEW m \in Messages, AddStep(m) PROVE CountInv'
  BY <1>3, <1>6 DEF AddStep, UnpackThrows, Unpack, Find, Insert, IncSold, IncRevenue, AddUnlock
<1>7. CASE UNCHANGED vars
  BY <1>1, <1>7 DEF vars, Counted
<1> QED
  BY <1>2, <1>4, <1>5, <1>6, <1>7 DEF Next, RecvStep

\* Who has the lock is the only one to change the map, in the order: number, revenue.
LEMMA SalesStep == ASSUME Inv, [Next]_vars PROVE SalesInv'
<1> USE DEF Inv, Types, Goto, Become, config, summary
<1>1. ASSUME UNCHANGED <<sales, Sold, Earned>>,
             \A m \in Messages : mpc'[m] = "updating" =>
               (mpc[m] = "updating" /\ found'[m] = found[m]) \/ found'[m] = (sales[m.id] # None)
      PROVE  SalesInv'
  <2>2. \A i \in Ids : Part(i, "sold", Sold)' = Part(i, "sold", Sold)
    BY <1>1 DEF Part
  <2>3. \A i \in Ids : Part(i, "revenue", Earned)' = Part(i, "revenue", Earned)
    BY <1>1 DEF Part
  <2> QED
    BY <1>1, <2>2, <2>3 DEF SalesInv
<1>2. ASSUME NEW m \in Messages, mpc[m] = "updating" PROVE Critical = {m}
  BY <1>2 DEF LockInv, Critical
<1>3. ASSUME NEW m \in Messages PROVE m.id \in Ids /\ m.sold \in Uints /\ m.revenue \in Uints
  BY SalesServerAssumption DEF SalesServerAssumption, Ids, Uints
<1>4. UintLimit \in Nat \ {0} /\ Uints = 0..UintLimit - 1
  BY SalesServerAssumption DEF SalesServerAssumption, Uints
<1>5. ASSUME NEW m \in Messages, Insert(m) PROVE SalesInv'
  <2>1. /\ mpc[m] = "updating" /\ mpc' = [mpc EXCEPT ![m] = "unlocking"]
        /\ sales' = [sales EXCEPT ![m.id] = [sold |-> m.sold, revenue |-> m.revenue]]
        /\ ~found[m]
    BY <1>5 DEF Insert
  <2>2. /\ Sold' = Sold \cup {m} /\ Earned' = Earned \cup {m}
        /\ m \notin Sold /\ m \notin Earned /\ Earned \subseteq Sold
    BY <2>1 DEF Sold, Earned
  <2>3. sales[m.id] = None /\ \A n \in Sold : n.id # m.id
    BY <1>3, <2>1 DEF SalesInv
  <2>4. \A n \in Messages : mpc'[n] # "updating"
    BY <1>2, <2>1 DEF Critical
  <2>5. ASSUME NEW i \in Ids
        PROVE  /\ Part(i, "sold", Sold)'
                    = Part(i, "sold", Sold) + IF m.id = i THEN m.sold ELSE 0
               /\ Part(i, "revenue", Earned)'
                    = Part(i, "revenue", Earned) + IF m.id = i THEN m.revenue ELSE 0
               /\ Part(i, "sold", Sold) \in Nat /\ Part(i, "revenue", Earned) \in Nat
    <3>1. /\ Part(i, "sold", Sold)' = Part(i, "sold", Sold \cup {m})
          /\ Part(i, "revenue", Earned)' = Part(i, "revenue", Earned \cup {m})
      BY <2>2 DEF Part
    <3> QED
      BY <2>2, <3>1, PartGrows, PartIsNat
  <2>6. Part(m.id, "sold", Sold) = 0 /\ Part(m.id, "revenue", Earned) = 0
    BY <1>3, <2>2, <2>3, PartOfNone
  <2>7. ASSUME NEW i \in Ids PROVE sales'[i] = None <=> \A n \in Sold' : n.id # i
    <3>1. [sold |-> m.sold, revenue |-> m.revenue] # None
      BY <1>3, <1>4, SalesServerAssumption DEF SalesServerAssumption
    <3> QED
      BY <1>3, <2>1, <2>2, <2>3, <3>1 DEF SalesInv
  <2>8. ASSUME NEW i \in Ids, sales'[i] # None
        PROVE  /\ sales'[i].sold = Part(i, "sold", Sold)' % UintLimit
               /\ Part(i, "revenue", Earned)' < UintLimit =>
                    sales'[i].revenue = Part(i, "revenue", Earned)'
    <3>1. CASE i = m.id
      <4>1. sales'[i].sold = m.sold /\ sales'[i].revenue = m.revenue
        BY <2>1, <3>1
      <4>2. Part(i, "sold", Sold)' = m.sold /\ Part(i, "revenue", Earned)' = m.revenue
        BY <1>3, <2>5, <2>6, <3>1, <1>4
      <4>3. m.sold % UintLimit = m.sold
        BY <1>3, <1>4, ModOfSmall
      <4> QED
        BY <4>1, <4>2, <4>3
    <3>2. CASE i # m.id
      <4>1. sales'[i] = sales[i]
        BY <2>1, <3>2
      <4>2. /\ Part(i, "sold", Sold)' = Part(i, "sold", Sold)
            /\ Part(i, "revenue", Earned)' = Part(i, "revenue", Earned)
        BY <2>5, <3>2
      <4> QED
        BY <2>8, <4>1, <4>2 DEF SalesInv
    <3> QED
      BY <3>1, <3>2
  <2> QED
    BY <2>4, <2>7, <2>8 DEF SalesInv
<1>6. ASSUME NEW m \in Messages, IncSold(m) PROVE SalesInv'
  <2>1. /\ mpc[m] = "updating" /\ mpc' = [mpc EXCEPT ![m] = "earning"] /\ found[m]
        /\ sales' = [sales EXCEPT ![m.id] =
                       [sales[m.id] EXCEPT !.sold = (sales[m.id].sold + m.sold) % UintLimit]]
    BY <1>6 DEF IncSold
  <2>2. Sold' = Sold \cup {m} /\ m \notin Sold /\ Earned' = Earned
    BY <2>1 DEF Sold, Earned
  <2>3. sales[m.id] # None /\ sales[m.id] \in [sold : Uints, revenue : Uints]
    BY <1>3, <2>1 DEF SalesInv
  <2>4. \A n \in Messages : mpc'[n] # "updating"
    BY <1>2, <2>1 DEF Critical
  <2>5. ASSUME NEW i \in Ids
        PROVE  /\ Part(i, "sold", Sold)'
                    = Part(i, "sold", Sold) + IF m.id = i THEN m.sold ELSE 0
               /\ Part(i, "revenue", Earned)' = Part(i, "revenue", Earned)
               /\ Part(i, "sold", Sold) \in Nat
    <3>1. /\ Part(i, "sold", Sold)' = Part(i, "sold", Sold \cup {m})
          /\ Part(i, "revenue", Earned)' = Part(i, "revenue", Earned)
      BY <2>2 DEF Part
    <3> QED
      BY <2>2, <3>1, PartGrows, PartIsNat
  <2>6. /\ sales'[m.id] # None /\ sales'[m.id].revenue = sales[m.id].revenue
        /\ sales'[m.id].sold = (sales[m.id].sold + m.sold) % UintLimit
    <3>1. (sales[m.id].sold + m.sold) % UintLimit \in Uints
      BY <1>3, <1>4, <2>3
    <3>2. sales'[m.id] \in [sold : Uints, revenue : Uints]
      BY <1>3, <2>1, <2>3, <3>1
    <3>3. sales'[m.id] # None
      BY <1>4, <3>2, SalesServerAssumption DEF SalesServerAssumption
    <3> QED
      BY <1>3, <2>1, <2>3, <3>3
  <2>7. ASSUME NEW i \in Ids PROVE sales'[i] = None <=> \A n \in Sold' : n.id # i
    BY <1>3, <2>1, <2>2, <2>3, <2>6 DEF SalesInv
  <2>8. ASSUME NEW i \in Ids, sales'[i] # None
        PROVE  /\ sales'[i].sold = Part(i, "sold", Sold)' % UintLimit
               /\ Part(i, "revenue", Earned)' < UintLimit =>
                    sales'[i].revenue = Part(i, "revenue", Earned)'
    <3>1. CASE i = m.id
      <4>1. sales[i].sold = Part(i, "sold", Sold) % UintLimit
        BY <2>3, <3>1 DEF SalesInv
      <4>2. m.sold \in Nat
        BY <1>3, <1>4
      <4>3. sales'[i].sold = (Part(i, "sold", Sold) + m.sold) % UintLimit
        <5>1. Part(i, "sold", Sold) \in Nat
          BY <2>5
        <5>2. ((Part(i, "sold", Sold) % UintLimit) + m.sold) % UintLimit
                = (Part(i, "sold", Sold) + m.sold) % UintLimit
          BY ONLY <1>4, <4>2, <5>1, ModAdds
        <5> QED
          BY <2>6, <3>1, <4>1, <5>2
      <4> QED
        BY <2>3, <2>5, <2>6, <3>1, <4>3 DEF SalesInv
    <3>2. CASE i # m.id
      <4>1. sales'[i] = sales[i]
        BY <2>1, <3>2
      <4>2. /\ Part(i, "sold", Sold)' = Part(i, "sold", Sold)
            /\ Part(i, "revenue", Earned)' = Part(i, "revenue", Earned)
        BY <2>5, <3>2
      <4> QED
        BY <2>8, <4>1, <4>2 DEF SalesInv
    <3> QED
      BY <3>1, <3>2
  <2> QED
    BY <2>4, <2>7, <2>8 DEF SalesInv
<1>7. ASSUME NEW m \in Messages, IncRevenue(m) PROVE SalesInv'
  <2>1. PICK value \in Uints :
          /\ sales[m.id].revenue + m.revenue < UintLimit =>
               value = sales[m.id].revenue + m.revenue
          /\ sales' = [sales EXCEPT ![m.id] = [sales[m.id] EXCEPT !.revenue = value]]
    BY <1>7, <1>4 DEF IncRevenue
  <2>2. mpc[m] = "earning" /\ mpc' = [mpc EXCEPT ![m] = "unlocking"]
    BY <1>7 DEF IncRevenue
  <2>3. Sold' = Sold /\ m \in Sold /\ Earned' = Earned \cup {m} /\ m \notin Earned
    BY <2>2 DEF Sold, Earned
  <2>4. sales[m.id] # None /\ sales[m.id] \in [sold : Uints, revenue : Uints]
    BY <1>3, <2>3 DEF SalesInv
  <2>5. \A n \in Messages : mpc'[n] # "updating"
    BY <2>2 DEF LockInv, Critical
  <2>6. ASSUME NEW i \in Ids
        PROVE  /\ Part(i, "sold", Sold)' = Part(i, "sold", Sold)
               /\ Part(i, "revenue", Earned)'
                    = Part(i, "revenue", Earned) + IF m.id = i THEN m.revenue ELSE 0
               /\ Part(i, "revenue", Earned) \in Nat
    <3>1. /\ Part(i, "sold", Sold)' = Part(i, "sold", Sold)
          /\ Part(i, "revenue", Earned)' = Part(i, "revenue", Earned \cup {m})
      BY <2>3 DEF Part
    <3> QED
      BY <2>3, <3>1, PartGrows, PartIsNat
  <2>7. /\ sales'[m.id] # None /\ sales'[m.id].sold = sales[m.id].sold
        /\ sales'[m.id].revenue = value
    <3>1. sales'[m.id] \in [sold : Uints, revenue : Uints]
      BY <1>3, <2>1, <2>4
    <3>2. sales'[m.id] # None
      BY <1>4, <3>1, SalesServerAssumption DEF SalesServerAssumption
    <3> QED
      BY <1>3, <2>1, <2>4, <3>2
  <2>8. ASSUME NEW i \in Ids PROVE sales'[i] = None <=> \A n \in Sold' : n.id # i
    BY <1>3, <2>1, <2>3, <2>4, <2>7 DEF SalesInv
  <2>9. ASSUME NEW i \in Ids, sales'[i] # None
        PROVE  /\ sales'[i].sold = Part(i, "sold", Sold)' % UintLimit
               /\ Part(i, "revenue", Earned)' < UintLimit =>
                    sales'[i].revenue = Part(i, "revenue", Earned)'
    <3>1. CASE i = m.id
      <4>1. Part(i, "revenue", Earned) < UintLimit =>
              sales[i].revenue = Part(i, "revenue", Earned)
        BY <2>4, <3>1 DEF SalesInv
      <4>2. m.revenue \in Nat /\ UintLimit \in Nat
        BY <1>3, <1>4
      <4>3. Part(i, "revenue", Earned)' < UintLimit => value = Part(i, "revenue", Earned)'
        BY <2>1, <2>6, <3>1, <4>1, <4>2
      <4> QED
        BY <2>4, <2>6, <2>7, <3>1, <4>3 DEF SalesInv
    <3>2. CASE i # m.id
      <4>1. sales'[i] = sales[i]
        BY <2>1, <3>2
      <4>2. /\ Part(i, "sold", Sold)' = Part(i, "sold", Sold)
            /\ Part(i, "revenue", Earned)' = Part(i, "revenue", Earned)
        BY <2>6, <3>2
      <4> QED
        BY <2>9, <4>1, <4>2 DEF SalesInv
    <3> QED
      BY <3>1, <3>2
  <2> QED
    BY <2>5, <2>8, <2>9 DEF SalesInv
<1>8. ASSUME NEW m \in Messages, UnpackThrows(m) \/ Unpack(m) \/ AddUnlock(m) PROVE SalesInv'
  BY <1>1, <1>8 DEF UnpackThrows, Unpack, AddUnlock, Sold, Earned
<1>9. ASSUME NEW m \in Messages, Find(m) PROVE SalesInv'
  BY <1>1, <1>9 DEF Find, Sold, Earned
<1>10. ASSUME NEW m \in Messages,
              Send(m) \/ LingerExpires(m) \/ AddLock(m) \/ Receive(m) \/ Spawn(m)
       PROVE  SalesInv'
  BY <1>1, <1>10 DEF Send, LingerExpires, AddLock, Receive, Spawn, Sold, Earned
<1>11. ASSUME ConfigStep \/ LogStep \/ ConfigCrashes \/ MainReturns PROVE SalesInv'
  BY <1>1, <1>11 DEF ConfigStep, Match, Bind, GotHttpAddr, GotTimeInterval, LogStep, LogLock,
                     MinMaxSales, ConfigCrashes, MainReturns, Sold, Earned
<1>12. CASE RecvThrows
  BY <1>1, <1>12 DEF RecvThrows, Sold, Earned
<1>13. CASE UNCHANGED vars
  BY <1>1, <1>13 DEF vars, Sold, Earned
<1> QED
  BY <1>5, <1>6, <1>7, <1>8, <1>9, <1>10, <1>11, <1>12, <1>13 DEF Next, AddStep, RecvStep

-----------------------------------------------------------------------------
\* The invariant holds throughout.
THEOREM Invariance == Spec => []Inv
<1>1. Inv /\ [Next]_vars => Inv'
  BY TypesStep, LockStep, SalesStep, CountStep DEF Inv
<1> QED
  BY InitInv, <1>1, PTL DEF Spec

\* When the lock is free, or the thread that reports has it, the sums are those of the
\* messages that were added to the end.
LEMMA ExactWhenFree == ASSUME Inv PROVE SummaryExact
<1> SUFFICES ASSUME ~lock \/ at["log"] = "reading" PROVE SummaryExact
  BY DEF SummaryExact
<1> DEFINE Added == {m \in Messages : mpc[m] = "added"}
<1>1. Critical = {}
  BY DEF Inv, LockInv
<1>2. Sold = Added /\ Earned = Added
  BY <1>1 DEF Critical, Sold, Earned
<1>3. ASSUME NEW i \in Ids
      PROVE  Total(i, "sold") = Part(i, "sold", Sold) /\ Total(i, "revenue") = Part(i, "revenue", Earned)
  <2>1. \A m \in Messages : m \in Added <=> mpc[m] = "added"
    OBVIOUS
  <2> HIDE DEF Added
  <2> QED
    BY <1>2, <2>1 DEF Total, Part
<1>4. Cardinality(Added) <= count
  <2>1. Added \subseteq Counted /\ IsFiniteSet(Counted)
    BY SalesServerAssumption, FS_Subset DEF SalesServerAssumption, Counted
  <2> QED
    BY <2>1, FS_Subset, FS_CardinalityType DEF Inv, CountInv
<1>5. ASSUME NEW i \in Ids
      PROVE  IF \E m \in Messages : m.id = i /\ mpc[m] = "added"
             THEN /\ sales[i] # None
                  /\ sales[i].sold = Total(i, "sold") % UintLimit
                  /\ Total(i, "revenue") < UintLimit => sales[i].revenue = Total(i, "revenue")
             ELSE sales[i] = None
  <2>1. sales[i] = None <=> ~ \E m \in Messages : m.id = i /\ mpc[m] = "added"
    BY <1>2 DEF Inv, SalesInv
  <2> QED
    BY <1>3, <2>1 DEF Inv, SalesInv
<1> QED
  BY <1>4, <1>5 DEF SummaryExact

\* Nobody leaves the lock set: it is a thread inside add_sales, or the one that
\* reports, that holds it, and neither waits for anything there.
LockIsHeld == lock => Critical # {} \/ at["log"] = "reading"

\* The spin lock never stays set after its holder has left, whichever way it leaves.
THEOREM LockIsReleased == Spec => []LockIsHeld
<1>1. Inv => LockIsHeld
  BY DEF Inv, LockInv, LockIsHeld
<1> QED
  BY <1>1, Invariance, PTL

\* No sale is lost or half added, whatever threads add sales at the same time.
THEOREM SummaryIsExact == Spec => []SummaryExact
<1>1. Inv => SummaryExact
  BY ExactWhenFree
<1> QED
  BY <1>1, Invariance, PTL
=============================================================================
