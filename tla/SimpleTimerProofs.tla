-------------------------- MODULE SimpleTimerProofs --------------------------
(***************************************************************************)
(* Proofs about SimpleTimer, for any callers, tasks, timeouts, size of the *)
(* wheel and speed of the clock.  The arithmetic of the wheel comes first, *)
(* then what get_next_wait_ms and the insertion into a bucket give, then   *)
(* one lemma for each part of the inductive invariant IInv.                *)
(***************************************************************************)
EXTENDS SimpleTimer, FiniteSetTheorems, SequenceTheorems, TLAPS

BeforeClock == {"testing", "waiting", "timedout", "clock"}

\* The callers' tasks and the thread's list of new tasks hold no task twice.
PlaceInv ==
  /\ \A i \in DOMAIN input : status[input[i]] = "input"
  /\ \A i, j \in DOMAIN input : input[i] = input[j] => i = j
  /\ \A i \in DOMAIN batch : status[batch[i]] = "batch"
  /\ \A i, j \in DOMAIN batch : batch[i] = batch[j] => i = j

\* How the clock, m_tick_count, the calls of tick and the deadlines are related.
TimeInv ==
  /\ tick <= now
  /\ tpc = "ticking" => cursor <= tick
  /\ tpc \in BeforeClock => wait = NoWait \/ tick + wait \in Nat
  /\ \A t \in Tasks :
       /\ status[t] = "new" => timeout[t] = 0
       /\ status[t] \in {"input", "batch"} => added[t] <= now
       /\ status[t] = "batch" /\ tpc = "ticking" => added[t] <= tick
       /\ status[t] = "scheduled" => deadline[t] >= added[t] + timeout[t]
       /\ status[t] = "committed" /\ timeout[t] > 0 => now > added[t] + timeout[t]

\* Where the thread is in its loop, while no task has been left out: no deadline is
\* behind the thread, and it waits for none longer than until that deadline.
SlipInv ==
  skipped = {} =>
    /\ tpc # "aborted"
    /\ \A t \in Tasks : status[t] = "scheduled" =>
         /\ tpc = "top" => deadline[t] >= tick
         /\ tpc \in BeforeClock => wait # NoWait /\ deadline[t] >= tick + wait
         /\ tpc = "ticking" => deadline[t] >= cursor

IInv == TypeOK /\ PlaceInv /\ TimeInv /\ WheelSound /\ SlipInv

-----------------------------------------------------------------------------
\* Every time has one bucket, and the times of a bucket are whole turns apart.
LEMMA Division ==
  ASSUME NEW n \in Nat
  PROVE  /\ n = WheelLen * (n \div WheelLen) + (n % WheelLen)
         /\ n % WheelLen \in Slots /\ n \div WheelLen \in Nat
<1>1. WheelLen \in Nat \ {0}
  BY SimpleTimerAssumption DEF SimpleTimerAssumption
<1> QED
  BY <1>1 DEF Slots

LEMMA SameTurn ==
  ASSUME NEW q \in Int, NEW r \in Int, NEW s \in Slots, NEW t \in Slots,
         WheelLen * q + s = WheelLen * r + t
  PROVE  q = r /\ s = t
<1> USE SimpleTimerAssumption DEF SimpleTimerAssumption, Slots
<1>1. CASE q = r
  BY <1>1
<1>2. CASE q < r
  <2>1. WheelLen * (r - q) >= WheelLen
    BY <1>2
  <2>2. WheelLen * (r - q) = s - t
    OBVIOUS
  <2> QED
    BY <2>1, <2>2
<1>3. CASE q > r
  <2>1. WheelLen * (q - r) >= WheelLen
    BY <1>3
  <2>2. WheelLen * (q - r) = t - s
    OBVIOUS
  <2> QED
    BY <2>1, <2>2
<1> QED
  BY <1>1, <1>2, <1>3

LEMMA BucketOf ==
  ASSUME NEW q \in Int, NEW s \in Slots, NEW n \in Nat, n = WheelLen * q + s
  PROVE  n % WheelLen = s
<1>1. WheelLen \in Nat \ {0}
  BY SimpleTimerAssumption DEF SimpleTimerAssumption
<1>2. n = WheelLen * (n \div WheelLen) + (n % WheelLen) /\ n % WheelLen \in Slots
      /\ n \div WheelLen \in Int
  BY Division
<1>3. WheelLen * q + s = WheelLen * (n \div WheelLen) + (n % WheelLen)
  BY <1>2
<1> QED
  BY <1>2, <1>3, SameTurn

LEMMA SameBucket ==
  ASSUME NEW m \in Nat, NEW n \in Nat, m % WheelLen = n % WheelLen,
         m <= n, n < m + WheelLen
  PROVE  m = n
<1> DEFINE r == m % WheelLen
           a == m \div WheelLen
           b == n \div WheelLen
<1>1. m = WheelLen * a + r /\ n = WheelLen * b + r /\ a \in Nat /\ b \in Nat /\ r \in Int
  <2>1. /\ m = WheelLen * a + (m % WheelLen) /\ m % WheelLen \in Slots /\ a \in Nat
        /\ n = WheelLen * b + (n % WheelLen) /\ b \in Nat
    BY Division
  <2>2. \A s \in Slots : s \in Int
    BY SimpleTimerAssumption DEF SimpleTimerAssumption, Slots
  <2> QED
    BY <2>1, <2>2
<1> HIDE DEF r, a, b
<1>2. ~(b > a)
  <2> SUFFICES ASSUME b > a PROVE WheelLen * (b - a) >= WheelLen
    BY <1>1, SimpleTimerAssumption DEF SimpleTimerAssumption
  <2> QED
    BY <1>1, SimpleTimerAssumption DEF SimpleTimerAssumption
<1>3. ~(b < a)
  <2> SUFFICES ASSUME b < a PROVE WheelLen * (a - b) >= WheelLen
    BY <1>1, SimpleTimerAssumption DEF SimpleTimerAssumption
  <2> QED
    BY <1>1, SimpleTimerAssumption DEF SimpleTimerAssumption
<1> QED
  BY <1>1, <1>2, <1>3

\* Every bucket but the current one is one of those get_next_wait_ms looks at.
LEMMA OtherBucket ==
  ASSUME NEW m \in Nat, NEW s \in Slots, s # m % WheelLen
  PROVE  \E i \in 1..WheelLen - 1 : (m + i) % WheelLen = s
<1> DEFINE q == m \div WheelLen
           r == m % WheelLen
<1>1. m = WheelLen * q + r /\ q \in Nat /\ r \in Slots /\ r # s
  <2>1. m = WheelLen * (m \div WheelLen) + (m % WheelLen) /\ m \div WheelLen \in Nat
        /\ m % WheelLen \in Slots
    BY Division
  <2> QED
    BY <2>1
<1> HIDE DEF q, r
<1> USE SimpleTimerAssumption DEF SimpleTimerAssumption, Slots
<1>2. CASE s > r
  <2>1. m + (s - r) = WheelLen * q + s /\ s - r \in 1..WheelLen - 1
    BY <1>1, <1>2
  <2>2. m + (s - r) \in Nat /\ q \in Int
    BY <1>1, <2>1
  <2>3. (m + (s - r)) % WheelLen = s
    BY <2>1, <2>2, BucketOf
  <2> QED
    BY <2>1, <2>3
<1>3. CASE s < r
  <2>1. m + (s - r + WheelLen) = WheelLen * (q + 1) + s /\ s - r + WheelLen \in 1..WheelLen - 1
    BY <1>1, <1>3
  <2>2. m + (s - r + WheelLen) \in Nat /\ q + 1 \in Int
    BY <1>1, <2>1
  <2>3. (m + (s - r + WheelLen)) % WheelLen = s
    BY <2>1, <2>2, BucketOf
  <2> QED
    BY <2>1, <2>3
<1> QED
  BY <1>1, <1>2, <1>3

-----------------------------------------------------------------------------
\* The task at the front of a bucket has the least deadline there.
LEMMA FrontTask ==
  ASSUME TypeOK, WheelSound, NEW s \in Slots, wheel[s] # << >>
  PROVE  /\ Head(wheel[s]) \in Tasks /\ status[Head(wheel[s])] = "scheduled"
         /\ deadline[Head(wheel[s])] % WheelLen = s
         /\ \A i \in DOMAIN wheel[s] : deadline[Head(wheel[s])] <= deadline[wheel[s][i]]
         /\ wheel[s] \in Seq(Tasks) /\ Tail(wheel[s]) \in Seq(Tasks)
<1>1. wheel[s] \in Seq(Tasks) /\ Head(wheel[s]) = wheel[s][1] /\ 1 \in DOMAIN wheel[s]
  <2>1. wheel[s] \in Seq(Tasks)
    BY DEF TypeOK
  <2>2. Len(wheel[s]) \in Nat \ {0}
    BY <2>1, EmptySeq
  <2> QED
    BY <2>1, <2>2
<1>2. \A i \in DOMAIN wheel[s] : wheel[s][i] \in Tasks /\ deadline[wheel[s][i]] \in Nat
  BY <1>1 DEF TypeOK
<1>3. \A i \in DOMAIN wheel[s] : i = 1 \/ 1 < i
  BY <1>1
<1> QED
  BY <1>1, <1>2, <1>3 DEF WheelSound

\* What get_next_wait_ms returns is the time to some task's deadline, or -1.
LEMMA NextWaitIsForSome ==
  ASSUME TypeOK, WheelSound, NEW ms, IsNextWait(ms)
  PROVE  ms = NoWait \/ (ms \in Int /\ tick + ms \in Nat)
<1>1. \A i \in Offsets : TimeLeft(i) \in Int /\ tick + TimeLeft(i) \in Nat
  <2> SUFFICES ASSUME NEW i \in Offsets PROVE TimeLeft(i) \in Int /\ tick + TimeLeft(i) \in Nat
    OBVIOUS
  <2>1. tick + i \in Nat /\ wheel[(tick + i) % WheelLen] # << >>
    BY SimpleTimerAssumption DEF SimpleTimerAssumption, Offsets, TypeOK
  <2>2. (tick + i) % WheelLen \in Slots
    BY <2>1, Division
  <2>3. deadline[Head(wheel[(tick + i) % WheelLen])] \in Nat
    BY <2>1, <2>2, FrontTask DEF TypeOK
  <2> QED
    BY <2>3 DEF TimeLeft, TypeOK
<1>2. ms = NoWait \/ \E i \in Offsets : ms = TimeLeft(i)
  BY DEF IsNextWait
<1> QED
  BY <1>1, <1>2

\* An interval from 1 is as large as its end.
LEMMA IntervalSize ==
  ASSUME NEW n \in Nat
  PROVE  IsFiniteSet(1..n) /\ Cardinality(1..n) = n
<1>1. 1 \in Int /\ n \in Int
  OBVIOUS
<1> QED
  BY <1>1, FS_Interval

\* A bucket and the one with a task put in at position p, in the order of deadlines.
InsertsAt(bucket, t, due, new, p) ==
  /\ Len(new) = Len(bucket) + 1
  /\ \A i \in 1..Len(bucket) + 1 :
       new[i] = IF i < p THEN bucket[i] ELSE IF i = p THEN t ELSE bucket[i - 1]
  /\ \A i \in 1..Len(bucket) :
       IF i < p THEN deadline[bucket[i]] < due ELSE due <= deadline[bucket[i]]

\* Inserting a task keeps a sorted bucket's tasks and its order.
LEMMA InsertedFacts ==
  ASSUME TypeOK, WheelSound, NEW s \in Slots, NEW t \in Tasks, NEW due \in Nat
  PROVE  /\ Inserted(wheel[s], t, due) \in Seq(Tasks)
         /\ \E p \in 1..Len(wheel[s]) + 1 :
              InsertsAt(wheel[s], t, due, Inserted(wheel[s], t, due), p)
<1> DEFINE b == wheel[s]
           early == {i \in DOMAIN b : deadline[b[i]] < due}
           p == Position(b, due)
<1>1. /\ b \in Seq(Tasks) /\ Len(b) \in Nat /\ DOMAIN b = 1..Len(b)
      /\ \A i \in 1..Len(b) : deadline[b[i]] \in Nat
  BY DEF TypeOK
<1>2. \A i, j \in 1..Len(b) : i < j => deadline[b[i]] <= deadline[b[j]]
  BY <1>1 DEF WheelSound
<1>3. PICK n \in 0..Len(b) : early = 1..n
  <2>1. IsFiniteSet(1..Len(b)) /\ early \subseteq 1..Len(b)
    BY <1>1, IntervalSize
  <2>2. IsFiniteSet(early) /\ Cardinality(early) \in Nat /\ Cardinality(early) <= Len(b)
    <3>1. Cardinality(1..Len(b)) = Len(b)
      BY <1>1, IntervalSize
    <3>2. IsFiniteSet(early) /\ Cardinality(early) <= Cardinality(1..Len(b))
      BY <2>1, FS_Subset
    <3> QED
      BY <3>1, <3>2, FS_CardinalityType
  <2>3. ASSUME NEW i \in early PROVE i \in 1..Cardinality(early)
    <3>1. 1..i \subseteq early
      BY <1>1, <1>2
    <3>2. i \in Nat \ {0}
      BY <2>1, <1>1
    <3>3. Cardinality(1..i) = i
      BY <3>2, IntervalSize
    <3> QED
      BY <3>1, <3>2, <3>3, <2>1, <2>2, FS_Subset
  <2>4. Cardinality(1..Cardinality(early)) = Cardinality(early) /\ IsFiniteSet(1..Cardinality(early))
    BY <2>2, IntervalSize
  <2>5. early = 1..Cardinality(early)
    BY <2>3, <2>4, FS_Subset
  <2> QED
    BY <2>2, <2>5, <1>1
<1>4. /\ \A j \in 1..(n + 1) - 1 : deadline[b[j]] < due
      /\ n + 1 <= Len(b) => due <= deadline[b[n + 1]]
  <2>1. \A j \in 1..n : j \in early
    BY <1>3
  <2>2. n + 1 <= Len(b) => n + 1 \in DOMAIN b /\ n + 1 \notin early
    BY <1>1, <1>3
  <2> QED
    BY <2>1, <2>2, <1>1
<1>5. /\ p \in 1..Len(b) + 1
      /\ \A j \in 1..p - 1 : deadline[b[j]] < due
      /\ p <= Len(b) => due <= deadline[b[p]]
  <2>1. \E i \in 1..Len(b) + 1 : /\ \A j \in 1..i - 1 : deadline[b[j]] < due
                                 /\ i <= Len(b) => due <= deadline[b[i]]
    <3> WITNESS n + 1 \in 1..Len(b) + 1
    <3> QED
      BY <1>4
  <2> QED
    BY <2>1, Zenon DEF Position
<1> HIDE DEF p
<1>6. Inserted(b, t, due) = SubSeq(b, 1, p - 1) \o <<t>> \o SubSeq(b, p, Len(b))
  BY DEF Inserted, InsertAt, p
<1>7. Inserted(b, t, due) \in Seq(Tasks)
  BY <1>1, <1>5, <1>6
<1>8. /\ Len(Inserted(b, t, due)) = Len(b) + 1
      /\ \A i \in 1..Len(b) + 1 :
           Inserted(b, t, due)[i] = IF i < p THEN b[i] ELSE IF i = p THEN t ELSE b[i - 1]
  <2> DEFINE x == SubSeq(b, 1, p - 1)
             y == SubSeq(b, p, Len(b))
  <2>1. x \in Seq(Tasks) /\ Len(x) = p - 1 /\ \A i \in 1..p - 1 : x[i] = b[i]
    BY <1>1, <1>5
  <2>2. /\ y \in Seq(Tasks) /\ Len(y) = Len(b) - p + 1
        /\ \A i \in 1..Len(b) - p + 1 : y[i] = b[p + i - 1]
    BY <1>1, <1>5
  <2> HIDE DEF x, y
  <2>3. Inserted(b, t, due) = x \o <<t>> \o y
    BY <1>6 DEF x, y
  <2>4. /\ x \o <<t>> \in Seq(Tasks) /\ Len(x \o <<t>>) = p
        /\ \A i \in 1..p : (x \o <<t>>)[i] = IF i < p THEN b[i] ELSE t
    BY <2>1, <1>5
  <2>5. /\ Len((x \o <<t>>) \o y) = Len(b) + 1
        /\ \A i \in 1..Len(b) + 1 : ((x \o <<t>>) \o y)[i] =
             IF i <= p THEN (x \o <<t>>)[i] ELSE y[i - p]
    <3> DEFINE z == x \o <<t>>
    <3>1. z \in Seq(Tasks) /\ Len(z) = p
      BY <2>4
    <3> HIDE DEF z
    <3>2. /\ Len(z \o y) = Len(b) + 1
          /\ \A i \in 1..Len(b) + 1 : (z \o y)[i] = IF i <= p THEN z[i] ELSE y[i - p]
      BY <3>1, <2>2, <1>1, <1>5
    <3> QED
      BY <3>2 DEF z
  <2>6. \A i \in 1..Len(b) + 1 : i > p => i - p \in 1..Len(b) - p + 1 /\ p + (i - p) - 1 = i - 1
    BY <1>1, <1>5
  <2>7. ASSUME NEW i \in 1..Len(b) + 1
        PROVE  ((x \o <<t>>) \o y)[i] = IF i < p THEN b[i] ELSE IF i = p THEN t ELSE b[i - 1]
    <3>1. CASE i <= p
      <4>1. i \in 1..p
        BY <3>1, <1>5
      <4> QED
        BY <3>1, <4>1, <2>4, <2>5
    <3>2. CASE ~(i <= p)
      <4>1. i > p /\ ~(i < p) /\ i # p
        BY <3>2, <1>1, <1>5
      <4>2. y[i - p] = b[i - 1]
        BY <4>1, <2>2, <2>6
      <4> QED
        BY <3>2, <4>1, <4>2, <2>5
    <3> QED
      BY <3>1, <3>2, Zenon
  <2> QED
    BY <2>3, <2>5, <2>7
<1>9. ASSUME NEW i \in 1..Len(b)
      PROVE  IF i < p THEN deadline[b[i]] < due ELSE due <= deadline[b[i]]
  <2>1. CASE i < p
    BY <2>1, <1>5
  <2>2. CASE ~(i < p)
    BY <2>2, <1>1, <1>2, <1>5
  <2> QED
    BY <2>1, <2>2
<1>10. InsertsAt(b, t, due, Inserted(b, t, due), p)
  BY <1>8, <1>9 DEF InsertsAt
<1> QED
  BY <1>5, <1>7, <1>10

\* The wheel is sound as long as it, the deadlines and who is scheduled stay.
LEMMA WheelFrame ==
  ASSUME TypeOK, WheelSound, wheel' = wheel, deadline' = deadline,
         \A t \in Tasks : status'[t] = "scheduled" <=> status[t] = "scheduled"
  PROVE  WheelSound'
<1>1. \A s \in Slots : \A i \in DOMAIN wheel[s] : wheel[s][i] \in Tasks
  BY DEF TypeOK
<1>2. \A s \in Slots : \A i \in DOMAIN wheel[s] : status'[wheel[s][i]] = "scheduled"
  BY <1>1 DEF WheelSound
<1> QED
  BY <1>2 DEF WheelSound

\* Removing the front of a bucket keeps the wheel sound.
LEMMA RemoveFront ==
  ASSUME TypeOK, WheelSound, NEW c \in Slots, NEW h, wheel[c] # << >>, h = Head(wheel[c]),
         wheel' = [wheel EXCEPT ![c] = Tail(wheel[c])],
         status' = [status EXCEPT ![h] = "committed"], deadline' = deadline
  PROVE  WheelSound'
<1>1. wheel \in [Slots -> Seq(Tasks)] /\ DOMAIN status = Tasks /\ deadline \in [Tasks -> Nat]
  BY DEF TypeOK
<1>2. /\ wheel[c] \in Seq(Tasks) /\ h \in Tasks /\ deadline[h] % WheelLen = c
      /\ Len(wheel[c]) \in Nat \ {0} /\ h = wheel[c][1] /\ 1 \in DOMAIN wheel[c]
  <2>1. wheel[c] \in Seq(Tasks) /\ h \in Tasks /\ deadline[h] % WheelLen = c
    BY FrontTask
  <2>2. Len(wheel[c]) \in Nat \ {0}
    BY <2>1, EmptySeq
  <2> QED
    BY <2>1, <2>2
<1>3. /\ \A s \in Slots : s # c => wheel'[s] = wheel[s]
      /\ wheel'[c] = Tail(wheel[c])
      /\ \A u \in Tasks : status'[u] = IF u = h THEN "committed" ELSE status[u]
  BY <1>1, <1>2
<1>4. /\ DOMAIN wheel'[c] = 1..Len(wheel[c]) - 1 /\ DOMAIN wheel[c] = 1..Len(wheel[c])
      /\ \A i \in 1..Len(wheel[c]) - 1 : wheel'[c][i] = wheel[c][i + 1]
  <2>1. /\ Tail(wheel[c]) \in Seq(Tasks) /\ Len(Tail(wheel[c])) = Len(wheel[c]) - 1
        /\ \A i \in 1..Len(Tail(wheel[c])) : Tail(wheel[c])[i] = wheel[c][i + 1]
    BY <1>2, HeadTailProperties
  <2>2. DOMAIN Tail(wheel[c]) = 1..Len(wheel[c]) - 1
    BY <2>1
  <2>3. \A i \in 1..Len(wheel[c]) - 1 : Tail(wheel[c])[i] = wheel[c][i + 1]
    BY <2>1
  <2>4. DOMAIN wheel[c] = 1..Len(wheel[c])
    BY <1>2
  <2> QED
    BY <2>2, <2>3, <2>4, <1>3
<1>5. \A s \in Slots : \A i \in DOMAIN wheel[s] :
        /\ wheel[s][i] \in Tasks /\ status[wheel[s][i]] = "scheduled"
        /\ deadline[wheel[s][i]] % WheelLen = s
  BY <1>1 DEF WheelSound
<1>6. \A i \in DOMAIN wheel[c] : i > 1 => wheel[c][i] # h
  BY <1>1, <1>2 DEF WheelSound
<1>7. ASSUME NEW s \in Slots, NEW i \in DOMAIN wheel'[s]
      PROVE  /\ status'[wheel'[s][i]] = "scheduled"
             /\ deadline'[wheel'[s][i]] % WheelLen = s
             /\ \A j \in DOMAIN wheel'[s] :
                  i < j => /\ deadline'[wheel'[s][i]] <= deadline'[wheel'[s][j]]
                           /\ wheel'[s][i] # wheel'[s][j]
  <2>1. CASE s = c
    <3>1. \A j \in DOMAIN wheel'[s] : /\ wheel'[s][j] = wheel[s][j + 1] /\ j \in Int
                                     /\ j + 1 \in DOMAIN wheel[s] /\ j + 1 > 1
      BY <2>1, <1>2, <1>4
    <3>2. wheel[s][i + 1] # h /\ wheel[s][i + 1] \in Tasks
      BY <2>1, <3>1, <1>5, <1>6
    <3>3. status'[wheel'[s][i]] = "scheduled" /\ deadline'[wheel'[s][i]] % WheelLen = s
      BY <3>1, <3>2, <1>3, <1>5
    <3>4. ASSUME NEW j \in DOMAIN wheel'[s], i < j
          PROVE  /\ deadline'[wheel'[s][i]] <= deadline'[wheel'[s][j]]
                 /\ wheel'[s][i] # wheel'[s][j]
      <4>1. i + 1 < j + 1 /\ i + 1 \in DOMAIN wheel[s] /\ j + 1 \in DOMAIN wheel[s]
        BY <3>1, <3>4
      <4>2. /\ deadline[wheel[s][i + 1]] <= deadline[wheel[s][j + 1]]
            /\ wheel[s][i + 1] # wheel[s][j + 1]
        BY <4>1 DEF WheelSound
      <4> QED
        BY <4>2, <3>1
    <3> QED
      BY <3>3, <3>4
  <2>2. CASE s # c
    <3>1. wheel'[s] = wheel[s] /\ i \in DOMAIN wheel[s]
      BY <2>2, <1>3
    <3>2. wheel[s][i] # h /\ wheel[s][i] \in Tasks
      BY <2>2, <3>1, <1>2, <1>5
    <3>3. status'[wheel[s][i]] = "scheduled"
      BY <3>1, <3>2, <1>3, <1>5
    <3>4. \A j \in DOMAIN wheel[s] :
            i < j => /\ deadline[wheel[s][i]] <= deadline[wheel[s][j]]
                     /\ wheel[s][i] # wheel[s][j]
      BY <3>1 DEF WheelSound
    <3> QED
      BY <3>1, <3>3, <3>4, <1>5
  <2> QED
    BY <2>1, <2>2
<1>8. ASSUME NEW u \in Tasks, status'[u] = "scheduled"
      PROVE  \E i \in DOMAIN wheel'[deadline'[u] % WheelLen] : wheel'[deadline'[u] % WheelLen][i] = u
  <2>1. u # h /\ status[u] = "scheduled"
    BY <1>8, <1>3
  <2>2. deadline[u] % WheelLen \in Slots
    BY <1>1, Division
  <2>3. PICK i \in DOMAIN wheel[deadline[u] % WheelLen] : wheel[deadline[u] % WheelLen][i] = u
    BY <2>1 DEF WheelSound
  <2>4. CASE deadline[u] % WheelLen = c
    <3>1. i # 1 /\ i \in 1..Len(wheel[c]) /\ wheel[c][i] = u
      BY <2>1, <2>3, <2>4, <1>2, <1>4
    <3>2. i - 1 \in DOMAIN wheel'[c] /\ (i - 1) + 1 = i
      BY <3>1, <1>2, <1>4
    <3>3. wheel'[c][i - 1] = u
      BY <3>1, <3>2, <1>4
    <3> QED
      BY <2>4, <3>2, <3>3
  <2>5. CASE deadline[u] % WheelLen # c
    BY <2>2, <2>3, <2>5, <1>3
  <2> QED
    BY <2>4, <2>5
<1> QED
  BY <1>7, <1>8 DEF WheelSound

\* Inserting a task with its deadline keeps the wheel sound.
LEMMA InsertTask ==
  ASSUME TypeOK, WheelSound, NEW t \in Tasks, status[t] # "scheduled",
         NEW due \in Nat, NEW c \in Slots, c = due % WheelLen,
         NEW new, new = Inserted(wheel[c], t, due),
         wheel' = [wheel EXCEPT ![c] = new], deadline' = [deadline EXCEPT ![t] = due],
         status' = [status EXCEPT ![t] = "scheduled"]
  PROVE  WheelSound'
<1>1. new \in Seq(Tasks)
  BY InsertedFacts
<1>2. wheel \in [Slots -> Seq(Tasks)] /\ DOMAIN status = Tasks /\ deadline \in [Tasks -> Nat]
  BY DEF TypeOK
<1>3. wheel[c] \in Seq(Tasks) /\ Len(wheel[c]) \in Nat /\ DOMAIN wheel[c] = 1..Len(wheel[c])
  BY <1>2
<1>4. PICK p \in 1..Len(wheel[c]) + 1 : InsertsAt(wheel[c], t, due, new, p)
  BY InsertedFacts
<1>5. DOMAIN new = 1..Len(wheel[c]) + 1
  BY <1>1, <1>3, <1>4 DEF InsertsAt
<1>6. due % WheelLen = c
  OBVIOUS
<1>7. \A s \in Slots : \A i \in DOMAIN wheel[s] :
        /\ wheel[s][i] \in Tasks /\ wheel[s][i] # t
        /\ deadline'[wheel[s][i]] = deadline[wheel[s][i]]
        /\ deadline[wheel[s][i]] \in Nat
        /\ status'[wheel[s][i]] = "scheduled" /\ deadline[wheel[s][i]] % WheelLen = s
  <2>1. \A s \in Slots : \A i \in DOMAIN wheel[s] :
          /\ wheel[s][i] \in Tasks /\ status[wheel[s][i]] = "scheduled"
          /\ deadline[wheel[s][i]] % WheelLen = s
    BY <1>2 DEF WheelSound
  <2> QED
    BY <2>1, <1>2
<1>8. /\ \A s \in Slots : s # c => wheel'[s] = wheel[s]
      /\ wheel'[c] = new /\ deadline'[t] = due /\ status'[t] = "scheduled"
  BY <1>1, <1>2
<1>9. ASSUME NEW s \in Slots, NEW i \in DOMAIN wheel'[s]
      PROVE  /\ status'[wheel'[s][i]] = "scheduled"
             /\ deadline'[wheel'[s][i]] % WheelLen = s
             /\ \A j \in DOMAIN wheel'[s] :
                  i < j => /\ deadline'[wheel'[s][i]] <= deadline'[wheel'[s][j]]
                           /\ wheel'[s][i] # wheel'[s][j]
  <2>1. CASE s # c
    <3>1. wheel'[s] = wheel[s]
      BY <2>1, <1>8
    <3> QED
      BY <3>1, <1>7 DEF WheelSound
  <2>2. CASE s = c
    <3>1. \A j \in DOMAIN new :
            \/ j < p /\ j \in DOMAIN wheel[c] /\ new[j] = wheel[c][j]
            \/ j = p /\ new[j] = t
            \/ j > p /\ j - 1 \in DOMAIN wheel[c] /\ new[j] = wheel[c][j - 1]
      <4> SUFFICES ASSUME NEW j \in DOMAIN new
                   PROVE  \/ j < p /\ j \in DOMAIN wheel[c] /\ new[j] = wheel[c][j]
                          \/ j = p /\ new[j] = t
                          \/ j > p /\ j - 1 \in DOMAIN wheel[c] /\ new[j] = wheel[c][j - 1]
        OBVIOUS
      <4>1. /\ new[j] = IF j < p THEN wheel[c][j] ELSE IF j = p THEN t ELSE wheel[c][j - 1]
            /\ j \in 1..Len(wheel[c]) + 1 /\ p \in 1..Len(wheel[c]) + 1
        BY <1>4, <1>5 DEF InsertsAt
      <4>2. CASE j < p
        BY <4>1, <4>2, <1>3
      <4>3. CASE j = p
        BY <4>1, <4>3, <1>3
      <4>4. CASE j > p
        BY <4>1, <4>4, <1>3
      <4> QED
        BY <4>1, <4>2, <4>3, <4>4, <1>3
    <3>2. status'[new[i]] = "scheduled" /\ deadline'[new[i]] % WheelLen = c
      BY <2>2, <3>1, <1>1, <1>6, <1>7, <1>8
    <3>3. ASSUME NEW j \in DOMAIN new, i < j
          PROVE  deadline'[new[i]] <= deadline'[new[j]] /\ new[i] # new[j]
      <4>1. i \in DOMAIN new /\ i \in Int /\ j \in Int /\ p \in Int
        BY <2>2, <1>3, <1>4, <1>5, <1>8
      <4>2. \A k, l \in DOMAIN wheel[c] :
              k < l => /\ deadline[wheel[c][k]] <= deadline[wheel[c][l]]
                       /\ wheel[c][k] # wheel[c][l]
        BY <1>1 DEF WheelSound
      <4>3. CASE j < p
        BY <4>1, <4>2, <4>3, <3>1, <3>3, <1>1, <1>7
      <4>4. CASE j = p
        <5>1. i \in DOMAIN wheel[c] /\ new[i] = wheel[c][i] /\ new[j] = t
          BY <4>1, <4>4, <3>1, <3>3
        <5>2. deadline[wheel[c][i]] < due
          BY <5>1, <4>1, <4>4, <3>3, <1>3, <1>4 DEF InsertsAt
        <5> QED
          BY <5>1, <5>2, <1>1, <1>7, <1>8
      <4>5. CASE j > p /\ i < p
        <5>1. /\ i \in DOMAIN wheel[c] /\ new[i] = wheel[c][i]
              /\ j - 1 \in DOMAIN wheel[c] /\ new[j] = wheel[c][j - 1] /\ i < j - 1
          BY <4>1, <4>5, <3>1
        <5> QED
          BY <5>1, <4>2, <1>1, <1>7
      <4>6. CASE j > p /\ i = p
        <5>1. j - 1 \in DOMAIN wheel[c] /\ new[j] = wheel[c][j - 1] /\ ~(j - 1 < p) /\ new[i] = t
          BY <4>1, <4>6, <3>1
        <5>2. due <= deadline[wheel[c][j - 1]]
          BY <5>1, <1>3, <1>4 DEF InsertsAt
        <5> QED
          BY <5>1, <5>2, <1>1, <1>7, <1>8
      <4>7. CASE j > p /\ i > p
        <5>1. /\ i - 1 \in DOMAIN wheel[c] /\ new[i] = wheel[c][i - 1]
              /\ j - 1 \in DOMAIN wheel[c] /\ new[j] = wheel[c][j - 1] /\ i - 1 < j - 1
          BY <4>1, <4>7, <3>1, <3>3
        <5> QED
          BY <5>1, <4>2, <1>1, <1>7
      <4> QED
        BY <4>1, <4>3, <4>4, <4>5, <4>6, <4>7
    <3> QED
      BY <2>2, <3>2, <3>3, <1>8
  <2> QED
    BY <2>1, <2>2
<1>10. ASSUME NEW u \in Tasks, status'[u] = "scheduled"
       PROVE  \E i \in DOMAIN wheel'[deadline'[u] % WheelLen] : wheel'[deadline'[u] % WheelLen][i] = u
  <2>1. CASE u = t
    <3>1. p \in DOMAIN new /\ new[p] = t
      BY <1>3, <1>4, <1>5 DEF InsertsAt
    <3> QED
      BY <2>1, <3>1, <1>6, <1>8
  <2>2. CASE u # t
    <3>1. status[u] = "scheduled" /\ deadline'[u] = deadline[u] /\ deadline[u] % WheelLen \in Slots
      BY <1>10, <2>2, <1>2, Division
    <3>2. PICK i \in DOMAIN wheel[deadline[u] % WheelLen] : wheel[deadline[u] % WheelLen][i] = u
      BY <3>1 DEF WheelSound
    <3>3. CASE deadline[u] % WheelLen # c
      BY <3>1, <3>2, <3>3, <1>8
    <3>4. CASE deadline[u] % WheelLen = c
      <4>1. i \in 1..Len(wheel[c]) /\ wheel[c][i] = u
        BY <3>2, <3>4, <1>3
      <4>2. CASE i < p
        <5>1. i \in DOMAIN new /\ new[i] = u
          BY <4>1, <4>2, <1>3, <1>4, <1>5 DEF InsertsAt
        <5> QED
          BY <5>1, <3>1, <3>4, <1>8
      <4>3. CASE ~(i < p)
        <5>1. i + 1 \in DOMAIN new /\ new[i + 1] = wheel[c][(i + 1) - 1] /\ (i + 1) - 1 = i
          BY <4>1, <4>3, <1>3, <1>4, <1>5 DEF InsertsAt
        <5> QED
          BY <5>1, <4>1, <3>1, <3>4, <1>8
      <4> QED
        BY <4>2, <4>3
    <3> QED
      BY <3>3, <3>4
  <2> QED
    BY <2>1, <2>2
<1> QED
  BY <1>9, <1>10 DEF WheelSound

\* While nothing is left out, every bucket get_next_wait_ms looks at is ahead.
LEMMA OffsetIsAhead ==
  ASSUME IInv, skipped = {}, tpc = "top", NEW i \in Offsets
  PROVE  /\ TimeLeft(i) \in Nat \ {0} /\ i \in 1..WheelLen - 1
         /\ TimeLeft(i) < WheelLen => TimeLeft(i) = i
<1> DEFINE s == (tick + i) % WheelLen
           d == deadline[Head(wheel[s])]
<1>1. WheelLen \in Nat \ {0} /\ tick \in Nat /\ i \in 1..WheelLen - 1 /\ wheel[s] # << >>
  BY SimpleTimerAssumption DEF SimpleTimerAssumption, Offsets, IInv, TypeOK
<1>2. tick + i \in Nat /\ s \in Slots
  <2>1. tick + i \in Nat
    BY <1>1
  <2> QED
    BY <2>1, Division
<1>3. Head(wheel[s]) \in Tasks /\ status[Head(wheel[s])] = "scheduled" /\ d % WheelLen = s
  BY <1>1, <1>2, FrontTask DEF IInv
<1>4. d \in Nat /\ d >= tick
  BY <1>3 DEF IInv, TypeOK, SlipInv
<1> HIDE DEF s, d
<1>5. d # tick
  <2>1. tick % WheelLen # (tick + i) % WheelLen
    <3>1. tick <= tick + i /\ tick + i < tick + WheelLen /\ tick # tick + i
      BY <1>1
    <3> QED
      BY <3>1, <1>1, <1>2, SameBucket
  <2> QED
    BY <2>1, <1>3 DEF s
<1>6. d < tick + WheelLen => d = tick + i
  <2>1. CASE d <= tick + i
    <3>1. d <= tick + i /\ tick + i < d + WheelLen /\ d % WheelLen = (tick + i) % WheelLen
      BY <2>1, <1>1, <1>3, <1>4, <1>5 DEF s
    <3> QED
      BY <3>1, <1>2, <1>4, SameBucket
  <2>2. CASE d > tick + i
    <3> SUFFICES ASSUME d < tick + WheelLen PROVE d = tick + i
      OBVIOUS
    <3>1. tick + i <= d /\ d < (tick + i) + WheelLen /\ (tick + i) % WheelLen = d % WheelLen
      BY <2>2, <1>1, <1>3, <1>4 DEF s
    <3> QED
      BY <3>1, <1>2, <1>4, SameBucket
  <2> QED
    BY <2>1, <2>2, <1>1, <1>4
<1>7. TimeLeft(i) = d - tick
  BY DEF TimeLeft, d, s
<1> QED
  BY <1>1, <1>4, <1>5, <1>6, <1>7

\* While nothing is left out, get_next_wait_ms returns the least time left.
LEMMA NextWaitIsLeast ==
  ASSUME IInv, skipped = {}, tpc = "top", NEW ms, IsNextWait(ms), NEW i \in Offsets
  PROVE  ms \in Nat \ {0} /\ ms <= TimeLeft(i)
<1>1. \A j \in Offsets : /\ TimeLeft(j) \in Nat \ {0} /\ j \in 1..WheelLen - 1
                         /\ TimeLeft(j) < WheelLen => TimeLeft(j) = j
  BY OffsetIsAhead
<1>2. CASE \E j \in Offsets : /\ ms = TimeLeft(j) /\ TimeLeft(j) < WheelLen
                              /\ \A k \in Offsets : TimeLeft(k) < WheelLen => j <= k
  <2> PICK j \in Offsets : /\ ms = TimeLeft(j) /\ TimeLeft(j) < WheelLen
                           /\ \A k \in Offsets : TimeLeft(k) < WheelLen => j <= k
    BY <1>2
  <2> QED
    BY <1>1, SimpleTimerAssumption DEF SimpleTimerAssumption
<1>3. CASE \E j \in Offsets : ms = TimeLeft(j) /\ \A k \in Offsets : ms <= TimeLeft(k)
  BY <1>1, <1>3
<1> QED
  BY <1>2, <1>3 DEF IsNextWait

\* While nothing is left out, it returns no more than the time left to any deadline.
LEMMA WaitIsNotLonger ==
  ASSUME IInv, skipped = {}, tpc = "top", NEW ms, IsNextWait(ms),
         DOMAIN wheel[tick % WheelLen] = {}, NEW u \in Tasks, status[u] = "scheduled"
  PROVE  ms # -1 /\ deadline[u] >= tick + ms
<1> DEFINE s == deadline[u] % WheelLen
<1>1. TypeOK /\ WheelSound /\ deadline[u] \in Nat /\ tick \in Nat
  BY DEF IInv, TypeOK
<1>2. s \in Slots
  BY <1>1, Division
<1>3. PICK k \in DOMAIN wheel[s] : wheel[s][k] = u
  BY <1>1 DEF WheelSound
<1>4. s # tick % WheelLen /\ wheel[s] # << >>
  BY <1>3
<1>5. PICK i \in 1..WheelLen - 1 : (tick + i) % WheelLen = s
  BY <1>1, <1>2, <1>4, OtherBucket
<1>6. i \in Offsets
  BY <1>4, <1>5 DEF Offsets
<1>7. TimeLeft(i) = deadline[Head(wheel[s])] - tick
  BY <1>5 DEF TimeLeft
<1>8. deadline[Head(wheel[s])] <= deadline[u] /\ deadline[Head(wheel[s])] \in Nat
  BY <1>1, <1>2, <1>3, <1>4, FrontTask DEF TypeOK
<1>9. ms \in Nat \ {0} /\ ms <= TimeLeft(i)
  BY <1>6, NextWaitIsLeast
<1> QED
  BY <1>1, <1>7, <1>8, <1>9

\* Every step keeps the types.
LEMMA TypePreserved == ASSUME IInv, [Next]_vars PROVE TypeOK'
<1> USE SimpleTimerAssumption DEF SimpleTimerAssumption, tasks, loop, NoWait, Untimed,
           IInv, TypeOK, Alive
<1>1. ASSUME NEW c \in Callers, NEW t \in Tasks, NEW msec \in Timeouts, AddNow(c, t, msec) PROVE TypeOK'
  BY <1>1 DEF AddNow
<1>2. ASSUME NEW c \in Callers, NEW t \in Tasks, NEW msec \in Timeouts, AddTimed(c, t, msec) PROVE TypeOK'
  BY <1>2 DEF AddTimed
<1>3. ASSUME NEW c \in Callers, AddNotify(c) PROVE TypeOK'
  BY <1>3 DEF AddNotify, NotifyThread
<1>4. CASE LoopTestStops
  BY <1>4 DEF LoopTestStops
<1>5. CASE AssertFails
  BY <1>5 DEF AssertFails
<1>6. CASE ChooseWait
  <2>1. wait' \in Int
    BY <1>6, NextWaitIsForSome DEF ChooseWait
  <2>2. skipped' \subseteq Tasks
    <3>1. wheel[tick % WheelLen] \in Seq(Tasks)
      BY Division
    <3>2. ToSet(wheel[tick % WheelLen]) \subseteq Tasks
      BY <3>1 DEF ToSet
    <3> QED
      BY <1>6, <3>2 DEF ChooseWait
  <2> QED
    BY <1>6, <2>1, <2>2 DEF ChooseWait
<1>7. CASE Wait
  BY <1>7 DEF Wait
<1>8. CASE TimeOut
  BY <1>8 DEF TimeOut
<1>9. CASE Return
  BY <1>9 DEF Return
<1>10. CASE Collect
  BY <1>10 DEF Collect
<1>11. CASE ReadClock
  <2>1. cursor' \in Nat
    BY <1>11 DEF ReadClock, Reached, TimeInv, BeforeClock
  <2> QED
    BY <1>11, <2>1 DEF ReadClock
<1>12. CASE CommitDue
  <2>1. cursor % WheelLen \in Slots
    BY Division
  <2>2. Tail(Bucket) \in Seq(Tasks)
    <3>1. Bucket # << >>
      BY <1>12 DEF CommitDue, FrontIsDue
    <3> QED
      BY <3>1, <2>1, FrontTask DEF Bucket
  <2>3. wheel' \in [Slots -> Seq(Tasks)]
    BY <1>12, <2>1, <2>2 DEF CommitDue, Bucket
  <2> QED
    BY <1>12, <2>3 DEF CommitDue
<1>13. CASE TickOver
  BY <1>13 DEF TickOver, MoreTicks, FrontIsDue, IsDue, Bucket
<1>14. CASE AddNewTask
  <2> DEFINE t == Head(batch)
             due == tick + timeout[t]
  <2>1. t \in Tasks /\ due \in Nat /\ Tail(batch) \in Seq(Tasks)
    <3>1. batch # << >> /\ batch \in Seq(Tasks)
      BY <1>14 DEF AddNewTask
    <3>2. t \in Tasks /\ Tail(batch) \in Seq(Tasks)
      BY <3>1, EmptySeq
    <3> QED
      BY <3>2
  <2>2. due % WheelLen \in Slots
    BY <2>1, Division
  <2>3. Inserted(wheel[due % WheelLen], t, due) \in Seq(Tasks)
    BY <2>1, <2>2, InsertedFacts
  <2>4. wheel' \in [Slots -> Seq(Tasks)]
    BY <1>14, <2>2, <2>3 DEF AddNewTask
  <2> QED
    BY <1>14, <2>1, <2>4 DEF AddNewTask
<1>15. CASE LoopAgain
  BY <1>15 DEF LoopAgain, MoreTicks
<1>16. CASE SetStop
  BY <1>16 DEF SetStop
<1>17. CASE StopNotify
  BY <1>17 DEF StopNotify, NotifyThread
<1>18. CASE Join \/ DestroyPool
  BY <1>18 DEF Join, DestroyPool
<1>19. CASE SpuriousWake
  BY <1>19 DEF SpuriousWake
<1>20. CASE ClockTick
  BY <1>20 DEF ClockTick
<1>21. CASE UNCHANGED vars
  BY <1>21 DEF vars
<1> QED
  BY <1>1, <1>2, <1>3, <1>4, <1>5, <1>6, <1>7, <1>8, <1>9, <1>10, <1>11,
     <1>12, <1>13, <1>14, <1>15, <1>16, <1>17, <1>18, <1>19, <1>20, <1>21
  DEF Next, TimerStep, DestructorStep

\* What is left of a list is its elements after the first.
LEMMA TailShifts ==
  ASSUME NEW s \in Seq(Tasks), Len(s) \in Nat \ {0}
  PROVE  \A i \in DOMAIN Tail(s) :
           i \in Nat \ {0} /\ i + 1 \in DOMAIN s /\ Tail(s)[i] = s[i + 1]
<1>1. s # << >>
  OBVIOUS
<1>2. Tail(s) \in Seq(Tasks) /\ Len(Tail(s)) = Len(s) - 1
  BY <1>1, HeadTailProperties
<1>3. DOMAIN Tail(s) = 1..Len(s) - 1 /\ DOMAIN s = 1..Len(s)
  BY <1>2
<1>4. \A i \in 1..Len(s) - 1 : Tail(s)[i] = s[i + 1]
  BY <1>1, <1>2, HeadTailProperties
<1> QED
  BY <1>3, <1>4

\* No step gives a task to two lists.
LEMMA PlacePreserved == ASSUME IInv, [Next]_vars PROVE PlaceInv'
<1> USE SimpleTimerAssumption DEF SimpleTimerAssumption, tasks, loop, NoWait, Untimed,
           IInv, TypeOK, PlaceInv
<1>1. ASSUME NEW c \in Callers, NEW t \in Tasks, NEW msec \in Timeouts, AddNow(c, t, msec) PROVE PlaceInv'
  BY <1>1 DEF AddNow
<1>2. ASSUME NEW c \in Callers, NEW t \in Tasks, NEW msec \in Timeouts, AddTimed(c, t, msec) PROVE PlaceInv'
  <2>1. input' = Append(input, t) /\ status' = [status EXCEPT ![t] = "input"] /\ status[t] = "new"
    BY <1>2 DEF AddTimed
  <2>2. \A i \in DOMAIN input : input[i] # t
    BY <2>1
  <2>3. \A i \in DOMAIN batch : batch[i] # t
    BY <2>1
  <2>4. /\ Len(input') = Len(input) + 1 /\ input'[Len(input) + 1] = t
        /\ \A i \in DOMAIN input : input'[i] = input[i]
        /\ DOMAIN input' = 1..Len(input) + 1 /\ DOMAIN input = 1..Len(input)
    BY <2>1
  <2>5. \A i \in DOMAIN input' : i \in DOMAIN input \/ i = Len(input) + 1
    BY <2>4
  <2>6. \A i \in DOMAIN input' : status'[input'[i]] = "input"
    BY <2>1, <2>2, <2>4, <2>5
  <2>7. \A i, j \in DOMAIN input' : input'[i] = input'[j] => i = j
    <3> SUFFICES ASSUME NEW i \in DOMAIN input', NEW j \in DOMAIN input', input'[i] = input'[j]
                 PROVE  i = j
      OBVIOUS
    <3>1. CASE i \in DOMAIN input /\ j \in DOMAIN input
      BY <3>1, <2>4
    <3>2. CASE i \notin DOMAIN input \/ j \notin DOMAIN input
      BY <3>2, <2>2, <2>4, <2>5
    <3> QED
      BY <3>1, <3>2
  <2>8. \A i \in DOMAIN batch : status'[batch[i]] = "batch"
    BY <2>1, <2>3
  <2>9. batch' = batch
    BY <1>2 DEF AddTimed
  <2> QED
    BY <2>6, <2>7, <2>8, <2>9
<1>3. ASSUME NEW c \in Callers, AddNotify(c) PROVE PlaceInv'
  BY <1>3 DEF AddNotify, NotifyThread
<1>4. CASE LoopTestStops
  BY <1>4 DEF LoopTestStops
<1>5. CASE AssertFails
  BY <1>5 DEF AssertFails
<1>6. CASE ChooseWait
  BY <1>6 DEF ChooseWait
<1>7. CASE Wait
  BY <1>7 DEF Wait
<1>8. CASE TimeOut
  BY <1>8 DEF TimeOut
<1>9. CASE Return
  BY <1>9 DEF Return
<1>10. CASE Collect
  BY <1>10 DEF Collect
<1>11. CASE ReadClock
  BY <1>11 DEF ReadClock, Reached
<1>12. CASE CommitDue
  <2>1. Head(Bucket) \in Tasks /\ status[Head(Bucket)] = "scheduled"
    <3>1. Bucket # << >> /\ cursor % WheelLen \in Slots
      BY <1>12, Division DEF CommitDue, FrontIsDue
    <3> QED
      BY <3>1, FrontTask DEF Bucket
  <2> QED
    BY <1>12, <2>1 DEF CommitDue
<1>13. CASE TickOver
  BY <1>13 DEF TickOver, MoreTicks, FrontIsDue, IsDue, Bucket
<1>14. CASE AddNewTask
  <2>1. batch' = Tail(batch) /\ Head(batch) \in Tasks /\ Len(batch) \in Nat \ {0}
    BY <1>14 DEF AddNewTask
  <2>2. \A i \in DOMAIN batch' : batch'[i] = batch[i + 1] /\ i + 1 \in DOMAIN batch
    BY <2>1, TailShifts
  <2>3. \A i \in DOMAIN batch' : batch'[i] # Head(batch)
    <3> SUFFICES ASSUME NEW i \in DOMAIN batch' PROVE batch'[i] # Head(batch)
      OBVIOUS
    <3>1. Head(batch) = batch[1] /\ 1 \in DOMAIN batch
      BY <2>1
    <3>2. i + 1 # 1
      BY <2>1, TailShifts
    <3> QED
      BY <2>2, <3>1, <3>2
  <2>4. status' = [status EXCEPT ![Head(batch)] = "scheduled"] /\ status[Head(batch)] = "batch"
    BY <1>14, <2>1 DEF AddNewTask
  <2>5. \A i \in DOMAIN input : input[i] # Head(batch)
    BY <2>4
  <2>6. \A i \in DOMAIN batch' : status'[batch'[i]] = "batch"
    BY <2>2, <2>3, <2>4
  <2>7. \A i \in DOMAIN input : status'[input[i]] = "input"
    BY <2>4, <2>5
  <2>8. \A i, j \in DOMAIN batch' : batch'[i] = batch'[j] => i = j
    <3> SUFFICES ASSUME NEW i \in DOMAIN batch', NEW j \in DOMAIN batch', batch'[i] = batch'[j]
                 PROVE  i = j
      OBVIOUS
    <3>1. i + 1 \in DOMAIN batch /\ j + 1 \in DOMAIN batch /\ batch[i + 1] = batch[j + 1]
      BY <2>2
    <3>2. i + 1 = j + 1
      BY <3>1
    <3>3. i \in Nat /\ j \in Nat
      BY <2>1, TailShifts
    <3> QED
      BY <3>2, <3>3
  <2> QED
    BY <1>14, <2>6, <2>7, <2>8 DEF AddNewTask
<1>15. CASE LoopAgain
  BY <1>15 DEF LoopAgain, MoreTicks
<1>16. CASE SetStop
  BY <1>16 DEF SetStop
<1>17. CASE StopNotify
  BY <1>17 DEF StopNotify, NotifyThread
<1>18. CASE Join \/ DestroyPool
  BY <1>18 DEF Join, DestroyPool
<1>19. CASE SpuriousWake
  BY <1>19 DEF SpuriousWake
<1>20. CASE ClockTick
  BY <1>20 DEF ClockTick
<1>21. CASE UNCHANGED vars
  BY <1>21 DEF vars
<1> QED
  BY <1>1, <1>2, <1>3, <1>4, <1>5, <1>6, <1>7, <1>8, <1>9, <1>10, <1>11,
     <1>12, <1>13, <1>14, <1>15, <1>16, <1>17, <1>18, <1>19, <1>20, <1>21
  DEF Next, TimerStep, DestructorStep

\* Every step keeps the times in order.
LEMMA TimePreserved == ASSUME IInv, [Next]_vars PROVE TimeInv'
<1> USE SimpleTimerAssumption DEF SimpleTimerAssumption, tasks, loop, NoWait, Untimed,
           IInv, TypeOK, TimeInv, PlaceInv, BeforeClock
<1>1. ASSUME NEW c \in Callers, NEW t \in Tasks, NEW msec \in Timeouts, AddNow(c, t, msec) PROVE TimeInv'
  BY <1>1 DEF AddNow
<1>2. ASSUME NEW c \in Callers, NEW t \in Tasks, NEW msec \in Timeouts, AddTimed(c, t, msec) PROVE TimeInv'
  BY <1>2 DEF AddTimed
<1>3. ASSUME NEW c \in Callers, AddNotify(c) PROVE TimeInv'
  BY <1>3 DEF AddNotify, NotifyThread
<1>4. CASE LoopTestStops
  BY <1>4 DEF LoopTestStops
<1>5. CASE AssertFails
  BY <1>5 DEF AssertFails
<1>6. CASE ChooseWait
  <2>1. wait' = NoWait \/ tick + wait' \in Nat
    BY <1>6, NextWaitIsForSome DEF ChooseWait
  <2> QED
    BY <1>6, <2>1 DEF ChooseWait
<1>7. CASE Wait
  BY <1>7 DEF Wait
<1>8. CASE TimeOut
  BY <1>8 DEF TimeOut
<1>9. CASE Return
  BY <1>9 DEF Return
<1>10. CASE Collect
  BY <1>10 DEF Collect
<1>11. CASE ReadClock
  BY <1>11 DEF ReadClock, Reached
<1>12. CASE CommitDue
  <2>1. Head(Bucket) \in Tasks /\ status[Head(Bucket)] = "scheduled"
    <3>1. Bucket # << >> /\ cursor % WheelLen \in Slots
      BY <1>12, Division DEF CommitDue, FrontIsDue
    <3> QED
      BY <3>1, FrontTask DEF Bucket
  <2>2. deadline[Head(Bucket)] < now
    BY <1>12, <2>1 DEF CommitDue, FrontIsDue, IsDue, MoreTicks
  <2> QED
    BY <1>12, <2>1, <2>2 DEF CommitDue
<1>13. CASE TickOver
  BY <1>13 DEF TickOver, MoreTicks, FrontIsDue, IsDue, Bucket
<1>14. CASE AddNewTask
  BY <1>14 DEF AddNewTask, MoreTicks
<1>15. CASE LoopAgain
  BY <1>15 DEF LoopAgain, MoreTicks
<1>16. CASE SetStop
  BY <1>16 DEF SetStop
<1>17. CASE StopNotify
  BY <1>17 DEF StopNotify, NotifyThread
<1>18. CASE Join \/ DestroyPool
  BY <1>18 DEF Join, DestroyPool
<1>19. CASE SpuriousWake
  BY <1>19 DEF SpuriousWake
<1>20. CASE ClockTick
  BY <1>20 DEF ClockTick
<1>21. CASE UNCHANGED vars
  BY <1>21 DEF vars
<1> QED
  BY <1>1, <1>2, <1>3, <1>4, <1>5, <1>6, <1>7, <1>8, <1>9, <1>10, <1>11,
     <1>12, <1>13, <1>14, <1>15, <1>16, <1>17, <1>18, <1>19, <1>20, <1>21
  DEF Next, TimerStep, DestructorStep

\* Every step keeps the wheel sound.
LEMMA WheelPreserved == ASSUME IInv, [Next]_vars PROVE WheelSound'
<1> USE SimpleTimerAssumption DEF SimpleTimerAssumption, tasks, loop, NoWait, Untimed,
           IInv, TypeOK, WheelSound
<1>1. ASSUME NEW c \in Callers, NEW t \in Tasks, NEW msec \in Timeouts, AddNow(c, t, msec) PROVE WheelSound'
  <2>1. wheel' = wheel /\ deadline' = deadline
        /\ \A u \in Tasks : status'[u] = "scheduled" <=> status[u] = "scheduled"
    BY <1>1 DEF AddNow
  <2> QED
    BY <2>1, WheelFrame DEF IInv
<1>2. ASSUME NEW c \in Callers, NEW t \in Tasks, NEW msec \in Timeouts, AddTimed(c, t, msec) PROVE WheelSound'
  <2>1. wheel' = wheel /\ deadline' = deadline
        /\ \A u \in Tasks : status'[u] = "scheduled" <=> status[u] = "scheduled"
    BY <1>2 DEF AddTimed
  <2> QED
    BY <2>1, WheelFrame DEF IInv
<1>3. ASSUME NEW c \in Callers, AddNotify(c) PROVE WheelSound'
  BY <1>3 DEF AddNotify, NotifyThread
<1>4. CASE LoopTestStops
  BY <1>4 DEF LoopTestStops
<1>5. CASE AssertFails
  BY <1>5 DEF AssertFails
<1>6. CASE ChooseWait
  BY <1>6 DEF ChooseWait
<1>7. CASE Wait
  BY <1>7 DEF Wait
<1>8. CASE TimeOut
  BY <1>8 DEF TimeOut
<1>9. CASE Return
  BY <1>9 DEF Return
<1>10. CASE Collect
  <2>1. wheel' = wheel /\ deadline' = deadline
        /\ \A u \in Tasks : status'[u] = "scheduled" <=> status[u] = "scheduled"
    BY <1>10 DEF Collect
  <2> QED
    BY <2>1, WheelFrame DEF IInv
<1>11. CASE ReadClock
  BY <1>11 DEF ReadClock, Reached
<1>12. CASE CommitDue
  <2> DEFINE c == cursor % WheelLen
             h == Head(wheel[c])
  <2>1. c \in Slots /\ wheel[c] # << >>
    BY <1>12, Division DEF CommitDue, FrontIsDue, Bucket
  <2>2. /\ wheel' = [wheel EXCEPT ![c] = Tail(wheel[c])]
        /\ status' = [status EXCEPT ![h] = "committed"] /\ deadline' = deadline
    BY <1>12 DEF CommitDue, Bucket
  <2> QED
    BY <2>1, <2>2, RemoveFront DEF IInv
<1>13. CASE TickOver
  BY <1>13 DEF TickOver, MoreTicks, FrontIsDue, IsDue, Bucket
<1>14. CASE AddNewTask
  <2> DEFINE t == Head(batch)
             due == tick + timeout[t]
             c == due % WheelLen
  <2>1. t \in Tasks /\ due \in Nat /\ c \in Slots /\ status[t] # "scheduled"
    <3>1. batch # << >> /\ batch \in Seq(Tasks)
      BY <1>14 DEF AddNewTask
    <3>2. t \in Tasks /\ 1 \in DOMAIN batch /\ t = batch[1]
      BY <3>1, EmptySeq
    <3>3. due \in Nat
      BY <3>2
    <3>4. status[t] = "batch"
      BY <3>2 DEF PlaceInv
    <3> QED
      BY <3>2, <3>3, <3>4, Division
  <2>2. /\ deadline' = [deadline EXCEPT ![t] = due]
        /\ wheel' = [wheel EXCEPT ![c] = Inserted(wheel[c], t, due)]
        /\ status' = [status EXCEPT ![t] = "scheduled"]
    BY <1>14 DEF AddNewTask
  <2> HIDE DEF t, due
  <2>3. TypeOK /\ WheelSound
    BY DEF IInv
  <2> QED
    BY <2>1, <2>2, <2>3, InsertTask
<1>15. CASE LoopAgain
  BY <1>15 DEF LoopAgain, MoreTicks
<1>16. CASE SetStop
  BY <1>16 DEF SetStop
<1>17. CASE StopNotify
  BY <1>17 DEF StopNotify, NotifyThread
<1>18. CASE Join \/ DestroyPool
  <2>1. UNCHANGED <<now, stop, input, wheel, tasks, tick, tpc, loop, call, budget>>
    BY <1>18 DEF Join, DestroyPool
  <2> QED
    BY <2>1
<1>19. CASE SpuriousWake
  BY <1>19 DEF SpuriousWake
<1>20. CASE ClockTick
  BY <1>20 DEF ClockTick
<1>21. CASE UNCHANGED vars
  BY <1>21 DEF vars
<1> QED
  BY <1>1, <1>2, <1>3, <1>4, <1>5, <1>6, <1>7, <1>8, <1>9, <1>10, <1>11,
     <1>12, <1>13, <1>14, <1>15, <1>16, <1>17, <1>18, <1>19, <1>20, <1>21
  DEF Next, TimerStep, DestructorStep

\* No step passes over a deadline unless a task has been left out.
LEMMA SlipPreserved == ASSUME IInv, [Next]_vars PROVE SlipInv'
<1> USE SimpleTimerAssumption DEF SimpleTimerAssumption, tasks, loop, NoWait, Untimed,
           IInv, TypeOK, SlipInv, BeforeClock
<1>1. ASSUME NEW c \in Callers, NEW t \in Tasks, NEW msec \in Timeouts, AddNow(c, t, msec) PROVE SlipInv'
  BY <1>1 DEF AddNow
<1>2. ASSUME NEW c \in Callers, NEW t \in Tasks, NEW msec \in Timeouts, AddTimed(c, t, msec) PROVE SlipInv'
  BY <1>2 DEF AddTimed
<1>3. ASSUME NEW c \in Callers, AddNotify(c) PROVE SlipInv'
  BY <1>3 DEF AddNotify, NotifyThread
<1>4. CASE LoopTestStops
  BY <1>4 DEF LoopTestStops
<1>5. CASE AssertFails
  <2> SUFFICES skipped # {}
    BY <1>5 DEF AssertFails
  <2> SUFFICES ASSUME skipped = {} PROVE FrontIsAhead
    BY <1>5 DEF AssertFails
  <2>1. tpc = "top"
    BY <1>5 DEF AssertFails
  <2>2. \A i \in Offsets : TimeLeft(i) \in Nat \ {0}
    BY <2>1, OffsetIsAhead
  <2> QED
    BY <2>2 DEF FrontIsAhead
<1>6. CASE ChooseWait
  <2> SUFFICES ASSUME skipped' = {}, NEW u \in Tasks, status[u] = "scheduled"
               PROVE  wait' # -1 /\ deadline[u] >= tick + wait'
    BY <1>6 DEF ChooseWait
  <2>1. skipped = {} /\ tpc = "top" /\ IsNextWait(wait')
    BY <1>6 DEF ChooseWait
  <2>2. ToSet(wheel[tick % WheelLen]) = {} /\ tick % WheelLen \in Slots
    BY <1>6, Division DEF ChooseWait
  <2>3. DOMAIN wheel[tick % WheelLen] = {}
    <3> SUFFICES ASSUME NEW k \in DOMAIN wheel[tick % WheelLen] PROVE FALSE
      OBVIOUS
    <3>1. wheel[tick % WheelLen][k] \in ToSet(wheel[tick % WheelLen])
      BY DEF ToSet
    <3> QED
      BY <3>1, <2>2
  <2> QED
    BY <2>1, <2>3, WaitIsNotLonger
<1>7. CASE Wait
  BY <1>7 DEF Wait
<1>8. CASE TimeOut
  BY <1>8 DEF TimeOut
<1>9. CASE Return
  BY <1>9 DEF Return
<1>10. CASE Collect
  BY <1>10 DEF Collect
<1>11. CASE ReadClock
  BY <1>11 DEF ReadClock, Reached
<1>12. CASE CommitDue
  BY <1>12 DEF CommitDue, MoreTicks, FrontIsDue, IsDue, Bucket
<1>13. CASE TickOver
  <2> SUFFICES ASSUME skipped = {}, NEW u \in Tasks, status[u] = "scheduled"
               PROVE  deadline[u] >= cursor + 1
    BY <1>13 DEF TickOver
  <2>1. deadline[u] >= cursor
    BY <1>13 DEF TickOver, SlipInv
  <2>2. deadline[u] # cursor
    <3> SUFFICES ASSUME deadline[u] = cursor PROVE FrontIsDue
      BY <1>13 DEF TickOver
    <3>1. cursor % WheelLen \in Slots
      BY Division
    <3>2. PICK k \in DOMAIN Bucket : Bucket[k] = u
      BY DEF WheelSound, Bucket
    <3>3. Bucket # << >>
      BY <3>2
    <3>4. deadline[Head(Bucket)] <= deadline[u] /\ Head(Bucket) \in Tasks
      BY <3>1, <3>2, <3>3, FrontTask DEF Bucket
    <3> QED
      BY <3>3, <3>4 DEF FrontIsDue, IsDue
  <2> QED
    BY <2>1, <2>2
<1>14. CASE AddNewTask
  <2> DEFINE t == Head(batch)
  <2>1. t \in Tasks /\ cursor <= tick
    <3>1. batch # << >> /\ batch \in Seq(Tasks)
      BY <1>14 DEF AddNewTask
    <3> QED
      BY <1>14, <3>1, EmptySeq DEF TimeInv, AddNewTask
  <2>2. /\ deadline' = [deadline EXCEPT ![t] = tick + timeout[t]]
        /\ status' = [status EXCEPT ![t] = "scheduled"]
        /\ cursor' = cursor /\ tpc = "ticking" /\ tpc' = tpc /\ skipped' = skipped
    BY <1>14 DEF AddNewTask
  <2> HIDE DEF t
  <2>3. \A u \in Tasks : skipped' = {} /\ status'[u] = "scheduled" => deadline'[u] >= cursor'
    BY <2>1, <2>2
  <2> QED
    BY <2>2, <2>3
<1>15. CASE LoopAgain
  BY <1>15 DEF LoopAgain, MoreTicks
<1>16. CASE SetStop
  BY <1>16 DEF SetStop
<1>17. CASE StopNotify
  BY <1>17 DEF StopNotify, NotifyThread
<1>18. CASE Join \/ DestroyPool
  BY <1>18 DEF Join, DestroyPool
<1>19. CASE SpuriousWake
  BY <1>19 DEF SpuriousWake
<1>20. CASE ClockTick
  BY <1>20 DEF ClockTick
<1>21. CASE UNCHANGED vars
  BY <1>21 DEF vars
<1> QED
  BY <1>1, <1>2, <1>3, <1>4, <1>5, <1>6, <1>7, <1>8, <1>9, <1>10, <1>11,
     <1>12, <1>13, <1>14, <1>15, <1>16, <1>17, <1>18, <1>19, <1>20, <1>21
  DEF Next, TimerStep, DestructorStep

-----------------------------------------------------------------------------
\* The timer starts with an empty wheel, at time 0.
LEMMA InitIInv == Init => IInv
<1> SUFFICES ASSUME Init PROVE IInv
  OBVIOUS
<1> USE SimpleTimerAssumption DEF SimpleTimerAssumption, Init, NoWait, Untimed
<1>1. TypeOK
  <2>1. wheel \in [Slots -> Seq(Tasks)]
    OBVIOUS
  <2>2. deadline \in [Tasks -> Nat] /\ timeout \in [Tasks -> Nat] /\ added \in [Tasks -> Nat]
    OBVIOUS
  <2>3. /\ status \in [Tasks -> {"new", "input", "batch", "scheduled", "committed"}]
        /\ call \in [Callers -> {"none", "notifying"}]
    OBVIOUS
  <2>4. << >> \in Seq(Tasks) /\ {} \subseteq Tasks /\ -1 \in Int
    OBVIOUS
  <2> QED
    BY <2>1, <2>2, <2>3, <2>4 DEF TypeOK
<1>2. PlaceInv /\ TimeInv
  BY DEF PlaceInv, TimeInv, BeforeClock
<1>3. WheelSound
  BY DEF WheelSound
<1>4. SlipInv
  BY DEF SlipInv, BeforeClock
<1> QED
  BY <1>1, <1>2, <1>3, <1>4 DEF IInv

\* The invariant holds in every reachable state.
THEOREM Invariance == Spec => []IInv
<1>1. IInv /\ [Next]_vars => IInv'
  BY TypePreserved, PlacePreserved, TimePreserved, WheelPreserved, SlipPreserved DEF IInv
<1> QED
  BY InitIInv, <1>1, PTL DEF Spec

\* The timer's variables keep their types: tick is never called with a negative time.
THEOREM TypeCorrect == Spec => []TypeOK
<1>1. IInv => TypeOK
  BY DEF IInv
<1> QED
  BY Invariance, <1>1, PTL

\* No task is committed before its time has passed in full.
THEOREM NothingRunsEarly == Spec => []NeverEarly
<1>1. IInv => NeverEarly
  BY DEF IInv, TimeInv, NeverEarly
<1> QED
  BY Invariance, <1>1, PTL

\* The wheel keeps every scheduled task once, in its bucket and in order.
THEOREM WheelIsSound == Spec => []WheelSound
<1>1. IInv => WheelSound
  BY DEF IInv
<1> QED
  BY Invariance, <1>1, PTL

\* Whatever the timeouts and however late the thread is run, the first deadline to be
\* missed is that of a task which was in the bucket get_next_wait_ms leaves out.
THEOREM FirstFaultIsASkip == Spec => []LateOnlyIfSkipped
<1>1. IInv => LateOnlyIfSkipped
  BY DEF IInv, TypeOK, SlipInv, LateOnlyIfSkipped, Overdue
<1> QED
  BY Invariance, <1>1, PTL

-----------------------------------------------------------------------------
(* Notifications *)

\* What the sleeping thread has been promised, and the time it waits for.
WakeInv ==
  /\ tpc = "waiting" =>
       /\ input # << >> => \E c \in Callers : call[c] = "notifying"
       /\ stop => life = "stopping"
       /\ wait > 0 => wake_at # Untimed
  /\ tpc \in BeforeClock /\ skipped = {} => wait = NoWait \/ wait > 0

\* The thread tests its condition and starts to wait in one step of m_mutex; whoever
\* changes the condition has still to notify.
LEMMA WakePreserved == ASSUME IInv, WakeInv, [Next]_vars PROVE WakeInv'
<1> USE SimpleTimerAssumption DEF SimpleTimerAssumption, tasks, loop, NoWait, Untimed,
           IInv, TypeOK, WakeInv, BeforeClock
<1>1. ASSUME tpc' # "waiting", tpc' \notin BeforeClock \/ skipped' # {} \/ wait' = NoWait \/ wait' > 0
      PROVE  WakeInv'
  BY <1>1
<1>2. ASSUME NEW c \in Callers, NEW t \in Tasks, NEW msec \in Timeouts,
             AddNow(c, t, msec) \/ AddTimed(c, t, msec)
      PROVE  WakeInv'
  <2>1. CASE AddNow(c, t, msec)
    BY <2>1 DEF AddNow
  <2>2. CASE AddTimed(c, t, msec)
    <3>1. call'[c] = "notifying"
      BY <2>2 DEF AddTimed
    <3> QED
      BY <2>2, <3>1 DEF AddTimed
  <2> QED
    BY <1>2, <2>1, <2>2
<1>3. ASSUME NotifyThread, UNCHANGED <<wait, skipped>> PROVE WakeInv'
  BY <1>1, <1>3 DEF NotifyThread
<1>4. ASSUME NEW c \in Callers, AddNotify(c) PROVE WakeInv'
  BY <1>3, <1>4 DEF AddNotify
<1>5. CASE LoopTestStops \/ AssertFails \/ TimeOut \/ Return \/ Collect \/ ReadClock
  BY <1>1, <1>5 DEF LoopTestStops, AssertFails, TimeOut, Return, Collect, ReadClock
<1>6. CASE ChooseWait
  <2>1. tpc = "top" /\ tpc' = "testing" /\ IsNextWait(wait') /\ skipped \subseteq skipped'
    BY <1>6 DEF ChooseWait
  <2>2. ASSUME skipped' = {} PROVE wait' = NoWait \/ wait' > 0
    <3>1. skipped = {}
      BY <2>1, <2>2
    <3>2. CASE Offsets = {}
      BY <2>1, <3>2 DEF IsNextWait
    <3>3. CASE Offsets # {}
      <4>1. PICK i \in Offsets : TRUE
        BY <3>3
      <4>2. wait' \in Nat \ {0}
        BY <2>1, <3>1, <4>1, NextWaitIsLeast
      <4> QED
        BY <4>2
    <3> QED
      BY <3>2, <3>3
  <2> QED
    BY <2>1, <2>2
<1>7. CASE Wait
  BY <1>7 DEF Wait
<1>8. CASE CommitDue \/ TickOver \/ AddNewTask \/ LoopAgain
  BY <1>1, <1>8 DEF CommitDue, TickOver, AddNewTask, LoopAgain
<1>9. CASE SetStop
  BY <1>9 DEF SetStop
<1>10. CASE StopNotify
  BY <1>3, <1>10 DEF StopNotify
<1>11. CASE Join \/ DestroyPool \/ ClockTick \/ UNCHANGED vars
  BY <1>11 DEF Join, DestroyPool, ClockTick, vars
<1>12. CASE SpuriousWake
  BY <1>1, <1>12 DEF SpuriousWake
<1> QED
  BY <1>2, <1>4, <1>5, <1>6, <1>7, <1>8, <1>9, <1>10, <1>11, <1>12
  DEF Next, TimerStep, DestructorStep

\* The thread does not sleep through a new task, the destructor or a deadline.
THEOREM NoWakeupIsMissed == Spec => []NoMissedWakeup
<1>1. Init => WakeInv
  BY DEF Init, WakeInv, BeforeClock
<1>2. IInv /\ WakeInv /\ [Next]_vars => WakeInv'
  BY WakePreserved
<1>3. IInv /\ WakeInv => NoMissedWakeup
  BY DEF IInv, TypeOK, SlipInv, WakeInv, BeforeClock, NoMissedWakeup
<1> QED
  BY <1>1, <1>2, <1>3, Invariance, PTL DEF Spec
=============================================================================
