----------------------------- MODULE MemoryPool -----------------------------
(***************************************************************************)
(* arrow::MemoryPool (src/ArrowMemPool): BaseMemoryPoolImpl over           *)
(* SystemAllocator, used by several threads at once.  A thread changes the *)
(* heap first and the statistics, two atomics, afterwards and in up to     *)
(* three steps, none of which excludes another thread.                     *)
(*                                                                         *)
(* Each thread owns at most one buffer.  The pool takes the size of it     *)
(* that it is told, right or wrong (main.cpp frees 4 bytes of 14).         *)
(***************************************************************************)
EXTENDS Integers, FiniteSets, Functions

CONSTANTS
  Threads,
  Blocks,      \* what the system allocator can hand out
  Sizes,       \* sizes that are asked for, or claimed of an old buffer
  Calls,       \* bound on the number of calls
  NoBuffer,    \* the thread owns no buffer
  Null,        \* nullptr
  ZeroArea     \* zero_size_area

ASSUME MemoryPoolAssumption ==
  /\ IsFiniteSet(Threads) /\ IsFiniteSet(Blocks)
  /\ Sizes \subseteq Nat
  /\ Calls \in Nat
  /\ NoBuffer # Null /\ NoBuffer # ZeroArea /\ Null # ZeroArea
  /\ {NoBuffer, Null, ZeroArea} \cap Blocks = {}

VARIABLES
  heap,     \* blocks that are allocated
  ptr,      \* the buffer of each thread
  size,     \* the size it asked for
  fresh,    \* the block reallocate copies to, until it frees the old one
  bytes,    \* m_bytes_allocated
  max,      \* m_max_memory
  pc,       \* where each thread is
  diff,     \* argument of update_allocated_bytes
  seen,     \* its local `allcated'
  want,     \* argument new_size of reallocate
  aborted,  \* a DCHECK has failed
  peak,     \* history: the greatest value of m_bytes_allocated
  honest,   \* history: every size claimed of a buffer was the one asked for
  alone,    \* history: no two updates of m_max_memory have overlapped
  calls     \* how many calls may still begin

buffers == <<heap, ptr, size, fresh>>
history == <<peak, alone, honest>>
locals == <<diff, seen, want>>
vars == <<buffers, bytes, max, pc, locals, aborted, history, calls>>

Init ==
  /\ heap = {}
  /\ ptr = [p \in Threads |-> NoBuffer] /\ size = [p \in Threads |-> 0]
  /\ fresh = [p \in Threads |-> Null]
  /\ bytes = 0 /\ max = 0
  /\ pc = [p \in Threads |-> "idle"]
  /\ diff = [p \in Threads |-> 0] /\ seen = [p \in Threads |-> 0]
  /\ want = [p \in Threads |-> 0]
  /\ aborted = FALSE /\ peak = 0 /\ alone = TRUE /\ honest = TRUE
  /\ calls = Calls

\* The caller of free or reallocate says that its buffer has size `old'.
Claim(p, old) ==
  /\ honest' = (honest /\ old = size[p])
  /\ UNCHANGED <<peak, alone>>

Begin(p) ==
  /\ ~aborted /\ pc[p] = "idle"
  /\ calls > 0 /\ calls' = calls - 1

IsZeroSize(n) == n = 0

\* What allocate_aligned may put in `out': it may fail for any size but 0.
Given(n) == IF IsZeroSize(n) THEN {ZeroArea} ELSE (Blocks \ heap) \cup {Null}

Keep(out) == heap' = heap \cup ({out} \cap Blocks)

Update(p, change) ==
  /\ diff' = [diff EXCEPT ![p] = change]
  /\ pc' = [pc EXCEPT ![p] = "counting"]

-----------------------------------------------------------------------------
(* allocate, reallocate and free.  A negative size changes nothing. *)

Allocate(p, n) ==
  /\ Begin(p) /\ ptr[p] = NoBuffer
  /\ \E out \in Given(n) \ {Null} :
       /\ Keep(out)
       /\ ptr' = [ptr EXCEPT ![p] = out]
  /\ size' = [size EXCEPT ![p] = n]
  /\ Update(p, n)
  /\ UNCHANGED <<fresh, bytes, max, seen, want, aborted, history>>

AllocateFails(p, n) ==
  /\ Begin(p) /\ ptr[p] = NoBuffer
  /\ Null \in Given(n)
  /\ UNCHANGED <<buffers, bytes, max, pc, locals, aborted, history>>

ReallocDiffMutant(old, new) == old - new
ReallocDiff(old, new) == new - old

\* From the zero-size area: `*ptr' becomes what allocate_aligned says, null too.
ReallocateZero(p, old, n) ==
  /\ Begin(p) /\ Claim(p, old) /\ ptr[p] = ZeroArea /\ old = 0
  /\ \E out \in Given(n) :
       /\ Keep(out)
       /\ ptr' = [ptr EXCEPT ![p] = out]
       /\ IF out = Null THEN UNCHANGED <<size, pc, diff>>
          ELSE size' = [size EXCEPT ![p] = n] /\ Update(p, ReallocDiff(old, n))
  /\ UNCHANGED <<fresh, bytes, max, seen, want, aborted>>

Owned(p) == ptr[p] \in Blocks \cup {Null}

\* To size 0: the block is given back.
ReallocateToZero(p, old) ==
  /\ Begin(p) /\ Claim(p, old) /\ Owned(p)
  /\ heap' = heap \ {ptr[p]}
  /\ ptr' = [ptr EXCEPT ![p] = ZeroArea]
  /\ size' = [size EXCEPT ![p] = 0]
  /\ Update(p, ReallocDiff(old, 0))
  /\ UNCHANGED <<fresh, bytes, max, seen, want, aborted>>

\* To another block: the old one is kept until its content has been copied.
ReallocateNew(p, old, n) ==
  /\ Begin(p) /\ Claim(p, old) /\ Owned(p) /\ n > 0
  /\ \E out \in Given(n) \ {Null} :
       /\ Keep(out)
       /\ fresh' = [fresh EXCEPT ![p] = out]
  /\ want' = [want EXCEPT ![p] = n]
  /\ diff' = [diff EXCEPT ![p] = ReallocDiff(old, n)]
  /\ pc' = [pc EXCEPT ![p] = "copying"]
  /\ UNCHANGED <<ptr, size, bytes, max, seen, aborted>>

ReallocateFails(p, n) ==
  /\ Begin(p) /\ Owned(p) /\ n > 0
  /\ Null \in Given(n)
  /\ UNCHANGED <<buffers, bytes, max, pc, locals, aborted, history>>

OldFreedMutant(p) == heap
OldFreed(p) == heap \ {ptr[p]}

ReallocateCopied(p) ==
  /\ ~aborted /\ pc[p] = "copying"
  /\ heap' = OldFreed(p)
  /\ ptr' = [ptr EXCEPT ![p] = fresh[p]]
  /\ fresh' = [fresh EXCEPT ![p] = Null]
  /\ size' = [size EXCEPT ![p] = want[p]]
  /\ pc' = [pc EXCEPT ![p] = "counting"]
  /\ UNCHANGED <<bytes, max, locals, aborted, history, calls>>

Free(p, old) ==
  /\ Begin(p) /\ Claim(p, old) /\ ptr[p] # NoBuffer
  /\ ptr[p] = ZeroArea => old = 0
  /\ heap' = heap \ {ptr[p]}
  /\ ptr' = [ptr EXCEPT ![p] = NoBuffer]
  /\ size' = [size EXCEPT ![p] = 0]
  /\ Update(p, 0 - old)
  /\ UNCHANGED <<fresh, bytes, max, seen, want, aborted>>

\* DCHECK_EQ(size, 0) and DCHECK_EQ(old_size, 0), for the zero-size area.
CheckFails(p, old) ==
  /\ Begin(p) /\ Claim(p, old) /\ ptr[p] = ZeroArea /\ old # 0
  /\ aborted' = TRUE
  /\ UNCHANGED <<buffers, bytes, max, pc, locals>>

-----------------------------------------------------------------------------
(* update_allocated_bytes: fetch_add, then compare with and store the maximum *)

Seen(p) == bytes + diff[p]

Raising == {"comparing", "raising"}

FetchAdd(p) ==
  /\ ~aborted /\ pc[p] = "counting"
  /\ bytes' = bytes + diff[p]
  /\ seen' = [seen EXCEPT ![p] = Seen(p)]
  /\ pc' = [pc EXCEPT ![p] = IF diff[p] > 0 THEN "comparing" ELSE "idle"]
  /\ peak' = IF bytes + diff[p] > peak THEN bytes + diff[p] ELSE peak
  /\ alone' = (alone /\ (diff[p] > 0 => \A q \in Threads : pc[q] \notin Raising))
  /\ UNCHANGED <<buffers, max, diff, want, aborted, honest, calls>>

IsHigherMutant(p) == TRUE
IsHigher(p) == seen[p] > max

Compare(p) ==
  /\ ~aborted /\ pc[p] = "comparing"
  /\ pc' = [pc EXCEPT ![p] = IF IsHigher(p) THEN "raising" ELSE "idle"]
  /\ UNCHANGED <<buffers, bytes, max, locals, aborted, history, calls>>

StoreMax(p) ==
  /\ ~aborted /\ pc[p] = "raising"
  /\ max' = seen[p]
  /\ pc' = [pc EXCEPT ![p] = "idle"]
  /\ UNCHANGED <<buffers, bytes, locals, aborted, history, calls>>

-----------------------------------------------------------------------------
Next == \E p \in Threads :
  \/ \E n \in Sizes : Allocate(p, n) \/ AllocateFails(p, n) \/ ReallocateFails(p, n)
  \/ \E old \in Sizes :
       \/ \E n \in Sizes : ReallocateZero(p, old, n) \/ ReallocateNew(p, old, n)
       \/ ReallocateToZero(p, old) \/ Free(p, old) \/ CheckFails(p, old)
  \/ ReallocateCopied(p)
  \/ FetchAdd(p) \/ Compare(p) \/ StoreMax(p)

Spec == Init /\ [][Next]_vars

-----------------------------------------------------------------------------
(* What the pool is relied on for *)

\* Every variable holds a value of its kind, and as long as the claimed sizes are
\* right the count of allocated bytes is not negative.
TypeOK ==
  /\ heap \subseteq Blocks
  /\ ptr \in [Threads -> Blocks \cup {NoBuffer, Null, ZeroArea}]
  /\ fresh \in [Threads -> Blocks \cup {Null, ZeroArea}]
  /\ size \in [Threads -> Nat] /\ want \in [Threads -> Nat]
  /\ bytes \in Int /\ (honest => bytes \in Nat)
  /\ max \in Nat /\ peak \in Nat
  /\ diff \in [Threads -> Int] /\ seen \in [Threads -> Int]
  /\ pc \in [Threads -> {"idle", "copying", "counting", "comparing", "raising"}]
  /\ aborted \in BOOLEAN /\ alone \in BOOLEAN /\ honest \in BOOLEAN
  /\ calls \in 0..Calls

\* Whatever sizes the callers claim, no block is lost and none has two owners: the
\* heap holds the threads' buffers and what reallocate is about to hand over.
HeapMatchesOwners ==
  /\ heap = ({ptr[p] : p \in Threads} \cup {fresh[p] : p \in Threads}) \cap Blocks
  /\ \A p, q \in Threads :
       /\ ptr[p] \in Blocks /\ ptr[p] = ptr[q] => p = q
       /\ fresh[p] \in Blocks => fresh[p] # ptr[q] /\ (fresh[p] = fresh[q] => p = q)

\* What a call has changed in its buffer and not counted yet.
Uncounted == [p \in Threads |-> IF pc[p] = "counting" THEN diff[p] ELSE 0]

\* bytes_allocated is the sum of the sizes of all buffers, but for the calls that have
\* changed a buffer and not counted it yet; a failed reallocate counts nothing, and no
\* DCHECK fails after one either.  Only a wrong claim, which main.cpp makes, spoils it.
BytesExact ==
  honest => ~aborted /\ bytes + SumFunction(Uncounted) = SumFunction(size)

\* max_memory is at no time more than what was allocated at some time, and it is the
\* peak as long as no two calls were between the addition and the store: the comparison
\* and the store are two steps, so that a late store may lower it.
PeakSound ==
  /\ max <= peak
  /\ alone /\ (\A p \in Threads : pc[p] \notin Raising) => max = peak
=============================================================================
