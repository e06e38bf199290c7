-------------------------- MODULE MemoryPoolProofs --------------------------
(***************************************************************************)
(* Proofs about MemoryPool, for any threads, blocks and sizes: the types,  *)
(* the owners of the heap's blocks, the count of bytes, which is a sum     *)
(* over the threads, and the peak.                                         *)
(***************************************************************************)
EXTENDS MemoryPool, SumTheorems, TLAPS

\* TypeOK without the signs of the statistics.
Types ==
  /\ heap \subseteq Blocks
  /\ ptr \in [Threads -> Blocks \cup {NoBuffer, Null, ZeroArea}]
  /\ fresh \in [Threads -> Blocks \cup {Null, ZeroArea}]
  /\ size \in [Threads -> Nat] /\ want \in [Threads -> Nat]
  /\ bytes \in Int /\ max \in Int /\ peak \in Int
  /\ diff \in [Threads -> Int] /\ seen \in [Threads -> Int]
  /\ pc \in [Threads -> {"idle", "copying", "counting", "comparing", "raising"}]
  /\ aborted \in BOOLEAN /\ alone \in BOOLEAN /\ honest \in BOOLEAN
  /\ calls \in 0..Calls

\* A thread holds a second block only while it copies, and everything the heap
\* holds has one owner.
HeapInv ==
  /\ \A p \in Threads : pc[p] # "copying" => fresh[p] = Null
  /\ \A p \in Threads : pc[p] = "copying" => ptr[p] \in Blocks \cup {Null}
  /\ HeapMatchesOwners

\* What a thread between the addition and the store has seen is no more than the
\* peak, and when it is alone there the maximum is the peak, or will be.
PeakInv ==
  /\ 0 <= max
  /\ \A p \in Threads : pc[p] = "raising" => 0 <= seen[p]
  /\ bytes <= peak /\ max <= peak
  /\ \A p \in Threads : pc[p] \in Raising => seen[p] <= peak
  /\ alone => /\ \A p, q \in Threads : pc[p] \in Raising /\ pc[q] \in Raising => p = q
              /\ \A p \in Threads : pc[p] = "comparing" => seen[p] = peak \/ max = peak
              /\ \A p \in Threads : pc[p] = "raising" => seen[p] = peak
              /\ (\A p \in Threads : pc[p] \notin Raising) => max = peak

\* As long as the claims are right: a thread without a block has a buffer of size 0,
\* a call is about to count the difference of two sizes, and the sum is exact.
BytesInv == honest =>
  /\ \A p \in Threads : ptr[p] \in {NoBuffer, ZeroArea} => size[p] = 0
  /\ \A p \in Threads :
       pc[p] = "copying" => fresh[p] \in Blocks /\ diff[p] = want[p] - size[p]
  /\ \A p \in Threads : pc[p] = "counting" => diff[p] <= size[p]
  /\ BytesExact

-----------------------------------------------------------------------------
(* The invariants are inductive *)

\* A block goes from the heap's rest to a thread, within it, or back.
LEMMA TypesStep == Types /\ [Next]_vars => Types'
<1> SUFFICES ASSUME Types, [Next]_vars PROVE Types'
  OBVIOUS
<1> USE MemoryPoolAssumption DEF MemoryPoolAssumption, Types, buffers, history, locals,
        Begin, Claim, Given, Keep, Update, ReallocDiff, Owned, IsZeroSize
<1>1. ASSUME NEW p \in Threads, NEW n \in Sizes, Allocate(p, n) PROVE Types'
  BY <1>1 DEF Allocate
<1>2. ASSUME NEW p \in Threads, NEW n \in Sizes, AllocateFails(p, n) \/ ReallocateFails(p, n)
      PROVE  Types'
  BY <1>2 DEF AllocateFails, ReallocateFails
<1>3. ASSUME NEW p \in Threads, NEW old \in Sizes, NEW n \in Sizes, ReallocateZero(p, old, n)
      PROVE  Types'
  BY <1>3 DEF ReallocateZero
<1>4. ASSUME NEW p \in Threads, NEW old \in Sizes, NEW n \in Sizes, ReallocateNew(p, old, n)
      PROVE  Types'
  BY <1>4 DEF ReallocateNew
<1>5. ASSUME NEW p \in Threads, NEW old \in Sizes, ReallocateToZero(p, old) PROVE Types'
  BY <1>5 DEF ReallocateToZero
<1>6. ASSUME NEW p \in Threads, NEW old \in Sizes, Free(p, old) PROVE Types'
  BY <1>6 DEF Free
<1>7. ASSUME NEW p \in Threads, NEW old \in Sizes, CheckFails(p, old) PROVE Types'
  BY <1>7 DEF CheckFails
<1>8. ASSUME NEW p \in Threads, ReallocateCopied(p) PROVE Types'
  BY <1>8 DEF ReallocateCopied, OldFreed
<1>9. ASSUME NEW p \in Threads, FetchAdd(p) \/ Compare(p) \/ StoreMax(p) PROVE Types'
  <2>1. ASSUME FetchAdd(p) PROVE Types'
    <3>1. bytes' \in Int /\ seen' \in [Threads -> Int] /\ peak' \in Int /\ alone' \in BOOLEAN
      BY <2>1 DEF FetchAdd, Seen
    <3>2. UNCHANGED <<heap, ptr, fresh, size, want, max, diff, aborted, honest, calls>>
      BY <2>1 DEF FetchAdd
    <3>3. pc' \in [Threads -> {"idle", "copying", "counting", "comparing", "raising"}]
      BY <2>1 DEF FetchAdd
    <3> QED
      BY <3>1, <3>2, <3>3
  <2>2. ASSUME Compare(p) \/ StoreMax(p) PROVE Types'
    BY <2>2 DEF Compare, StoreMax
  <2> QED
    BY <1>9, <2>1, <2>2
<1>10. CASE UNCHANGED vars
  BY <1>10 DEF vars
<1> QED
  BY <1>1, <1>2, <1>3, <1>4, <1>5, <1>6, <1>7, <1>8, <1>9, <1>10 DEF Next

\* Only FetchAdd, Compare and StoreMax are about the statistics.
LEMMA PeakStep ==
  ASSUME Types, PeakInv, [Next]_vars
  PROVE  PeakInv'
<1> USE MemoryPoolAssumption DEF MemoryPoolAssumption, Types, PeakInv, Raising, buffers,
        history, locals
<1>1. ASSUME UNCHANGED <<bytes, max, seen, peak, alone>>,
             \A p \in Threads : pc'[p] \in Raising \/ pc[p] \in Raising => pc'[p] = pc[p]
      PROVE  PeakInv'
  BY <1>1
<1>2. ASSUME NEW p \in Threads, FetchAdd(p) PROVE PeakInv'
  <2>1. /\ bytes' = bytes + diff[p] /\ bytes' \in Int /\ max' = max
        /\ seen' = [seen EXCEPT ![p] = bytes']
        /\ peak' = IF bytes' > peak THEN bytes' ELSE peak
        /\ pc[p] = "counting"
        /\ alone' = (alone /\ (diff[p] > 0 => \A q \in Threads : pc[q] \notin Raising))
    BY <1>2 DEF FetchAdd, Seen
  <2>2. CASE diff[p] > 0
    <3>1. pc' = [pc EXCEPT ![p] = "comparing"]
      BY <1>2, <2>2 DEF FetchAdd
    <3>2. peak' >= peak /\ peak' >= bytes' /\ (peak' = bytes' \/ peak' = peak)
      BY <2>1
    <3>3. \A q \in Threads : pc'[q] \in Raising => seen'[q] <= peak'
      BY <2>1, <3>1, <3>2
    <3>4. ASSUME alone' PROVE max = peak /\ \A q \in Threads : pc[q] \notin Raising
      BY <2>1, <2>2, <3>4
    <3>5. ASSUME alone', NEW q \in Threads, pc'[q] \in Raising
          PROVE  q = p /\ pc'[q] = "comparing" /\ (seen'[q] = peak' \/ max' = peak')
      BY <2>1, <3>1, <3>2, <3>4, <3>5
    <3>6. pc'[p] \in Raising
      BY <3>1
    <3>7. bytes' <= peak' /\ max' <= peak'
      BY <2>1, <3>2
    <3>8. 0 <= max' /\ \A q \in Threads : pc'[q] = "raising" => 0 <= seen'[q]
      BY <2>1, <3>1
    <3> QED
      BY <3>3, <3>5, <3>6, <3>7, <3>8
  <2>3. CASE ~(diff[p] > 0)
    <3>1. pc' = [pc EXCEPT ![p] = "idle"] /\ peak' = peak
      BY <1>2, <2>1, <2>3 DEF FetchAdd
    <3> QED
      BY <2>1, <2>3, <3>1
  <2> QED
    BY <2>2, <2>3
<1>3. ASSUME NEW p \in Threads, Compare(p) PROVE PeakInv'
  BY <1>3 DEF Compare, IsHigher
<1>4. ASSUME NEW p \in Threads, StoreMax(p) PROVE PeakInv'
  BY <1>4 DEF StoreMax
<1>5. ASSUME NEW p \in Threads, NEW n \in Sizes,
             Allocate(p, n) \/ AllocateFails(p, n) \/ ReallocateFails(p, n)
      PROVE  PeakInv'
  BY <1>1, <1>5 DEF Allocate, AllocateFails, ReallocateFails, Begin, Update
<1>6. ASSUME NEW p \in Threads, NEW old \in Sizes, NEW n \in Sizes,
             ReallocateZero(p, old, n) \/ ReallocateNew(p, old, n)
      PROVE  PeakInv'
  BY <1>1, <1>6 DEF ReallocateZero, ReallocateNew, Begin, Claim, Update
<1>7. ASSUME NEW p \in Threads, NEW old \in Sizes,
             ReallocateToZero(p, old) \/ Free(p, old) \/ CheckFails(p, old)
      PROVE  PeakInv'
  BY <1>1, <1>7 DEF ReallocateToZero, Free, CheckFails, Begin, Claim, Update
<1>8. ASSUME NEW p \in Threads, ReallocateCopied(p) PROVE PeakInv'
  BY <1>1, <1>8 DEF ReallocateCopied
<1>9. CASE UNCHANGED vars
  BY <1>1, <1>9 DEF vars
<1> QED
  BY <1>2, <1>3, <1>4, <1>5, <1>6, <1>7, <1>8, <1>9 DEF Next

\* A block goes from the rest of memory to one thread, from the second buffer of a
\* thread to its first, and back.
LEMMA HeapStep ==
  ASSUME Types, HeapInv, [Next]_vars
  PROVE  HeapInv'
<1> USE MemoryPoolAssumption DEF MemoryPoolAssumption, Types, HeapInv, HeapMatchesOwners,
        buffers, history, locals
<1>1. ASSUME UNCHANGED <<heap, ptr, fresh>>,
             \A p \in Threads : pc'[p] = "copying" <=> pc[p] = "copying"
      PROVE  HeapInv'
  BY <1>1
<1>2. ASSUME NEW p \in Threads, NEW n \in Sizes, Allocate(p, n) PROVE HeapInv'
  BY <1>2 DEF Allocate, Begin, Given, IsZeroSize, Keep, Update
<1>3. ASSUME NEW p \in Threads, NEW old \in Sizes, NEW n \in Sizes, ReallocateZero(p, old, n)
      PROVE  HeapInv'
  BY <1>3 DEF ReallocateZero, Begin, Given, IsZeroSize, Keep, Update
<1>4. ASSUME NEW p \in Threads, NEW old \in Sizes, NEW n \in Sizes, ReallocateNew(p, old, n)
      PROVE  HeapInv'
  BY <1>4 DEF ReallocateNew, Begin, Given, IsZeroSize, Keep, Owned
<1>5. ASSUME NEW p \in Threads, NEW old \in Sizes, ReallocateToZero(p, old) PROVE HeapInv'
  BY <1>5 DEF ReallocateToZero, Begin, Owned, Update
<1>6. ASSUME NEW p \in Threads, NEW old \in Sizes, Free(p, old) PROVE HeapInv'
  BY <1>6 DEF Free, Begin, Update
<1>7. ASSUME NEW p \in Threads, ReallocateCopied(p) PROVE HeapInv'
  BY <1>7 DEF ReallocateCopied, OldFreed
<1>8. ASSUME NEW p \in Threads, NEW n \in Sizes, AllocateFails(p, n) \/ ReallocateFails(p, n)
      PROVE  HeapInv'
  BY <1>1, <1>8 DEF AllocateFails, ReallocateFails
<1>9. ASSUME NEW p \in Threads, NEW old \in Sizes, CheckFails(p, old) PROVE HeapInv'
  BY <1>1, <1>9 DEF CheckFails
<1>10. ASSUME NEW p \in Threads, FetchAdd(p) \/ Compare(p) \/ StoreMax(p) PROVE HeapInv'
  BY <1>1, <1>10 DEF FetchAdd, Compare, StoreMax
<1>11. CASE UNCHANGED vars
  BY <1>1, <1>11 DEF vars
<1> QED
  BY <1>2, <1>3, <1>4, <1>5, <1>6, <1>7, <1>8, <1>9, <1>10, <1>11 DEF Next

\* The two sums stay in balance when one thread changes its terms and the count by as
\* much.
LEMMA BytesBalance ==
  ASSUME Types, Types', NEW p \in Threads,
         \A q \in Threads \ {p} : size'[q] = size[q] /\ Uncounted'[q] = Uncounted[q],
         bytes' + Uncounted'[p] - size'[p] = bytes + Uncounted[p] - size[p],
         bytes + SumFunction(Uncounted) = SumFunction(size)
  PROVE  bytes' + SumFunction(Uncounted)' = SumFunction(size)'
<1>1. /\ Uncounted \in [Threads -> Int] /\ Uncounted' \in [Threads -> Int]
      /\ size \in [Threads -> Int] /\ size' \in [Threads -> Int]
      /\ bytes \in Int /\ bytes' \in Int
  BY DEF Types, Uncounted
<1>2. IsFiniteSet(Threads)
  BY MemoryPoolAssumption DEF MemoryPoolAssumption
<1>3. SumFunction(size') = SumFunction(size) + size'[p] - size[p]
  BY <1>1, <1>2, SumChanges
<1>4. SumFunction(Uncounted') = SumFunction(Uncounted) + Uncounted'[p] - Uncounted[p]
  BY <1>1, <1>2, SumChanges
<1>5. SumFunction(size) \in Int /\ SumFunction(Uncounted) \in Int
  BY <1>1, <1>2, SumIsInt
<1>6. /\ Uncounted[p] \in Int /\ Uncounted'[p] \in Int
      /\ size[p] \in Int /\ size'[p] \in Int
  BY <1>1
<1>7. SumFunction(Uncounted)' = SumFunction(Uncounted') /\ SumFunction(size)' = SumFunction(size')
  OBVIOUS
<1> QED
  BY <1>1, <1>3, <1>4, <1>5, <1>6, <1>7

\* A step of p, as far as the sums go.
OthersUnchanged(p) ==
  \A q \in Threads \ {p} :
    /\ pc'[q] = pc[q] /\ ptr'[q] = ptr[q] /\ size'[q] = size[q]
    /\ fresh'[q] = fresh[q] /\ diff'[q] = diff[q] /\ want'[q] = want[q]

\* A call changes the size of one buffer and what its thread has to count together;
\* FetchAdd moves that to the count.
LEMMA BytesStep ==
  ASSUME Types, Types', HeapInv, BytesInv, [Next]_vars
  PROVE  BytesInv'
<1> SUFFICES ASSUME honest' PROVE BytesInv'
  BY DEF BytesInv
<1> USE MemoryPoolAssumption DEF MemoryPoolAssumption, Types, buffers, history, locals,
        Begin, Claim, Given, Keep, Update, Owned, IsZeroSize
<1>1. ASSUME NEW p \in Threads, honest, ~aborted',
             OthersUnchanged(p),
             ptr'[p] \in {NoBuffer, ZeroArea} => size'[p] = 0,
             pc'[p] = "copying" => fresh'[p] \in Blocks /\ diff'[p] = want'[p] - size'[p],
             pc'[p] = "counting" => diff'[p] <= size'[p],
             bytes' + (IF pc'[p] = "counting" THEN diff'[p] ELSE 0) - size'[p]
               = bytes + (IF pc[p] = "counting" THEN diff[p] ELSE 0) - size[p]
      PROVE  BytesInv'
  <2>1. \A q \in Threads \ {p} : Uncounted'[q] = Uncounted[q]
    BY <1>1 DEF Uncounted, OthersUnchanged
  <2>2. bytes' + Uncounted'[p] - size'[p] = bytes + Uncounted[p] - size[p]
    BY <1>1 DEF Uncounted
  <2>3. bytes' + SumFunction(Uncounted)' = SumFunction(size)'
    <3>1. bytes + SumFunction(Uncounted) = SumFunction(size)
      BY <1>1 DEF BytesInv, BytesExact
    <3>2. \A q \in Threads \ {p} : size'[q] = size[q]
      BY <1>1 DEF OthersUnchanged
    <3> HIDE DEF Types
    <3> QED
      BY <2>1, <2>2, <3>1, <3>2, BytesBalance
  <2> QED
    BY <1>1, <2>3 DEF BytesInv, BytesExact, OthersUnchanged
<1>2. ASSUME NEW p \in Threads, NEW n \in Sizes, Allocate(p, n) PROVE BytesInv'
  <2>1. /\ honest' = honest /\ honest /\ ~aborted' /\ UNCHANGED <<bytes, fresh, want>>
        /\ pc[p] = "idle" /\ size[p] = 0
        /\ pc'[p] = "counting" /\ size'[p] = n /\ diff'[p] = n
    BY <1>2 DEF Allocate, BytesInv
  <2>2. ptr'[p] \in {NoBuffer, ZeroArea} => n = 0
    BY <1>2 DEF Allocate
  <2>3. OthersUnchanged(p)
    BY <1>2 DEF Allocate, OthersUnchanged
  <2> QED
    BY <1>1, <2>1, <2>2, <2>3
<1>3. ASSUME NEW p \in Threads, NEW old \in Sizes, NEW n \in Sizes, ReallocateZero(p, old, n)
      PROVE  BytesInv'
  <2>1. honest /\ ~aborted' /\ old = size[p] /\ old = 0 /\ UNCHANGED bytes /\ pc[p] = "idle"
    BY <1>3 DEF ReallocateZero
  <2>2. OthersUnchanged(p)
    BY <1>3 DEF ReallocateZero, OthersUnchanged
  <2>3. PICK out \in Given(n) :
          /\ ptr' = [ptr EXCEPT ![p] = out]
          /\ IF out = Null THEN UNCHANGED <<size, pc, diff>>
             ELSE size' = [size EXCEPT ![p] = n] /\ Update(p, ReallocDiff(old, n))
    BY <1>3 DEF ReallocateZero
  <2>4. n \in Nat /\ ptr'[p] = out
    BY <2>3
  <2>5. CASE out = Null
    <3>1. size'[p] = 0 /\ pc'[p] = "idle" /\ size[p] = 0
      BY <2>1, <2>3, <2>5
    <3> QED
      BY <1>1, <2>1, <2>2, <3>1
  <2>6. CASE out # Null
    <3>1. pc'[p] = "counting" /\ size'[p] = n /\ diff'[p] = n
      BY <2>1, <2>3, <2>4, <2>6 DEF ReallocDiff
    <3>2. ptr'[p] \in {NoBuffer, ZeroArea} => n = 0
      BY <2>3, <2>4
    <3>3. bytes' + n - n = bytes + 0 - 0 /\ size[p] = 0 /\ n <= n
      BY <2>1, <2>4
    <3> HIDE DEF Types
    <3> QED
      BY <1>1, <2>1, <2>2, <3>1, <3>2, <3>3
  <2> QED
    BY <2>5, <2>6
<1>4. ASSUME NEW p \in Threads, NEW old \in Sizes, NEW n \in Sizes, ReallocateNew(p, old, n)
      PROVE  BytesInv'
  <2>1. /\ honest /\ ~aborted' /\ old = size[p] /\ UNCHANGED <<bytes, ptr, size>>
        /\ pc[p] = "idle" /\ pc'[p] = "copying" /\ want'[p] = n /\ diff'[p] = n - old
    BY <1>4 DEF ReallocateNew, ReallocDiff
  <2>2. fresh'[p] \in Blocks
    BY <1>4 DEF ReallocateNew
  <2>3. OthersUnchanged(p)
    BY <1>4 DEF ReallocateNew, OthersUnchanged
  <2>4. ptr'[p] \in {NoBuffer, ZeroArea} => size'[p] = 0
    BY <2>1 DEF BytesInv
  <2> QED
    BY <1>1, <2>1, <2>2, <2>3, <2>4
<1>5. ASSUME NEW p \in Threads, NEW old \in Sizes, ReallocateToZero(p, old) PROVE BytesInv'
  <2>1. /\ honest /\ ~aborted' /\ old = size[p] /\ UNCHANGED bytes
        /\ pc[p] = "idle" /\ pc'[p] = "counting" /\ size'[p] = 0 /\ diff'[p] = 0 - old
    BY <1>5 DEF ReallocateToZero, ReallocDiff
  <2>2. OthersUnchanged(p)
    BY <1>5 DEF ReallocateToZero, OthersUnchanged
  <2>3. old \in Nat
    OBVIOUS
  <2> QED
    BY <1>1, <2>1, <2>2, <2>3
<1>6. ASSUME NEW p \in Threads, NEW old \in Sizes, Free(p, old) PROVE BytesInv'
  <2>1. /\ honest /\ ~aborted' /\ old = size[p] /\ UNCHANGED bytes
        /\ pc[p] = "idle" /\ pc'[p] = "counting" /\ size'[p] = 0 /\ diff'[p] = 0 - old
    BY <1>6 DEF Free
  <2>2. OthersUnchanged(p)
    BY <1>6 DEF Free, OthersUnchanged
  <2>3. old \in Nat
    OBVIOUS
  <2> QED
    BY <1>1, <2>1, <2>2, <2>3
<1>7. ASSUME NEW p \in Threads, NEW old \in Sizes, CheckFails(p, old) PROVE BytesInv'
  BY <1>7 DEF CheckFails, BytesInv
<1>8. ASSUME NEW p \in Threads, ReallocateCopied(p) PROVE BytesInv'
  <2>1. /\ honest /\ ~aborted' /\ UNCHANGED <<bytes, want, diff>>
        /\ pc[p] = "copying" /\ pc'[p] = "counting"
        /\ size'[p] = want[p] /\ ptr'[p] = fresh[p]
    BY <1>8 DEF ReallocateCopied
  <2>2. fresh[p] \in Blocks /\ diff[p] = want[p] - size[p]
    BY <2>1 DEF BytesInv
  <2>3. size[p] \in Nat /\ want[p] \in Nat
    OBVIOUS
  <2>4. OthersUnchanged(p)
    BY <1>8 DEF ReallocateCopied, OthersUnchanged
  <2> QED
    BY <1>1, <2>1, <2>2, <2>3, <2>4
<1>9. ASSUME NEW p \in Threads, FetchAdd(p) PROVE BytesInv'
  <2>1. /\ honest /\ ~aborted' /\ bytes' = bytes + diff[p] /\ UNCHANGED <<ptr, size>>
        /\ pc[p] = "counting" /\ pc'[p] \in {"comparing", "idle"}
    BY <1>9 DEF FetchAdd
  <2>2. ptr[p] \in {NoBuffer, ZeroArea} => size[p] = 0
    BY <2>1 DEF BytesInv
  <2>3. OthersUnchanged(p)
    BY <1>9 DEF FetchAdd, OthersUnchanged
  <2>4. bytes \in Int /\ diff[p] \in Int /\ size[p] \in Int
    OBVIOUS
  <2> QED
    BY <1>1, <2>1, <2>2, <2>3, <2>4
<1>10. ASSUME NEW p \in Threads, Compare(p) \/ StoreMax(p) PROVE BytesInv'
  <2>1. /\ honest /\ ~aborted' /\ UNCHANGED <<bytes, ptr, size>>
        /\ pc[p] \in Raising /\ pc'[p] \in {"raising", "idle"}
    BY <1>10 DEF Compare, StoreMax, Raising
  <2>2. ptr[p] \in {NoBuffer, ZeroArea} => size[p] = 0
    BY <2>1 DEF BytesInv
  <2>3. OthersUnchanged(p)
    BY <1>10 DEF Compare, StoreMax, OthersUnchanged
  <2> QED
    BY <1>1, <2>1, <2>2, <2>3 DEF Raising
<1>11. ASSUME NEW p \in Threads, NEW n \in Sizes, AllocateFails(p, n) \/ ReallocateFails(p, n)
       PROVE  BytesInv'
  BY <1>11 DEF AllocateFails, ReallocateFails, BytesInv, BytesExact, Uncounted
<1>12. CASE UNCHANGED vars
  BY <1>12 DEF vars, BytesInv, BytesExact, Uncounted
<1> QED
  BY <1>2, <1>3, <1>4, <1>5, <1>6, <1>7, <1>8, <1>9, <1>10, <1>11, <1>12 DEF Next

-----------------------------------------------------------------------------
\* With no buffer and nothing counted, the invariants hold.
LEMMA InitInv == Init => Types /\ HeapInv /\ PeakInv /\ BytesInv
<1> SUFFICES ASSUME Init PROVE Types /\ HeapInv /\ PeakInv /\ BytesInv
  OBVIOUS
<1> USE MemoryPoolAssumption DEF MemoryPoolAssumption, Init
<1>1. Types
  <2>1. calls \in 0..Calls /\ size \in [Threads -> Nat] /\ want \in [Threads -> Nat]
    OBVIOUS
  <2>2. pc \in [Threads -> {"idle", "copying", "counting", "comparing", "raising"}]
    OBVIOUS
  <2>3. diff \in [Threads -> Int] /\ seen \in [Threads -> Int]
    OBVIOUS
  <2>4. ptr \in [Threads -> {NoBuffer}] /\ fresh \in [Threads -> {Null}]
    OBVIOUS
  <2>5. ptr \in [Threads -> Blocks \cup {NoBuffer, Null, ZeroArea}]
    BY <2>4
  <2>6. fresh \in [Threads -> Blocks \cup {Null, ZeroArea}]
    BY <2>4
  <2>7. heap \subseteq Blocks /\ bytes \in Int /\ max \in Int /\ peak \in Int
    OBVIOUS
  <2>8. aborted \in BOOLEAN /\ alone \in BOOLEAN /\ honest \in BOOLEAN
    BY Zenon
  <2> QED
    BY ONLY <2>1, <2>2, <2>3, <2>5, <2>6, <2>7, <2>8 DEF Types
<1>2. HeapInv
  BY DEF HeapInv, HeapMatchesOwners
<1>3. PeakInv
  BY DEF PeakInv, Raising
<1>4. BytesInv
  <2>1. Uncounted = [p \in Threads |-> 0] /\ size = [p \in Threads |-> 0]
    BY DEF Uncounted
  <2>2. SumFunction(size) \in Int
    BY <2>1, SumIsInt
  <2> QED
    BY <2>1, <2>2 DEF BytesInv, BytesExact
<1> QED
  BY <1>1, <1>2, <1>3, <1>4

\* No block is lost and none has two owners, whatever sizes the callers claim.
THEOREM EveryBlockHasOneOwner == Spec => []HeapMatchesOwners
<1>1. Types /\ HeapInv /\ [Next]_vars => HeapInv'
  BY HeapStep
<1>2. HeapInv => HeapMatchesOwners
  BY DEF HeapInv
<1> QED
  BY <1>1, <1>2, InitInv, TypesStep, PTL DEF Spec

\* max_memory never overstates the peak, and is the peak unless two updates overlap.
THEOREM PeakIsSound == Spec => []PeakSound
<1>1. Types /\ PeakInv /\ [Next]_vars => PeakInv'
  BY PeakStep
<1>2. PeakInv => PeakSound
  BY DEF PeakInv, PeakSound
<1> QED
  BY <1>1, <1>2, InitInv, TypesStep, PTL DEF Spec

\* What is counted is never more than there is to count.
LEMMA BytesNotNegative == ASSUME Types, BytesInv, honest PROVE bytes \in Nat
<1>1. /\ Uncounted \in [Threads -> Int] /\ size \in [Threads -> Int]
      /\ IsFiniteSet(Threads) /\ bytes \in Int
  BY MemoryPoolAssumption DEF MemoryPoolAssumption, Types, Uncounted
<1>2. \A p \in Threads : Uncounted[p] <= size[p]
  BY DEF Types, BytesInv, Uncounted
<1>3. SumFunction(Uncounted) <= SumFunction(size)
  BY <1>1, <1>2, SumIsMonotonic
<1>4. SumFunction(Uncounted) \in Int /\ SumFunction(size) \in Int
  BY <1>1, SumIsInt
<1> QED
  BY <1>1, <1>3, <1>4 DEF BytesInv, BytesExact

\* BytesInv holds throughout.
LEMMA BytesInvariance == Spec => [](Types /\ HeapInv /\ BytesInv)
<1>1. Types /\ HeapInv /\ BytesInv /\ [Next]_vars => Types' /\ HeapInv' /\ BytesInv'
  BY TypesStep, HeapStep, BytesStep
<1> QED
  BY <1>1, InitInv, PTL DEF Spec

\* With right claims the count of bytes is that of the buffers, and no DCHECK fails.
THEOREM BytesAreExact == Spec => []BytesExact
<1>1. BytesInv => BytesExact
  BY DEF BytesInv, BytesExact
<1> QED
  BY <1>1, BytesInvariance, PTL

\* The variables keep their types, and with right claims the count is not negative.
THEOREM TypeCorrect == Spec => []TypeOK
<1>1. Types /\ PeakInv /\ BytesInv => TypeOK
  <2> SUFFICES ASSUME Types, PeakInv, BytesInv PROVE TypeOK
    OBVIOUS
  <2>1. honest => bytes \in Nat
    BY BytesNotNegative
  <2>2. max \in Nat /\ peak \in Nat
    BY DEF Types, PeakInv
  <2> QED
    BY <2>1, <2>2 DEF Types, TypeOK
<1>2. Types /\ PeakInv /\ [Next]_vars => Types' /\ PeakInv'
  BY TypesStep, PeakStep
<1> QED
  BY <1>1, <1>2, InitInv, BytesInvariance, PTL DEF Spec
=============================================================================
