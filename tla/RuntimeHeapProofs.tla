------------------------- MODULE RuntimeHeapProofs -------------------------
(***************************************************************************)
(* Proofs about RuntimeHeap, for every alignment, chunk size and sequence  *)
(* of requests: while SysMmap succeeds, the blocks Alloc returns are       *)
(* pairwise disjoint and lie in granted memory.                            *)
(***************************************************************************)
EXTENDS RuntimeHeap, TLAPS

\* Rounding a request up never shrinks it (Alloc, runtime.go:64).
LEMMA RoundUpBound ==
  ASSUME NEW size \in Nat
  PROVE  RoundUp(size) \in Nat /\ RoundUp(size) >= size
<1> DEFINE q == (size + Align - 1) \div Align
<1>1. Align \in Nat /\ Align > 0 /\ size + Align - 1 \in Nat
  BY HeapAssumption
<1>2. q \in Int /\ q * Align + ((size + Align - 1) % Align) = size + Align - 1
         /\ (size + Align - 1) % Align \in 0..(Align - 1)
  BY <1>1
<1>3. q * Align \in Int
  BY <1>1, <1>2
<1>4. QED
  BY <1>1, <1>2, <1>3 DEF RoundUp

\* What a successful mmap returns.
LEMMA MmapRegionFacts ==
  ASSUME NEW n \in Nat, NEW r \in MmapRegions(n)
  PROVE  /\ r \in Region /\ r.lo > 0 /\ r.hi = r.lo + n
         /\ \A s \in mapped : Disjoint(r, s)
<1>1. PICK base \in Bases : r = [lo |-> base, hi |-> base + n]
  BY DEF MmapRegions
<1>2. base \in Nat /\ base > 0
  BY HeapAssumption
<1>3. \A s \in mapped : Disjoint(r, s)
  BY DEF MmapRegions
<1>4. QED
  BY <1>1, <1>2, <1>3 DEF Region

\* Adding a block that overlaps none of the others keeps them disjoint.
LEMMA GiveFacts ==
  ASSUME TypeOK, NEW ptr \in Nat, NEW size \in Nat
  PROVE  LET b == [lo |-> ptr, hi |-> ptr + size]
         IN  /\ Give(ptr, size) \in Seq(Region)
             /\ Len(Give(ptr, size)) = Len(blocks) + 1
             /\ \A i \in 1..Len(blocks) : Give(ptr, size)[i] = blocks[i]
             /\ Give(ptr, size)[Len(blocks) + 1] = b
BY DEF Give, TypeOK, Region

\* An allocation served from the current chunk keeps the invariant.
LEMMA InChunkInv ==
  ASSUME HeapInv, ~failed, NEW size \in Sizes, AllocInChunk(size)
  PROVE  HeapInv'
<1> DEFINE b == [lo |-> heapPtr, hi |-> heapPtr + size]
<1>1. size \in Nat /\ RoundUp(size) \in Nat /\ RoundUp(size) >= size
  BY HeapAssumption, RoundUpBound
<1>2. /\ heapPtr # 0 /\ heapPtr \in Nat /\ heapEnd \in Nat
      /\ heapPtr + RoundUp(size) <= heapEnd
      /\ heapPtr' = heapPtr + RoundUp(size) /\ heapEnd' = heapEnd /\ mapped' = mapped
      /\ failed' = failed
  BY DEF AllocInChunk, Fits, HeapInv, TypeOK
<1>3. /\ blocks' \in Seq(Region)
      /\ Len(blocks') = Len(blocks) + 1
      /\ \A i \in 1..Len(blocks) : blocks'[i] = blocks[i]
      /\ blocks'[Len(blocks) + 1] = b
  BY <1>1, <1>2, GiveFacts DEF HeapInv, AllocInChunk
<1>4. Len(blocks) \in Nat /\ \A i \in 1..Len(blocks) : blocks[i] \in Region
  BY DEF HeapInv, TypeOK
<1>5. TypeOK'
  BY <1>1, <1>2, <1>3 DEF HeapInv, TypeOK
<1>6. MappedDisjoint'
  BY <1>2 DEF HeapInv, MappedDisjoint
<1>7. PICK r \in mapped : r.lo <= heapPtr /\ heapPtr <= r.hi /\ heapEnd = r.hi
  BY <1>2 DEF HeapInv, FreeInChunk
<1>8. FreeInChunk'
  <2>1. r.lo \in Nat /\ r.hi \in Nat
    BY <1>7 DEF HeapInv, TypeOK, Region
  <2>2. r \in mapped' /\ r.lo <= heapPtr' /\ heapPtr' <= r.hi /\ heapEnd' = r.hi
    BY <1>1, <1>2, <1>7, <2>1
  <2>3. QED
    BY <2>2 DEF FreeInChunk
<1>9. \A i \in 1..Len(blocks) : Disjoint(blocks[i], b)
  BY <1>1, <1>2, <1>4 DEF HeapInv, FreeUnused, Disjoint, Free, Region
<1>10. FreeUnused'
  <2>1. \A i \in 1..Len(blocks) : Disjoint(blocks[i], Free')
    BY <1>1, <1>2, <1>4 DEF HeapInv, FreeUnused, Disjoint, Free, Region
  <2>2. Disjoint(b, Free')
    BY <1>1, <1>2 DEF Disjoint, Free
  <2>3. QED
    BY <1>3, <1>4, <2>1, <2>2 DEF FreeUnused
<1>11. BlocksMapped'
  <2>1. Granted(b)
    BY <1>1, <1>2, <1>7 DEF Granted
  <2>2. QED
    BY <1>2, <1>3, <1>4, <2>1 DEF HeapInv, BlocksMapped, Granted, Empty
<1>12. BlocksDisjoint'
  BY <1>3, <1>4, <1>9 DEF HeapInv, BlocksDisjoint, Disjoint
<1>13. QED
  BY <1>5, <1>6, <1>8, <1>10, <1>11, <1>12 DEF HeapInv

\* So does one that opens a new chunk: every earlier block is in an earlier
\* region, which the new one does not meet.
LEMMA NewChunkInv ==
  ASSUME HeapInv, ~failed, NEW size \in Sizes, AllocNewChunk(size)
  PROVE  HeapInv'
<1>1. size \in Nat /\ RoundUp(size) \in Nat /\ RoundUp(size) >= size
  BY HeapAssumption, RoundUpBound
<1>2. ChunkFor(size) \in Nat /\ RoundUp(size) <= ChunkFor(size)
  BY <1>1, HeapAssumption DEF ChunkFor
<1>3. PICK r \in MmapRegions(ChunkFor(size)) :
        /\ mapped' = mapped \cup {r}
        /\ blocks' = Give(r.lo, size)
        /\ heapPtr' = r.lo + RoundUp(size)
        /\ heapEnd' = r.hi
        /\ failed' = failed
  BY DEF AllocNewChunk
<1> DEFINE b == [lo |-> r.lo, hi |-> r.lo + size]
<1>4. /\ r \in Region /\ r.lo > 0 /\ r.lo \in Nat /\ r.hi \in Nat
      /\ r.hi = r.lo + ChunkFor(size)
      /\ \A s \in mapped : Disjoint(r, s)
  BY <1>2, MmapRegionFacts DEF Region
<1>5. /\ blocks' \in Seq(Region)
      /\ Len(blocks') = Len(blocks) + 1
      /\ \A i \in 1..Len(blocks) : blocks'[i] = blocks[i]
      /\ blocks'[Len(blocks) + 1] = b
  BY <1>1, <1>3, <1>4, GiveFacts DEF HeapInv
<1>6. Len(blocks) \in Nat /\ \A i \in 1..Len(blocks) : blocks[i] \in Region
  BY DEF HeapInv, TypeOK
<1>7. mapped \subseteq Region
  BY DEF HeapInv, TypeOK
<1>8. TypeOK'
  BY <1>1, <1>3, <1>4, <1>5, <1>7 DEF HeapInv, TypeOK
<1>9. MappedDisjoint'
  BY <1>3, <1>4, <1>7 DEF HeapInv, MappedDisjoint, Disjoint
<1>10. FreeInChunk'
  BY <1>1, <1>2, <1>3, <1>4 DEF FreeInChunk
<1>11. \A i \in 1..Len(blocks) : Disjoint(blocks[i], r)
  <2> SUFFICES ASSUME NEW i \in 1..Len(blocks), ~Empty(blocks[i])
               PROVE  Disjoint(blocks[i], r)
    BY <1>4, <1>6 DEF Empty, Disjoint, Region
  <2>1. PICK s \in mapped : s.lo <= blocks[i].lo /\ blocks[i].hi <= s.hi
    BY DEF HeapInv, BlocksMapped, Granted
  <2>2. Disjoint(r, s) /\ s \in Region /\ blocks[i] \in Region
    BY <1>4, <1>6, <1>7
  <2>3. QED
    BY <1>4, <2>1, <2>2 DEF Disjoint, Region, Empty
<1>12. FreeUnused'
  <2> DEFINE free == [lo |-> r.lo + RoundUp(size), hi |-> r.hi]
  <2>1. Free' = free
    BY <1>3 DEF Free
  <2>2. \A i \in 1..Len(blocks) : Disjoint(blocks[i], free)
    BY <1>1, <1>2, <1>4, <1>6, <1>11, SMTT(20) DEF Disjoint, Region
  <2>3. Disjoint(b, free)
    BY <1>1, <1>4 DEF Disjoint
  <2>4. QED
    BY <1>5, <1>6, <2>1, <2>2, <2>3 DEF FreeUnused
<1>13. BlocksMapped'
  <2>1. r.lo <= b.lo /\ b.hi <= r.hi /\ r \in mapped'
    BY <1>1, <1>2, <1>3, <1>4
  <2>2. mapped \subseteq mapped'
    BY <1>3
  <2>3. QED
    BY <1>5, <1>6, <2>1, <2>2 DEF HeapInv, BlocksMapped, Granted, Empty
<1>14. BlocksDisjoint'
  <2>1. \A i \in 1..Len(blocks) : Disjoint(blocks[i], b)
    BY <1>1, <1>2, <1>4, <1>6, <1>11, SMTT(20) DEF Disjoint, Region
  <2>2. QED
    BY <1>5, <1>6, <2>1 DEF HeapInv, BlocksDisjoint, Disjoint
<1>15. QED
  BY <1>8, <1>9, <1>10, <1>12, <1>13, <1>14 DEF HeapInv

\* After a failure little is left to keep: the types, and that the kernel's
\* regions are disjoint.
LEMMA AfterFailureInv ==
  ASSUME HeapInv, failed', NEW size \in Sizes,
         \/ AllocInChunk(size)
         \/ AllocNewChunk(size)
         \/ AllocMmapFailed(size)
  PROVE  HeapInv'
<1>1. size \in Nat /\ RoundUp(size) \in Nat /\ RoundUp(size) >= size
  BY HeapAssumption, RoundUpBound
<1>2. ChunkFor(size) \in Nat /\ RoundUp(size) <= ChunkFor(size)
  BY <1>1, HeapAssumption DEF ChunkFor
<1>3. TypeOK' /\ MappedDisjoint'
  <2>1. CASE AllocInChunk(size)
    <3>1. blocks' \in Seq(Region)
      BY <1>1, <2>1, GiveFacts DEF AllocInChunk, HeapInv, TypeOK
    <3>2. QED
      BY <1>1, <2>1, <3>1 DEF AllocInChunk, HeapInv, TypeOK, MappedDisjoint
  <2>2. CASE AllocNewChunk(size)
    <3>1. PICK r \in MmapRegions(ChunkFor(size)) :
            /\ mapped' = mapped \cup {r}
            /\ blocks' = Give(r.lo, size)
            /\ heapPtr' = r.lo + RoundUp(size)
            /\ heapEnd' = r.hi
            /\ failed' = failed
      BY <2>2 DEF AllocNewChunk
    <3>2. r \in Region /\ r.lo \in Nat /\ r.hi \in Nat
          /\ \A s \in mapped : Disjoint(r, s)
      BY <1>2, MmapRegionFacts DEF Region
    <3>3. blocks' \in Seq(Region)
      BY <1>1, <3>1, <3>2, GiveFacts DEF HeapInv
    <3>4. TypeOK'
      BY <1>1, <3>1, <3>2, <3>3 DEF HeapInv, TypeOK
    <3>5. MappedDisjoint'
      BY <3>1, <3>2 DEF HeapInv, TypeOK, Region, MappedDisjoint, Disjoint
    <3>6. QED
      BY <3>4, <3>5
  <2>3. CASE AllocMmapFailed(size)
    <3>1. blocks' \in Seq(Region)
      BY <1>1, <2>3, GiveFacts DEF AllocMmapFailed, HeapInv
    <3>2. QED
      BY <1>1, <1>2, <2>3, <3>1 DEF AllocMmapFailed, HeapInv, TypeOK, MappedDisjoint
  <2>4. QED
    BY <2>1, <2>2, <2>3
<1>4. QED
  BY <1>3 DEF HeapInv, FreeInChunk, FreeUnused, BlocksMapped, BlocksDisjoint

-----------------------------------------------------------------------------
\* The inductive invariant holds in every behaviour, whenever SysMmap fails.
THEOREM HeapInvariant == Spec => []HeapInv
<1>1. Init => HeapInv
  <2> SUFFICES ASSUME Init PROVE HeapInv
    OBVIOUS
  <2>1. TypeOK
    <3>1. failed \in BOOLEAN
      BY Zenon DEF Init
    <3>2. heapPtr \in Nat /\ heapEnd \in Nat /\ mapped \in SUBSET Region /\ blocks \in Seq(Region)
      BY DEF Init
    <3>3. QED
      BY <3>1, <3>2 DEF TypeOK
  <2>2. MappedDisjoint /\ FreeInChunk /\ FreeUnused
    BY DEF Init, MappedDisjoint, FreeInChunk, FreeUnused
  <2>3. Len(blocks) = 0
    BY DEF Init
  <2>4. BlocksMapped /\ BlocksDisjoint
    BY <2>3 DEF BlocksMapped, BlocksDisjoint
  <2>5. QED
    BY <2>1, <2>2, <2>4 DEF HeapInv
<1>2. HeapInv /\ [Next]_vars => HeapInv'
  <2> SUFFICES ASSUME HeapInv, [Next]_vars PROVE HeapInv'
    OBVIOUS
  <2>1. ASSUME NEW size \in Sizes, AllocInChunk(size) PROVE HeapInv'
    <3>1. failed' = failed
      BY <2>1 DEF AllocInChunk
    <3>2. CASE failed
      BY <2>1, <3>1, <3>2, AfterFailureInv
    <3>3. CASE ~failed
      BY <2>1, <3>3, InChunkInv
    <3>4. QED
      BY <3>2, <3>3
  <2>2. ASSUME NEW size \in Sizes, AllocNewChunk(size) PROVE HeapInv'
    <3>1. failed' = failed
      BY <2>2 DEF AllocNewChunk
    <3>2. CASE failed
      BY <2>2, <3>1, <3>2, AfterFailureInv
    <3>3. CASE ~failed
      BY <2>2, <3>3, NewChunkInv
    <3>4. QED
      BY <3>2, <3>3
  <2>3. ASSUME NEW size \in Sizes, AllocMmapFailed(size) PROVE HeapInv'
    <3>1. failed'
      BY <2>3 DEF AllocMmapFailed
    <3>2. QED
      BY <2>3, <3>1, AfterFailureInv
  <2>4. CASE UNCHANGED vars
    BY <2>4 DEF vars, HeapInv, TypeOK, MappedDisjoint, FreeInChunk, FreeUnused,
                Free, BlocksMapped, BlocksDisjoint, Granted, Empty
  <2>5. QED
    BY <2>1, <2>2, <2>3, <2>4 DEF Next
<1>3. QED
  BY <1>1, <1>2, PTL DEF Spec

\* Blocks never overlap while SysMmap succeeds (Alloc, runtime.go:62-80).
THEOREM BlocksNeverOverlap == Spec => []BlocksDisjoint
<1>1. HeapInv => BlocksDisjoint
  BY DEF HeapInv
<1>2. QED
  BY <1>1, HeapInvariant, PTL

\* Every block is granted memory as long as SysMmap succeeds.
THEOREM BlocksAreGranted == Spec => []BlocksMapped
<1>1. HeapInv => BlocksMapped
  BY DEF HeapInv
<1>2. QED
  BY <1>1, HeapInvariant, PTL

-----------------------------------------------------------------------------
(* Alignment.                                                                *)

\* A multiple of the unit leaves no remainder.
LEMMA MultipleAligned ==
  ASSUME NEW k \in Nat
  PROVE  k * Align \in Nat /\ (k * Align) % Align = 0
<1>. DEFINE d == (k * Align) \div Align
            r == (k * Align) % Align
<1>1. Align \in Nat /\ Align > 0 /\ k * Align \in Nat
  BY HeapAssumption
<1>2. d \in Int /\ r \in 0..(Align - 1) /\ k * Align = d * Align + r
  BY <1>1
<1>. HIDE DEF d, r
<1>3. (k - d) * Align = r
  BY <1>1, <1>2
<1>4. k - d = 0
  <2>1. ASSUME k - d >= 1 PROVE FALSE
    <3>1. (k - d) * Align >= 1 * Align
      BY <1>1, <1>2, <2>1
    <3>. QED BY <1>1, <1>2, <1>3, <3>1
  <2>2. ASSUME k - d <= -1 PROVE FALSE
    <3>1. (k - d) * Align <= (-1) * Align
      BY <1>1, <1>2, <2>2
    <3>. QED BY <1>1, <1>2, <1>3, <3>1
  <2>. QED BY <1>2, <2>1, <2>2
<1>5. r = 0
  BY <1>1, <1>3, <1>4
<1>. QED BY <1>1, <1>5 DEF r

\* So does a sum of two aligned addresses.
LEMMA SumAligned ==
  ASSUME NEW a \in Nat, NEW b \in Nat, a % Align = 0, b % Align = 0
  PROVE  (a + b) % Align = 0
<1>1. Align \in Nat /\ Align > 0
  BY HeapAssumption
<1>. DEFINE p == a \div Align
            q == b \div Align
<1>2. p \in Nat /\ q \in Nat /\ a = p * Align /\ b = q * Align
  BY <1>1
<1>. HIDE DEF p, q
<1>3. a + b = (p + q) * Align /\ p + q \in Nat
  BY <1>1, <1>2
<1>. QED BY <1>3, MultipleAligned

LEMMA RoundUpAligned ==
  ASSUME NEW size \in Nat
  PROVE  RoundUp(size) % Align = 0
<1>1. Align \in Nat /\ Align > 0 /\ size + Align - 1 \in Nat
  BY HeapAssumption
<1>2. (size + Align - 1) \div Align \in Nat
  BY <1>1
<1>. QED BY <1>2, MultipleAligned DEF RoundUp

\* The same of the blocks after a call that hands out one more.
LEMMA GaveFacts ==
  ASSUME HeapInv, NEW ptr \in Nat, NEW size \in Nat, blocks' = Give(ptr, size)
  PROVE  /\ Len(blocks) \in Nat /\ Len(blocks') = Len(blocks) + 1
         /\ \A i \in 1..Len(blocks) : blocks'[i] = blocks[i] /\ blocks[i] \in Region
         /\ blocks'[Len(blocks) + 1] = [lo |-> ptr, hi |-> ptr + size]
<1>1. TypeOK
  BY DEF HeapInv
<1>2. Len(blocks) \in Nat /\ \A i \in 1..Len(blocks) : blocks[i] \in Region
  BY <1>1 DEF TypeOK
<1>. QED BY <1>1, <1>2, GiveFacts

\* The next free byte is aligned too: that is what makes the blocks so.
AlignInv == BlocksAligned /\ heapPtr % Align = 0

\* Every block starts on an alignment boundary, whatever sizes were asked for
\* and however often mmap failed ("Round up to 8-byte alignment",
\* runtime.go:63).
THEOREM BlocksStayAligned == Spec => []BlocksAligned
<1>1. Init => AlignInv
  <2>. SUFFICES ASSUME Init PROVE AlignInv
    OBVIOUS
  <2>1. Len(blocks) = 0 /\ heapPtr = 0 * Align
    BY HeapAssumption DEF Init
  <2>. QED BY <2>1, MultipleAligned DEF AlignInv, BlocksAligned
<1>2. HeapInv /\ AlignInv /\ [Next]_vars => AlignInv'
  <2>. SUFFICES ASSUME HeapInv, AlignInv, [Next]_vars PROVE AlignInv'
    OBVIOUS
  <2>1. ASSUME NEW size \in Sizes, NEW ptr \in Nat, ptr % Align = 0,
               blocks' = Give(ptr, size), heapPtr' = ptr + RoundUp(size)
        PROVE  AlignInv'
    <3>1. size \in Nat /\ RoundUp(size) \in Nat
      BY HeapAssumption, RoundUpBound
    <3>2. heapPtr' % Align = 0
      BY <2>1, <3>1, RoundUpAligned, SumAligned
    <3>3. \A i \in 1..Len(blocks)+1 : blocks'[i].lo % Align = 0
      <4>1. /\ \A i \in 1..Len(blocks) : blocks'[i] = blocks[i]
            /\ blocks'[Len(blocks) + 1] = [lo |-> ptr, hi |-> ptr + size]
        BY <2>1, <3>1, GaveFacts
      <4>2. \A i \in 1..Len(blocks) : blocks[i].lo % Align = 0
        BY DEF AlignInv, BlocksAligned
      <4>3. Len(blocks) \in Nat
        BY DEF HeapInv, TypeOK
      <4>4. blocks'[Len(blocks) + 1].lo = ptr
        BY <4>1
      <4>. QED BY <2>1, <4>1, <4>2, <4>3, <4>4
    <3>4. Len(blocks') = Len(blocks) + 1
      BY <2>1, <3>1, GaveFacts
    <3>. QED BY <3>2, <3>3, <3>4 DEF AlignInv, BlocksAligned
  <2>2. ASSUME NEW size \in Sizes, AllocInChunk(size) PROVE AlignInv'
    <3>1. heapPtr \in Nat /\ heapPtr % Align = 0
      BY DEF HeapInv, TypeOK, AlignInv
    <3>. QED BY <2>1, <2>2, <3>1 DEF AllocInChunk
  <2>3. ASSUME NEW size \in Sizes, AllocNewChunk(size) PROVE AlignInv'
    <3>1. PICK r \in MmapRegions(ChunkFor(size)) :
            blocks' = Give(r.lo, size) /\ heapPtr' = r.lo + RoundUp(size)
      BY <2>3 DEF AllocNewChunk
    <3>2. PICK base \in Bases : r = [lo |-> base, hi |-> base + ChunkFor(size)]
      BY DEF MmapRegions
    <3>3. r.lo \in Nat /\ r.lo % Align = 0
      BY <3>2, HeapAssumption, PageAssumption
    <3>. QED BY <2>1, <3>1, <3>3
  <2>4. ASSUME NEW size \in Sizes, AllocMmapFailed(size) PROVE AlignInv'
    <3>1. size \in Nat /\ RoundUp(size) \in Nat
      BY HeapAssumption, RoundUpBound
    <3>2. 0 \in Nat /\ 0 % Align = 0
      BY MultipleAligned, HeapAssumption
    <3>3. blocks' = Give(0, size) /\ heapPtr' = 0 + RoundUp(size)
      BY <2>4, <3>1 DEF AllocMmapFailed
    <3>. QED BY <2>1, <3>2, <3>3
  <2>5. CASE UNCHANGED vars
    BY <2>5 DEF vars, AlignInv, BlocksAligned
  <2>. QED BY <2>2, <2>3, <2>4, <2>5 DEF Next
<1>3. AlignInv => BlocksAligned
  BY DEF AlignInv
<1>. QED BY <1>1, <1>2, <1>3, HeapInvariant, PTL DEF Spec

-----------------------------------------------------------------------------
(* After a failed mmap.                                                      *)

\* The current chunk is granted, or a block at address 0 was handed out.
NilInv ==
  /\ NilBeforeWild
  /\ heapPtr # 0 =>
       \/ \E r \in mapped : r.lo <= heapPtr /\ heapPtr <= r.hi /\ heapEnd = r.hi
       \/ \E j \in 1..Len(blocks) : ~Empty(blocks[j]) /\ blocks[j].lo = 0

\* One more block keeps NilBeforeWild if it is granted or is not the first that
\* matters.
LEMMA NilGive ==
  ASSUME HeapInv, NilBeforeWild, NEW ptr \in Nat, NEW size \in Nat,
         blocks' = Give(ptr, size), mapped \subseteq mapped',
         LET b == [lo |-> ptr, hi |-> ptr + size]
         IN  \/ \E r \in mapped' : r.lo <= b.lo /\ b.hi <= r.hi
             \/ ptr = 0
             \/ \E j \in 1..Len(blocks) : ~Empty(blocks[j]) /\ blocks[j].lo = 0
  PROVE  NilBeforeWild'
<1>. DEFINE b == [lo |-> ptr, hi |-> ptr + size]
<1>1. /\ Len(blocks') = Len(blocks) + 1
      /\ \A i \in 1..Len(blocks) : blocks'[i] = blocks[i]
      /\ blocks'[Len(blocks) + 1] = b
      /\ Len(blocks) \in Nat
  BY GaveFacts
<1>2. ASSUME NEW i \in 1..Len(blocks), ~Empty(blocks[i]), ~Granted(blocks[i])'
      PROVE  \E j \in 1..i : ~Empty(blocks'[j]) /\ blocks'[j].lo = 0
  <2>1. ~Granted(blocks[i])
    BY <1>1, <1>2 DEF Granted
  <2>2. PICK j \in 1..i : ~Empty(blocks[j]) /\ blocks[j].lo = 0
    BY <1>2, <2>1 DEF NilBeforeWild
  <2>3. blocks'[j] = blocks[j]
    BY <1>1
  <2>. QED BY <2>2, <2>3
<1>3. ASSUME ~Empty(b), ~(\E r \in mapped' : r.lo <= b.lo /\ b.hi <= r.hi)
      PROVE  \E j \in 1..Len(blocks)+1 : ~Empty(blocks'[j]) /\ blocks'[j].lo = 0
  <2>1. CASE ptr = 0
    <3>1. ~Empty(blocks'[Len(blocks)+1]) /\ blocks'[Len(blocks)+1].lo = 0
      BY <1>1, <1>3, <2>1
    <3>. QED BY <1>1, <3>1
  <2>2. CASE ptr # 0
    <3>1. PICK j \in 1..Len(blocks) : ~Empty(blocks[j]) /\ blocks[j].lo = 0
      BY <1>3, <2>2
    <3>2. j \in 1..Len(blocks)+1 /\ blocks'[j] = blocks[j]
      BY <1>1
    <3>. QED BY <3>1, <3>2
  <2>. QED BY <2>1, <2>2
<1>4. ASSUME NEW i \in 1..Len(blocks'), ~Empty(blocks'[i]), ~Granted(blocks[i])'
      PROVE  \E j \in 1..i : ~Empty(blocks'[j]) /\ blocks'[j].lo = 0
  <2>1. CASE i \in 1..Len(blocks)
    <3>1. ~Empty(blocks[i])
      BY <1>1, <1>4, <2>1
    <3>. QED BY <1>2, <1>4, <2>1, <3>1
  <2>2. CASE i = Len(blocks) + 1
    <3>1. ~Empty(b) /\ ~(\E r \in mapped' : r.lo <= b.lo /\ b.hi <= r.hi)
      BY <1>1, <1>4, <2>2 DEF Granted
    <3>. QED BY <1>3, <2>2, <3>1
  <2>. QED BY <1>1, <2>1, <2>2, SMTT(20)
<1>. QED BY <1>4 DEF NilBeforeWild, Empty

\* A block outside granted memory is preceded by one at address 0, so the
\* guards of Memcopy and Memzero (runtime.go:89-94,109) see the first of them.
THEOREM WildBlocksFollowNil == Spec => []NilBeforeWild
<1>1. Init => NilInv
  <2>. SUFFICES ASSUME Init PROVE NilInv
    OBVIOUS
  <2>1. Len(blocks) = 0 /\ heapPtr = 0
    BY DEF Init
  <2>. QED BY <2>1 DEF NilInv, NilBeforeWild
<1>2. HeapInv /\ NilInv /\ [Next]_vars => NilInv'
  <2>. SUFFICES ASSUME HeapInv, NilInv, [Next]_vars PROVE NilInv'
    OBVIOUS
  <2>1. \A size \in Sizes : size \in Nat /\ RoundUp(size) \in Nat /\ RoundUp(size) >= size
    BY HeapAssumption, RoundUpBound
  <2>2. ASSUME NEW size \in Sizes, NEW ptr \in Nat, blocks' = Give(ptr, size),
               NEW j \in 1..Len(blocks), ~Empty(blocks[j]), blocks[j].lo = 0
        PROVE  \E i \in 1..Len(blocks') : ~Empty(blocks'[i]) /\ blocks'[i].lo = 0
    <3>1. Len(blocks') = Len(blocks) + 1 /\ blocks'[j] = blocks[j] /\ Len(blocks) \in Nat
      BY <2>1, <2>2, GaveFacts
    <3>. QED BY <2>2, <3>1
  <2>3. ASSUME NEW size \in Sizes, AllocInChunk(size) PROVE NilInv'
    <3>1. /\ heapPtr # 0 /\ heapPtr \in Nat /\ heapEnd \in Nat
          /\ heapPtr + RoundUp(size) <= heapEnd
          /\ blocks' = Give(heapPtr, size)
          /\ heapPtr' = heapPtr + RoundUp(size) /\ heapEnd' = heapEnd /\ mapped' = mapped
      BY <2>3 DEF AllocInChunk, Fits, HeapInv, TypeOK
    <3>2. CASE \E r \in mapped : r.lo <= heapPtr /\ heapPtr <= r.hi /\ heapEnd = r.hi
      <4>1. PICK r \in mapped : r.lo <= heapPtr /\ heapPtr <= r.hi /\ heapEnd = r.hi
        BY <3>2
      <4>2. r.lo \in Nat /\ r.hi \in Nat
        BY DEF HeapInv, TypeOK, Region
      <4>3. /\ r.lo <= heapPtr /\ heapPtr + size <= r.hi
            /\ r.lo <= heapPtr' /\ heapPtr' <= r.hi /\ heapEnd' = r.hi
        BY <2>1, <3>1, <4>1, <4>2
      <4>4. NilBeforeWild'
        BY <2>1, <3>1, <4>3, NilGive DEF NilInv
      <4>. QED BY <3>1, <4>3, <4>4 DEF NilInv
    <3>3. CASE \E j \in 1..Len(blocks) : ~Empty(blocks[j]) /\ blocks[j].lo = 0
      <4>1. NilBeforeWild'
        BY <2>1, <3>1, <3>3, NilGive DEF NilInv
      <4>2. \E i \in 1..Len(blocks') : ~Empty(blocks'[i]) /\ blocks'[i].lo = 0
        BY <2>2, <3>1, <3>3
      <4>. QED BY <4>1, <4>2 DEF NilInv, Empty
    <3>. QED BY <3>1, <3>2, <3>3 DEF NilInv
  <2>4. ASSUME NEW size \in Sizes, AllocNewChunk(size) PROVE NilInv'
    <3>1. PICK r \in MmapRegions(ChunkFor(size)) :
            /\ mapped' = mapped \cup {r}
            /\ blocks' = Give(r.lo, size)
            /\ heapPtr' = r.lo + RoundUp(size)
            /\ heapEnd' = r.hi
      BY <2>4 DEF AllocNewChunk
    <3>2. ChunkFor(size) \in Nat /\ RoundUp(size) <= ChunkFor(size)
      BY <2>1, HeapAssumption DEF ChunkFor
    <3>3. r.lo \in Nat /\ r.hi = r.lo + ChunkFor(size)
      BY <3>2, MmapRegionFacts DEF Region
    <3>4. /\ r \in mapped' /\ r.lo + size <= r.hi
          /\ r.lo <= heapPtr' /\ heapPtr' <= r.hi /\ heapEnd' = r.hi
      BY <2>1, <3>1, <3>2, <3>3
    <3>5. NilBeforeWild'
      BY <2>1, <3>1, <3>3, <3>4, NilGive DEF NilInv
    <3>. QED BY <3>4, <3>5 DEF NilInv
  <2>5. ASSUME NEW size \in Sizes, AllocMmapFailed(size) PROVE NilInv'
    <3>1. blocks' = Give(0, size) /\ heapPtr' = RoundUp(size) /\ mapped' = mapped
      BY <2>5 DEF AllocMmapFailed
    <3>2. NilBeforeWild'
      BY <2>1, <3>1, NilGive DEF NilInv
    <3>3. CASE size = 0
      <4>1. Align \in Nat /\ Align > 0
        BY HeapAssumption
      <4>2. (Align - 1) \div Align = 0
        BY <4>1
      <4>3. RoundUp(size) = 0
        BY <3>3, <4>1, <4>2 DEF RoundUp
      <4>. QED BY <3>1, <3>2, <4>3 DEF NilInv
    <3>4. CASE size # 0
      <4>1. /\ Len(blocks) \in Nat /\ Len(blocks') = Len(blocks) + 1
            /\ blocks'[Len(blocks) + 1] = [lo |-> 0, hi |-> 0 + size]
        BY <2>1, <3>1, GaveFacts
      <4>2. \E i \in 1..Len(blocks') : ~Empty(blocks'[i]) /\ blocks'[i].lo = 0
        <5>1. ~Empty(blocks'[Len(blocks) + 1]) /\ blocks'[Len(blocks) + 1].lo = 0
          BY <2>1, <3>4, <4>1 DEF Empty
        <5>. QED BY <4>1, <5>1
      <4>. QED BY <3>2, <4>2 DEF NilInv, Empty
    <3>. QED BY <3>3, <3>4
  <2>6. CASE UNCHANGED vars
    BY <2>6 DEF vars, NilInv, NilBeforeWild, Granted, Empty
  <2>. QED BY <2>3, <2>4, <2>5, <2>6 DEF Next
<1>3. NilInv => NilBeforeWild
  BY DEF NilInv
<1>. QED BY <1>1, <1>2, <1>3, HeapInvariant, PTL DEF Spec

-----------------------------------------------------------------------------
(* What a failed mmap leaves alone.                                          *)

\* The bytes above address 0 that a failed request takes for its chunk end
\* below every address the kernel chooses.  A 32-bit program that asks for
\* gigabytes can break this; nothing in Alloc would notice.
FailuresStayLow == \A size \in Sizes, base \in Bases : ChunkFor(size) <= base

RegionsAtBases == \A r \in mapped : r.lo \in Bases

WildLow ==
  \A i \in 1..Len(blocks) : ~Empty(blocks[i]) /\ ~Granted(blocks[i])
    => \A base \in Bases : blocks[i].hi <= base

\* The rest of the chunk is granted and in no block, or it lies low.
ChunkInv ==
  heapPtr # 0 =>
    \/ /\ \E r \in mapped : r.lo <= heapPtr /\ heapPtr <= r.hi /\ heapEnd = r.hi
       /\ \A i \in 1..Len(blocks) : Disjoint(blocks[i], Free)
    \/ \A base \in Bases : heapEnd <= base

OverlapInv == OverlapOnlyUnmapped /\ RegionsAtBases /\ WildLow /\ ChunkInv

\* One more block, in granted memory that no block uses or below all of it.
LEMMA OverlapGive ==
  ASSUME HeapInv, HeapInv', OverlapOnlyUnmapped, WildLow, RegionsAtBases', mapped \subseteq mapped',
         NEW ptr \in Nat, NEW size \in Nat, blocks' = Give(ptr, size),
         LET b == [lo |-> ptr, hi |-> ptr + size]
         IN  \/ /\ \E r \in mapped' : r.lo <= b.lo /\ b.hi <= r.hi
                /\ \A i \in 1..Len(blocks) : Disjoint(blocks[i], b)
             \/ \A base \in Bases : b.hi <= base
  PROVE  OverlapOnlyUnmapped' /\ WildLow'
<1>. DEFINE b == [lo |-> ptr, hi |-> ptr + size]
            In(c) == \E r \in mapped' : r.lo <= c.lo /\ c.hi <= r.hi
<1>1. /\ Len(blocks) \in Nat /\ Len(blocks') = Len(blocks) + 1
      /\ \A i \in 1..Len(blocks) : blocks'[i] = blocks[i] /\ blocks[i] \in Region
      /\ blocks'[Len(blocks) + 1] = b /\ b \in Region
  BY GaveFacts DEF Region
<1>2. \A i \in 1..Len(blocks') : Granted(blocks[i])' <=> In(blocks'[i])
  BY DEF Granted
<1>3. \A r \in mapped' : r \in Region /\ r.lo \in Nat /\ r.lo \in Bases
  BY DEF HeapInv, TypeOK, Region, RegionsAtBases
<1>4. ASSUME NEW c \in Region, ~Empty(c), \A base \in Bases : c.hi <= base
      PROVE  ~In(c)
  BY <1>3, <1>4 DEF Empty, Region
<1>5. ASSUME NEW i \in 1..Len(blocks), ~Empty(blocks[i]), ~Granted(blocks[i])
      PROVE  ~In(blocks[i])
  BY <1>1, <1>4, <1>5 DEF WildLow
<1>6. ASSUME NEW i \in 1..Len(blocks), ~In(blocks[i])
      PROVE  ~Granted(blocks[i])
  BY <1>6 DEF Granted
<1>7. WildLow'
  <2>. SUFFICES ASSUME NEW i \in 1..Len(blocks'), ~Empty(blocks'[i]), ~In(blocks'[i]),
                       NEW base \in Bases
                PROVE  blocks'[i].hi <= base
    BY <1>2 DEF WildLow, Empty
  <2>1. CASE i \in 1..Len(blocks)
    BY <1>1, <1>6, <2>1 DEF WildLow
  <2>2. CASE i = Len(blocks) + 1
    BY <1>1, <2>2
  <2>. QED BY <1>1, <2>1, <2>2
<1>8. ASSUME NEW i \in 1..Len(blocks), ~Disjoint(blocks[i], b)
      PROVE  ~In(blocks[i]) /\ ~In(b)
  <2>1. \A base \in Bases : b.hi <= base
    BY <1>8
  <2>2. ~Empty(b) /\ ~Empty(blocks[i])
    BY <1>1, <1>8 DEF Disjoint, Empty, Region
  <2>3. ~In(b)
    BY <1>1, <1>4, <2>1, <2>2
  <2>4. ~In(blocks[i])
    BY <1>1, <1>3, <1>8, <2>1 DEF Disjoint, Region
  <2>. QED BY <2>3, <2>4
<1>9. ASSUME NEW i \in 1..Len(blocks), NEW j \in 1..Len(blocks), i # j,
             ~Disjoint(blocks[i], blocks[j])
      PROVE  ~In(blocks[i]) /\ ~In(blocks[j])
  <2>1. ~Granted(blocks[i]) /\ ~Granted(blocks[j])
    BY <1>9 DEF OverlapOnlyUnmapped
  <2>2. ~Empty(blocks[i]) /\ ~Empty(blocks[j])
    BY <1>1, <1>9 DEF Disjoint, Empty, Region
  <2>. QED BY <1>5, <2>1, <2>2
<1>10. OverlapOnlyUnmapped'
  <2>. HIDE DEF In
  <2>1. ASSUME NEW i \in 1..Len(blocks'), NEW j \in 1..Len(blocks'), i # j,
               ~Disjoint(blocks'[i], blocks'[j])
        PROVE  ~In(blocks'[i]) /\ ~In(blocks'[j])
    <3>1. CASE i \in 1..Len(blocks) /\ j \in 1..Len(blocks)
      BY <1>1, <1>9, <2>1, <3>1
    <3>2. CASE i \in 1..Len(blocks) /\ j = Len(blocks) + 1
      BY <1>1, <1>8, <2>1, <3>2
    <3>3. CASE i = Len(blocks) + 1 /\ j \in 1..Len(blocks)
      <4>1. ~Disjoint(blocks[j], b)
        BY <1>1, <2>1, <3>3 DEF Disjoint
      <4>. QED BY <1>1, <1>8, <3>3, <4>1
    <3>. QED BY <1>1, <2>1, <3>1, <3>2, <3>3
  <2>. QED BY <1>2, <2>1 DEF OverlapOnlyUnmapped, Disjoint
<1>. QED BY <1>7, <1>10

\* A failed mmap damages no block in granted memory: what overlaps lies outside.
THEOREM FailureSparesGranted ==
  ASSUME FailuresStayLow
  PROVE  Spec => []OverlapOnlyUnmapped
<1>1. Init => OverlapInv
  <2>. SUFFICES ASSUME Init PROVE OverlapInv
    OBVIOUS
  <2>1. Len(blocks) = 0 /\ heapPtr = 0 /\ mapped = {}
    BY DEF Init
  <2>. QED BY <2>1 DEF OverlapInv, OverlapOnlyUnmapped, RegionsAtBases, WildLow, ChunkInv
<1>2. HeapInv /\ HeapInv' /\ OverlapInv /\ [Next]_vars => OverlapInv'
  <2>. SUFFICES ASSUME HeapInv, HeapInv', OverlapInv, [Next]_vars PROVE OverlapInv'
    OBVIOUS
  <2>1. \A size \in Sizes : /\ size \in Nat /\ RoundUp(size) \in Nat /\ RoundUp(size) >= size
                            /\ ChunkFor(size) \in Nat /\ RoundUp(size) <= ChunkFor(size)
    <3>1. \A size \in Sizes : size \in Nat /\ RoundUp(size) \in Nat /\ RoundUp(size) >= size
      BY HeapAssumption, RoundUpBound
    <3>. QED BY <3>1, HeapAssumption DEF ChunkFor
  <2>2. \A base \in Bases : base \in Nat /\ base > 0
    BY HeapAssumption
  <2>3. ASSUME NEW size \in Sizes, AllocInChunk(size) PROVE OverlapInv'
    <3>1. /\ heapPtr # 0 /\ heapPtr \in Nat /\ heapEnd \in Nat
          /\ heapPtr + RoundUp(size) <= heapEnd
          /\ blocks' = Give(heapPtr, size)
          /\ heapPtr' = heapPtr + RoundUp(size) /\ heapEnd' = heapEnd /\ mapped' = mapped
      BY <2>3 DEF AllocInChunk, Fits, HeapInv, TypeOK
    <3>. DEFINE b == [lo |-> heapPtr, hi |-> heapPtr + size]
    <3>2. /\ Len(blocks) \in Nat /\ Len(blocks') = Len(blocks) + 1
          /\ \A i \in 1..Len(blocks) : blocks'[i] = blocks[i] /\ blocks[i] \in Region
          /\ blocks'[Len(blocks) + 1] = b
      BY <2>1, <3>1, GaveFacts
    <3>3. RegionsAtBases'
      BY <3>1 DEF OverlapInv, RegionsAtBases
    <3>4. CASE \A base \in Bases : heapEnd <= base
      <4>1. \A base \in Bases : b.hi <= base
        BY <2>1, <2>2, <3>1, <3>4
      <4>2. OverlapOnlyUnmapped' /\ WildLow'
        BY <2>1, <3>1, <3>3, <4>1, OverlapGive DEF OverlapInv
      <4>. QED BY <3>1, <3>3, <3>4, <4>2 DEF OverlapInv, ChunkInv
    <3>5. CASE /\ \E r \in mapped : r.lo <= heapPtr /\ heapPtr <= r.hi /\ heapEnd = r.hi
               /\ \A i \in 1..Len(blocks) : Disjoint(blocks[i], Free)
      <4>1. PICK r \in mapped : r.lo <= heapPtr /\ heapPtr <= r.hi /\ heapEnd = r.hi
        BY <3>5
      <4>2. r.lo \in Nat /\ r.hi \in Nat
        BY DEF HeapInv, TypeOK, Region
      <4>3. \A i \in 1..Len(blocks) : Disjoint(blocks[i], b)
        <5>1. ASSUME NEW i \in 1..Len(blocks) PROVE Disjoint(blocks[i], b)
          <6>1. Disjoint(blocks[i], [lo |-> heapPtr, hi |-> heapEnd])
            BY <3>5 DEF Free
          <6>. QED BY <2>1, <3>1, <3>2, <6>1 DEF Disjoint, Region
        <5>. QED BY <5>1
      <4>4. r \in mapped' /\ r.lo <= b.lo /\ b.hi <= r.hi
        BY <2>1, <3>1, <4>1, <4>2
      <4>5. OverlapOnlyUnmapped' /\ WildLow'
        BY <2>1, <3>1, <3>3, <4>3, <4>4, OverlapGive DEF OverlapInv
      <4>6. r.lo <= heapPtr' /\ heapPtr' <= r.hi /\ heapEnd' = r.hi
        BY <2>1, <3>1, <4>1, <4>2 DEF Region
      <4>7. \A i \in 1..Len(blocks') : Disjoint(blocks'[i], Free')
        <5>1. \A i \in 1..Len(blocks) : Disjoint(blocks[i], Free')
          <6>1. ASSUME NEW i \in 1..Len(blocks) PROVE Disjoint(blocks[i], Free')
            <7>1. Disjoint(blocks[i], [lo |-> heapPtr, hi |-> heapEnd])
              BY <3>5 DEF Free
            <7>2. Free' = [lo |-> heapPtr', hi |-> heapEnd']
              BY DEF Free
            <7>. QED BY <2>1, <3>1, <3>2, <7>1, <7>2 DEF Disjoint, Region
          <6>. QED BY <6>1
        <5>2. Disjoint(b, Free')
          BY <2>1, <3>1 DEF Disjoint, Free
        <5>. QED BY <3>2, <5>1, <5>2
      <4>. QED BY <3>3, <4>4, <4>5, <4>6, <4>7, Zenon DEF OverlapInv, ChunkInv
    <3>. QED BY <3>1, <3>4, <3>5 DEF OverlapInv, ChunkInv
  <2>4. ASSUME NEW size \in Sizes, AllocNewChunk(size) PROVE OverlapInv'
    <3>1. PICK r \in MmapRegions(ChunkFor(size)) :
            /\ mapped' = mapped \cup {r}
            /\ blocks' = Give(r.lo, size)
            /\ heapPtr' = r.lo + RoundUp(size)
            /\ heapEnd' = r.hi
      BY <2>4 DEF AllocNewChunk
    <3>2. /\ r \in Region /\ r.lo \in Nat /\ r.hi \in Nat /\ r.hi = r.lo + ChunkFor(size)
          /\ \A s \in mapped : Disjoint(r, s)
          /\ r.lo \in Bases
      <4>1. \E base \in Bases : r = [lo |-> base, hi |-> base + ChunkFor(size)]
        BY DEF MmapRegions
      <4>. QED BY <2>1, <4>1, MmapRegionFacts DEF Region
    <3>. DEFINE b == [lo |-> r.lo, hi |-> r.lo + size]
    <3>3. /\ Len(blocks) \in Nat /\ Len(blocks') = Len(blocks) + 1
          /\ \A i \in 1..Len(blocks) : blocks'[i] = blocks[i] /\ blocks[i] \in Region
          /\ blocks'[Len(blocks) + 1] = b
      BY <2>1, <3>1, <3>2, GaveFacts
    <3>4. RegionsAtBases'
      BY <3>1, <3>2 DEF OverlapInv, RegionsAtBases
    <3>5. \A i \in 1..Len(blocks) : Disjoint(blocks[i], r)
      <4>. SUFFICES ASSUME NEW i \in 1..Len(blocks), ~Empty(blocks[i])
                    PROVE  Disjoint(blocks[i], r)
        BY <3>2, <3>3 DEF Empty, Disjoint, Region
      <4>1. CASE Granted(blocks[i])
        <5>1. PICK s \in mapped : s.lo <= blocks[i].lo /\ blocks[i].hi <= s.hi
          BY <4>1 DEF Granted
        <5>2. Disjoint(r, s) /\ s \in Region
          BY <3>2 DEF HeapInv, TypeOK
        <5>. QED BY <3>2, <3>3, <5>1, <5>2 DEF Disjoint, Region, Empty
      <4>2. CASE ~Granted(blocks[i])
        BY <3>2, <3>3, <4>2 DEF OverlapInv, WildLow, Disjoint, Region
      <4>. QED BY <4>1, <4>2
    <3>6. \A i \in 1..Len(blocks) : Disjoint(blocks[i], b)
      BY <2>1, <3>2, <3>3, <3>5, SMTT(20) DEF Disjoint, Region
    <3>7. r \in mapped' /\ r.lo <= b.lo /\ b.hi <= r.hi
      BY <2>1, <3>1, <3>2
    <3>8. OverlapOnlyUnmapped' /\ WildLow'
      BY <2>1, <3>1, <3>2, <3>4, <3>6, <3>7, OverlapGive DEF OverlapInv
    <3>9. r.lo <= heapPtr' /\ heapPtr' <= r.hi /\ heapEnd' = r.hi
      BY <2>1, <3>1, <3>2
    <3>10. \A i \in 1..Len(blocks') : Disjoint(blocks'[i], Free')
      <4>1. \A i \in 1..Len(blocks) : Disjoint(blocks[i], Free')
        BY <2>1, <3>1, <3>2, <3>3, <3>5, SMTT(20) DEF Disjoint, Free, Region
      <4>2. Disjoint(b, Free')
        BY <2>1, <3>1, <3>2 DEF Disjoint, Free
      <4>. QED BY <3>3, <4>1, <4>2
    <3>. QED BY <3>4, <3>7, <3>8, <3>9, <3>10 DEF OverlapInv, ChunkInv, Disjoint
  <2>5. ASSUME NEW size \in Sizes, AllocMmapFailed(size) PROVE OverlapInv'
    <3>1. /\ blocks' = Give(0, size) /\ heapPtr' = RoundUp(size) /\ heapEnd' = ChunkFor(size)
          /\ mapped' = mapped
      BY <2>5 DEF AllocMmapFailed
    <3>2. \A base \in Bases : 0 + size <= base /\ heapEnd' <= base
      BY <2>1, <2>2, <3>1 DEF FailuresStayLow
    <3>3. RegionsAtBases'
      BY <3>1 DEF OverlapInv, RegionsAtBases
    <3>4. OverlapOnlyUnmapped' /\ WildLow'
      BY <2>1, <3>1, <3>2, <3>3, OverlapGive DEF OverlapInv
    <3>. QED BY <3>2, <3>3, <3>4 DEF OverlapInv, ChunkInv
  <2>6. CASE UNCHANGED vars
    BY <2>6 DEF vars, OverlapInv, OverlapOnlyUnmapped, RegionsAtBases, WildLow, ChunkInv,
                Granted, Empty, Free
  <2>. QED BY <2>3, <2>4, <2>5, <2>6 DEF Next
<1>3. OverlapInv => OverlapOnlyUnmapped
  BY DEF OverlapInv
<1>. QED BY <1>1, <1>2, <1>3, HeapInvariant, PTL DEF Spec
=============================================================================
