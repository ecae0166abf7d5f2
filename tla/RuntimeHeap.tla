---------------------------- MODULE RuntimeHeap ----------------------------
(***************************************************************************)
(* The bump allocator of the rtg runtime (std/runtime/runtime.go, Alloc).  *)
(* Every header, backing array, map table, string and interface box of a   *)
(* compiled program is a block Alloc returned; nothing is ever freed, so   *)
(* the whole memory safety of the runtime rests on two facts: a block      *)
(* never overlaps an earlier one, and it lies inside memory the kernel     *)
(* granted.  Addresses and sizes are natural numbers; Align and Chunk are  *)
(* 8 and 1048576 in the code.                                              *)
(***************************************************************************)
EXTENDS Integers, Sequences

CONSTANTS
  Align,      \* rounding unit of a request (8 in the code)
  Chunk,      \* least number of bytes asked of SysMmap (1048576 in the code)
  Sizes,      \* the sizes a program asks for
  Bases,      \* the page addresses the kernel may choose from
  MaxBlocks   \* bound: number of calls of Alloc in a behaviour

ASSUME HeapAssumption ==
  /\ Align \in Nat \ {0}
  /\ Chunk \in Nat \ {0}
  /\ Sizes \subseteq Nat
  /\ Bases \subseteq Nat \ {0}
  /\ MaxBlocks \in Nat

\* mmap answers with the address of a page, and a page (4096 bytes) is a whole
\* number of units of 8.
ASSUME PageAssumption == \A base \in Bases : base % Align = 0

VARIABLES
  heapPtr,    \* next free byte of the current chunk, 0 before the first call
  heapEnd,    \* first byte after the current chunk
  mapped,     \* the regions SysMmap granted, [lo, hi)
  blocks,     \* the blocks Alloc returned, in the order of the calls
  failed      \* SysMmap has failed (noted here only: the code drops the error)

vars == <<heapPtr, heapEnd, mapped, blocks, failed>>

Region == [lo : Nat, hi : Nat]

\* Two half-open regions that share no byte.
Disjoint(r, s) == r.hi <= s.lo \/ s.hi <= r.lo \/ r.lo >= r.hi \/ s.lo >= s.hi

\* Mistake used to test the properties: the request is not rounded up.
MutRoundUp(size) == size

RoundUp(size) == ((size + Align - 1) \div Align) * Align

-----------------------------------------------------------------------------
Init ==
  /\ heapPtr = 0
  /\ heapEnd = 0
  /\ mapped = {}
  /\ blocks = <<>>
  /\ failed = FALSE

\* The kernel's answer to an anonymous mmap of n bytes: a region that overlaps
\* none it granted before.
MmapRegions(n) ==
  { r \in { [lo |-> base, hi |-> base + n] : base \in Bases } :
      \A s \in mapped : Disjoint(r, s) }

\* Mistake: the chunk is tested before the size is added.
MutFits(size) == heapPtr # 0 /\ heapPtr < heapEnd

\* The request is served from the rest of the current chunk.
Fits(size) == heapPtr # 0 /\ heapPtr + RoundUp(size) <= heapEnd

\* Mistake: the caller gets the bytes that end where its block should start.
MutGive(ptr, size) ==
  Append(blocks, [lo |-> IF ptr >= Align THEN ptr - Align ELSE ptr, hi |-> ptr + size])

\* What one call gives its caller: the block and, beside it, the bytes asked
\* for.
Give(ptr, size) == Append(blocks, [lo |-> ptr, hi |-> ptr + size])

AllocInChunk(size) ==
  /\ Len(blocks) < MaxBlocks
  /\ Fits(size)
  /\ blocks' = Give(heapPtr, size)
  /\ heapPtr' = heapPtr + RoundUp(size)
  /\ UNCHANGED <<heapEnd, mapped, failed>>

\* Mistake: a large request gets a chunk of the usual size.
MutChunkFor(size) == Chunk

\* A request larger than a chunk gets a region of its own size.
ChunkFor(size) == IF RoundUp(size) > Chunk THEN RoundUp(size) ELSE Chunk

\* A new chunk; what was left of the old one is abandoned.
AllocNewChunk(size) ==
  /\ Len(blocks) < MaxBlocks
  /\ ~Fits(size)
  /\ \E r \in MmapRegions(ChunkFor(size)) :
       /\ mapped' = mapped \cup {r}
       /\ blocks' = Give(r.lo, size)
       /\ heapPtr' = r.lo + RoundUp(size)
       /\ heapEnd' = r.hi
       /\ failed' = failed

\* Mistake: the bytes of a failed chunk are taken to start above address 0.
MutAllocMmapFailed(size) ==
  /\ Len(blocks) < MaxBlocks
  /\ ~Fits(size)
  /\ failed' = TRUE
  /\ blocks' = Give(Align, size)
  /\ heapPtr' = Align + RoundUp(size)
  /\ heapEnd' = ChunkFor(size)
  /\ UNCHANGED mapped

\* SysMmap failed: it returns 0 with an error number that Alloc drops, and the
\* bytes from address 0 become the current chunk.
AllocMmapFailed(size) ==
  /\ Len(blocks) < MaxBlocks
  /\ ~Fits(size)
  /\ failed' = TRUE
  /\ blocks' = Give(0, size)
  /\ heapPtr' = RoundUp(size)
  /\ heapEnd' = ChunkFor(size)
  /\ UNCHANGED mapped

Next ==
  \E size \in Sizes :
    \/ AllocInChunk(size)
    \/ AllocNewChunk(size)
    \/ AllocMmapFailed(size)

Spec == Init /\ [][Next]_vars

-----------------------------------------------------------------------------
TypeOK ==
  /\ heapPtr \in Nat
  /\ heapEnd \in Nat
  /\ mapped \in SUBSET Region
  /\ blocks \in Seq(Region)
  /\ failed \in BOOLEAN

\* While SysMmap succeeds, no two blocks Alloc handed out share a byte: a header,
\* a backing array or a string never changes because another one is written.
BlocksDisjoint ==
  ~failed =>
    \A i, j \in 1..Len(blocks) : i # j => Disjoint(blocks[i], blocks[j])

\* A block whose bytes are all in one region the kernel granted.
Granted(b) == \E r \in mapped : r.lo <= b.lo /\ b.hi <= r.hi

Empty(b) == b.hi <= b.lo

\* While SysMmap succeeds, every block lies in memory the kernel granted
\* ("allocates size bytes via mmap", runtime.go:60).
BlocksMapped ==
  ~failed =>
    \A i \in 1..Len(blocks) : ~Empty(blocks[i]) => Granted(blocks[i])

\* A failed mmap never damages what was handed out before: blocks overlap only
\* when neither lies in granted memory.
OverlapOnlyUnmapped ==
  \A i, j \in 1..Len(blocks) :
    i # j /\ ~Disjoint(blocks[i], blocks[j])
      => ~Granted(blocks[i]) /\ ~Granted(blocks[j])

\* The guards of Memcopy and Memzero (runtime.go:89-94,109) only see address 0.
\* They are enough to notice a failed mmap because a block outside granted
\* memory is always preceded by one at address 0.
NilBeforeWild ==
  \A i \in 1..Len(blocks) : ~Empty(blocks[i]) /\ ~Granted(blocks[i])
    => \E j \in 1..i : ~Empty(blocks[j]) /\ blocks[j].lo = 0

\* The blocks start on an alignment boundary ("Round up to 8-byte alignment",
\* runtime.go:63), whatever sizes were asked for before.
BlocksAligned == \A i \in 1..Len(blocks) : blocks[i].lo % Align = 0

-----------------------------------------------------------------------------
(* The inductive invariant behind BlocksDisjoint and BlocksMapped.          *)

Free == [lo |-> heapPtr, hi |-> heapEnd]

MappedDisjoint == \A r, s \in mapped : r # s => Disjoint(r, s)

\* The rest of the chunk is granted memory that no block uses.
FreeInChunk ==
  ~failed /\ heapPtr # 0 => \E r \in mapped : r.lo <= heapPtr /\ heapPtr <= r.hi /\ heapEnd = r.hi

FreeUnused ==
  ~failed /\ heapPtr # 0 => \A i \in 1..Len(blocks) : Disjoint(blocks[i], Free)

\* The allocator's bookkeeping between two calls: regions are disjoint and, until
\* SysMmap fails, the rest of the current chunk is in one of them and in no
\* block (Alloc, runtime.go:62-80).
HeapInv ==
  /\ TypeOK
  /\ MappedDisjoint
  /\ FreeInChunk
  /\ FreeUnused
  /\ BlocksMapped
  /\ BlocksDisjoint
=============================================================================
