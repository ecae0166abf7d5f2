SPECIFICATION Spec
CONSTANTS
  Align = 2
  Chunk = 6
  Sizes <- MCSizes
  Bases <- MCBases
  MaxBlocks = 5
INVARIANTS
  BlocksDisjoint
  BlocksMapped
  BlocksAligned
  OverlapOnlyUnmapped
  NilBeforeWild
  HeapInv
CHECK_DEADLOCK FALSE
