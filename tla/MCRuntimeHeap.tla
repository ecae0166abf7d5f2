--------------------------- MODULE MCRuntimeHeap ---------------------------
(* Instances of RuntimeHeap for TLC: addresses in units of one byte with an *)
(* alignment of 2 and chunks of 6, so that a behaviour fills a chunk,       *)
(* abandons a tail, and asks for more than one chunk at once.               *)
EXTENDS RuntimeHeap

\* The kernel's regions stay clear of the bytes around address 0, where a program
\* writes after a failed mmap; two of them meet, others overlap.
MCBases == {20, 26, 28, 34}
MCSizes == {0, 1, 2, 3, 7}

=============================================================================
