---------------------------- MODULE RuntimeSlice ----------------------------
(***************************************************************************)
(* Slices of a compiled program: SliceMake, SliceMakeCap, SliceAppend,     *)
(* SliceAppendSlice, SliceCopy, SliceReslice and Memcopy of                *)
(* std/runtime/runtime.go, and the code std/compiler/ir.go emits around    *)
(* them, the range loop included.                                          *)
(*                                                                         *)
(* A slice variable holds a pointer to a header, so that x = y shares the  *)
(* header, and append changes the header it is given, also under a range   *)
(* loop that runs over it.  Go's slices are values.  Some kinds of         *)
(* programs cannot tell: they append to a slice only while one variable    *)
(* holds its header, and no loop does.                                     *)
(*                                                                         *)
(* Programs use indices and bounds that Go accepts.  Elements have one     *)
(* size; an address is an array (a block of Alloc) and a place in it.      *)
(***************************************************************************)
EXTENDS Integers, Sequences

CONSTANTS
  Var,         \* the slice variables of the program
  Elem,        \* the elements
  Zero,        \* the zero value of the element type
  InitCap,     \* capacity of the first array of a nil slice (8)
  Kinds,       \* the kinds of programs:
               \*   own: they append through the only holder of a header,
               \*   overlap: they copy elements up into their own window,
               \*   grows: they append to the slice they range over,
               \*   stmts: the statements they use (a bound),
               \*   arrays: how many they make (a bound)
               \*   cap: capacity of an array (a bound)
  MaxHeaders,  \* bound: headers
  MaxCap       \* bound: the largest capacity of all kinds

ASSUME SliceAssumption ==
  /\ Zero \in Elem
  /\ InitCap \in Nat \ {0}
  /\ Kinds \subseteq [own : BOOLEAN, overlap : BOOLEAN, grows : BOOLEAN,
                     stmts : SUBSET STRING, arrays : Nat, cap : 0..MaxCap]
  /\ MaxHeaders \in Nat /\ MaxCap \in Nat

VARIABLES
  prog,    \* the kind of the program that runs
  array,   \* the arrays
  hdr,     \* the headers: array and offset of the data pointer, len, cap
  var,     \* var[x]: the header x points to, 0 for nil
  iter,    \* $iter of the range loop that runs: a header, 0 if none does
  idx,     \* $idx of that loop
  val,     \* the loop variable: what its last iteration yielded
  ret,     \* what the last copy returned
  panicked

vars == <<prog, array, hdr, var, iter, idx, val, ret, panicked>>

\* The data pointer of an array without elements is 0.
NoData == [arr |-> 0, off |-> 0, len |-> 0, cap |-> 0]

\* The header variable x points to; a nil slice has length and capacity 0.
Window(h) == IF h = 0 THEN NoData ELSE hdr[h]
Slice(x) == Window(var[x])

Holders(h) == { x \in Var : var[x] = h }

\* A program of the kind may append to the slice of y and give x the result.
MayAppend(x, y) ==
  var[y] # 0 =>
    /\ prog.own => Holders(var[y]) = {y} /\ x = y
    /\ iter = var[y] => prog.grows

\* Alloc and Memzero: an array of n elements.
Fresh(n) == [i \in 1..n |-> Zero]

\* Mistake: one element too few is copied.
MutMemcopy(as, d, p, s, q, n) ==
  LET step[i \in 0..n] ==
        IF i <= 1 THEN as
        ELSE [step[i-1] EXCEPT ![d][p + i - 1] = step[i-1][s][q + i - 1]]
  IN  step[n]

\* Memcopy: n elements from place q of array s to place p of array d, from the
\* first to the last.
Memcopy(as, d, p, s, q, n) ==
  LET step[i \in 0..n] ==
        IF i = 0 THEN as
        ELSE [step[i-1] EXCEPT ![d][p + i] = step[i-1][s][q + i]]
  IN  step[n]

\* The elements would be copied up into the window they come from: Memcopy
\* reads some of them after it wrote them.
CopiesUp(d, p, s, q, n) == d = s /\ p \in q+1..q+n-1

-----------------------------------------------------------------------------
Init ==
  /\ prog \in Kinds
  /\ array = <<>>
  /\ hdr = <<>>
  /\ var = [x \in Var |-> 0]
  /\ iter = 0
  /\ idx = 0
  /\ val = Zero
  /\ ret = 0
  /\ panicked = FALSE

\* A new header for x.
NewHeader(x, w) ==
  /\ Len(hdr) < MaxHeaders
  /\ hdr' = Append(hdr, w)
  /\ var' = [var EXCEPT ![x] = Len(hdr) + 1]

\* x = make([]T, n, c)
SliceMakeCap(x, n, c) ==
  /\ IF c > 0
     THEN /\ Len(array) < prog.arrays
          /\ array' = Append(array, Fresh(c))
          /\ NewHeader(x, [arr |-> Len(array) + 1, off |-> 0, len |-> n, cap |-> c])
     ELSE /\ array' = array
          /\ NewHeader(x, NoData)
  /\ UNCHANGED <<iter, idx, val, ret, panicked>>

\* x = make([]T, n)
SliceMake(x, n) == SliceMakeCap(x, n, n)

\* x = y
Assign(x, y) ==
  /\ var' = [var EXCEPT ![x] = var[y]]
  /\ UNCHANGED <<array, hdr, iter, idx, val, ret, panicked>>

\* Headers and arrays, and the header to append to: a nil slice gets one, with
\* an array of c elements.
Ensured(y, c) ==
  IF var[y] # 0
  THEN [hs |-> hdr, as |-> array, h |-> var[y]]
  ELSE [hs |-> Append(hdr, [arr |-> Len(array) + 1, off |-> 0, len |-> 0, cap |-> c]),
        as |-> Append(array, Fresh(c)),
        h |-> Len(hdr) + 1]

\* The same with a larger array of c elements, the old ones copied there.
Regrown(m, c) ==
  LET w == m.hs[m.h]
      b == Len(m.as) + 1
  IN  [hs |-> [m.hs EXCEPT ![m.h] = [arr |-> b, off |-> 0, len |-> w.len, cap |-> c]],
       as |-> Memcopy(Append(m.as, Fresh(c)), b, 0, w.arr, w.off, w.len),
       h |-> m.h]

WithinBounds(m) ==
  /\ Len(m.hs) <= MaxHeaders
  /\ Len(m.as) <= prog.arrays
  /\ \A b \in 1..Len(m.as) : Len(m.as[b]) <= prog.cap

\* x = append(y, e)
SliceAppend(x, y, e) ==
  LET m1 == Ensured(y, InitCap)
      w1 == m1.hs[m1.h]
      newCap == IF w1.cap = 0 THEN InitCap ELSE 2 * w1.cap
      m == IF w1.len >= w1.cap THEN Regrown(m1, newCap) ELSE m1
      w == m.hs[m.h]
  IN  /\ MayAppend(x, y)
      /\ WithinBounds(m)
      /\ array' = [m.as EXCEPT ![w.arr][w.off + w.len + 1] = e]
      /\ hdr' = [m.hs EXCEPT ![m.h].len = @ + 1]
      /\ var' = [var EXCEPT ![x] = m.h]
      /\ UNCHANGED <<iter, idx, val, ret, panicked>>

\* x = append(y, z...)
SliceAppendSlice(x, y, z) ==
  LET srcLen == Slice(z).len
      m1 == Ensured(y, srcLen)
      w1 == m1.hs[m1.h]
      needed == w1.len + srcLen
      newCap == IF 2 * w1.cap < needed THEN needed ELSE 2 * w1.cap
      m == IF needed > w1.cap THEN Regrown(m1, newCap) ELSE m1
      w == m.hs[m.h]
      src == m.hs[var[z]]
  IN  /\ srcLen > 0
      /\ MayAppend(x, y)
      /\ WithinBounds(m)
      /\ prog.overlap \/ ~CopiesUp(w.arr, w.off + w.len, src.arr, src.off, srcLen)
      /\ array' = Memcopy(m.as, w.arr, w.off + w.len, src.arr, src.off, srcLen)
      /\ hdr' = [m.hs EXCEPT ![m.h].len = needed]
      /\ var' = [var EXCEPT ![x] = m.h]
      /\ UNCHANGED <<iter, idx, val, ret, panicked>>

\* The same with nothing to append.
SliceAppendNothing(x, y, z) ==
  /\ Slice(z).len = 0
  /\ Assign(x, y)

\* ret = copy(x, y)
SliceCopy(x, y) ==
  LET d == Slice(x)
      s == Slice(y)
      n == IF s.len < d.len THEN s.len ELSE d.len
  IN  /\ prog.overlap \/ ~CopiesUp(d.arr, d.off, s.arr, s.off, n)
      /\ array' = Memcopy(array, d.arr, d.off, s.arr, s.off, n)
      /\ ret' = n
      /\ UNCHANGED <<hdr, var, iter, idx, val, panicked>>

\* Mistake: the capacity of the whole is kept.
MutResliced(w, low, high) ==
  [w EXCEPT !.off = @ + low, !.len = high - low]

\* Mistake: both bounds are taken off the capacity.
MutReslicedBoth(w, low, high) ==
  [w EXCEPT !.off = @ + low, !.len = high - low, !.cap = @ - low - high]

Resliced(w, low, high) ==
  [arr |-> w.arr, off |-> w.off + low, len |-> high - low, cap |-> w.cap - low]

\* x = y[low:high]
SliceReslice(x, y, low, high) ==
  /\ var[y] # 0
  /\ low <= high /\ high <= Slice(y).cap
  /\ NewHeader(x, Resliced(Slice(y), low, high))
  /\ UNCHANGED <<array, iter, idx, val, ret, panicked>>

SliceResliceNil(x, y, low, high) ==
  /\ var[y] = 0
  /\ IF low = 0 /\ high = 0
     THEN panicked' = FALSE /\ var' = [var EXCEPT ![x] = 0]
     ELSE panicked' = TRUE /\ var' = var
  /\ UNCHANGED <<array, hdr, iter, idx, val, ret>>

\* x[i-1] = e
Set(x, i, e) ==
  /\ i \in 1..Slice(x).len
  /\ array' = [array EXCEPT ![Slice(x).arr][Slice(x).off + i] = e]
  /\ UNCHANGED <<hdr, var, iter, idx, val, ret, panicked>>

\* for _, v := range x: the header is kept, the length is read again before
\* every iteration.
RangeStart(x) ==
  /\ iter = 0
  /\ var[x] # 0
  /\ iter' = var[x]
  /\ idx' = 0
  /\ UNCHANGED <<array, hdr, var, val, ret, panicked>>

RangeNext ==
  LET w == hdr[iter]
  IN  /\ iter # 0
      /\ idx < w.len
      /\ val' = array[w.arr][w.off + idx + 1]
      /\ idx' = idx + 1
      /\ UNCHANGED <<array, hdr, var, iter, ret, panicked>>

RangeEnd ==
  /\ iter # 0
  /\ idx >= hdr[iter].len
  /\ iter' = 0
  /\ idx' = 0
  /\ val' = Zero
  /\ UNCHANGED <<array, hdr, var, ret, panicked>>

Step ==
  \/ \E x, y \in Var : Assign(x, y)
  \/ "make" \in prog.stmts /\ \E x \in Var, c \in 0..prog.cap :
       SliceMake(x, c) \/ \E n \in 0..c-1 : SliceMakeCap(x, n, c)
  \/ "append" \in prog.stmts /\ \E x, y \in Var, e \in Elem : SliceAppend(x, y, e)
  \/ "spread" \in prog.stmts /\ \E x, y, z \in Var :
       SliceAppendSlice(x, y, z) \/ SliceAppendNothing(x, y, z)
  \/ "copy" \in prog.stmts /\ \E x, y \in Var : SliceCopy(x, y)
  \/ "reslice" \in prog.stmts /\ \E x, y \in Var, low, high \in 0..prog.cap :
       SliceReslice(x, y, low, high) \/ SliceResliceNil(x, y, low, high)
  \/ "set" \in prog.stmts /\ \E x \in Var, i \in 1..prog.cap, e \in Elem : Set(x, i, e)
  \/ "range" \in prog.stmts /\ (RangeNext \/ RangeEnd \/ \E x \in Var : RangeStart(x))

Next == ~panicked /\ Step /\ UNCHANGED prog

Spec == Init /\ [][Next]_vars

-----------------------------------------------------------------------------
TypeOK ==
  /\ prog \in Kinds
  /\ array \in Seq(Seq(Elem))
  /\ hdr \in Seq([arr : 0..Len(array), off : Nat, len : Nat, cap : Nat])
  /\ var \in [Var -> 0..Len(hdr)]
  /\ iter \in 0..Len(hdr)
  /\ idx \in Nat
  /\ panicked \in BOOLEAN

\* What a header says can be reached from it is inside its array, whatever
\* slices were cut from it, grew or were grown under another name: an index
\* below the length, and an append below the capacity, stays in the block.
SlicesInArrays ==
  \A h \in 1..Len(hdr) :
    /\ hdr[h].len <= hdr[h].cap
    /\ hdr[h].off + hdr[h].cap <=
         (IF hdr[h].arr = 0 THEN 0 ELSE Len(array[hdr[h].arr]))

Elements(x) ==
  [i \in 1..Slice(x).len |-> array[Slice(x).arr][Slice(x).off + i]]

\* append yields the elements it was given, with the new one after them, and
\* changes no slice with another header, except past its length, where it has
\* an array in common with the one appended to.
AppendKeepsElements ==
  [][\A x, y \in Var, e \in Elem : SliceAppend(x, y, e) =>
       /\ Elements(x)' = Append(Elements(y), e)
       /\ \A z \in Var \ {x} : var[z] # var[y] =>
            \/ Elements(z)' = Elements(z)
            \/ /\ Slice(z).arr = Slice(y).arr
               /\ Slice(z).off + Slice(z).len > Slice(y).off + Slice(y).len]_vars

\* copy moves every element ("SliceCopy copies elements from src to dst",
\* runtime.go:359).
CopyMovesAll ==
  [][\A x, y \in Var : SliceCopy(x, y) =>
       \A i \in 1..ret' : Elements(x)'[i] = Elements(y)[i]]_vars

\* What programs that append through one holder of a header, and copy nothing
\* up, see; nothing happens in the others' view.
Blind == ~prog.own \/ prog.overlap

SeenArray == IF Blind THEN <<>> ELSE array
SeenSlice == [x \in Var |-> IF Blind THEN NoData ELSE Slice(x)]
SeenRet == IF Blind THEN 0 ELSE ret

\* Their loops, but for those of programs that append to the slice they range
\* over: a loop of theirs goes on through what they append (and reads the array
\* the slice grew into), where Go's has the elements it began with.
LoopBlind == Blind \/ prog.grows

SeenLoop == IF LoopBlind THEN NoData ELSE Window(iter)
SeenIdx == IF LoopBlind THEN 0 ELSE idx
SeenVal == IF LoopBlind THEN Zero ELSE val

Go == INSTANCE AbstractSlice WITH
        array <- SeenArray, slice <- SeenSlice, loop <- SeenLoop,
        idx <- SeenIdx, val <- SeenVal, ret <- SeenRet

\* Programs that append to a slice through the one variable that holds its
\* header, and copy nothing up into its own window, cannot tell the shared
\* headers from Go's slice values; nor can their range loops, unless they append
\* to the slice they range over.
ImplementsGo == Go!Spec
=============================================================================
