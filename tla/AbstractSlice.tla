---------------------------- MODULE AbstractSlice ----------------------------
(***************************************************************************)
(* Slices as Go programs see them: a slice is a value, a window of an      *)
(* array with room to grow; assignment copies the window and not the       *)
(* array, append yields a new window and leaves the one it was given, copy *)
(* moves elements as if all were read before any is written, and a range   *)
(* loop runs over the window it began with.                                *)
(***************************************************************************)
EXTENDS Integers, Sequences

CONSTANTS
  Var,     \* the slice variables of the program
  Elem,    \* the elements
  Zero,    \* the zero value of the element type
  MaxCap   \* bound: the capacity of an array

VARIABLES
  array,   \* the arrays made so far
  slice,   \* slice[x]: the window x holds
  loop,    \* the window a range loop runs over, or Nil
  idx,     \* iterations of the loop so far
  val,     \* the loop variable
  ret      \* what the last copy returned

vars == <<array, slice, loop, idx, val, ret>>

Nil == [arr |-> 0, off |-> 0, len |-> 0, cap |-> 0]

Elements(s) == [i \in 1..s.len |-> array[s.arr][s.off + i]]

\* Array a from place p on overwritten with ws.
Written(a, p, ws) ==
  [i \in DOMAIN a |-> IF i \in p+1..p+Len(ws) THEN ws[i - p] ELSE a[i]]

Fresh(c) == [i \in 1..c |-> Zero]

Init ==
  /\ array = <<>>
  /\ slice = [x \in Var |-> Nil]
  /\ loop = Nil
  /\ idx = 0
  /\ val = Zero
  /\ ret = 0

\* x = make([]T, n, c)
Make(x, n, c) ==
  /\ IF c = 0
     THEN /\ array' = array
          /\ slice' = [slice EXCEPT ![x] = Nil]
     ELSE /\ array' = Append(array, Fresh(c))
          /\ slice' = [slice EXCEPT ![x] =
               [arr |-> Len(array) + 1, off |-> 0, len |-> n, cap |-> c]]
  /\ UNCHANGED <<loop, idx, val, ret>>

Assign(x, y) ==
  /\ slice' = [slice EXCEPT ![x] = slice[y]]
  /\ UNCHANGED <<array, loop, idx, val, ret>>

\* x = append(y, ws...): in place while the window has room, else in a new
\* array of any capacity that is enough.
AppendTo(x, y, ws) ==
  LET s == slice[y]
      n == s.len + Len(ws)
  IN  /\ \/ /\ n <= s.cap
            /\ array' = [array EXCEPT ![s.arr] = Written(@, s.off + s.len, ws)]
            /\ slice' = [slice EXCEPT ![x] = [s EXCEPT !.len = n]]
         \/ /\ n > s.cap
            /\ \E c \in n..MaxCap :
                 /\ array' = Append(array, Written(Fresh(c), 0, Elements(s) \o ws))
                 /\ slice' = [slice EXCEPT ![x] =
                      [arr |-> Len(array) + 1, off |-> 0, len |-> n, cap |-> c]]
      /\ UNCHANGED <<loop, idx, val, ret>>

\* ret = copy(x, y)
Copy(x, y) ==
  LET s == slice[x]
      n == IF slice[y].len < s.len THEN slice[y].len ELSE s.len
  IN  /\ array' = IF n = 0 THEN array
                  ELSE [array EXCEPT ![s.arr] =
                         Written(@, s.off, SubSeq(Elements(slice[y]), 1, n))]
      /\ ret' = n
      /\ UNCHANGED <<slice, loop, idx, val>>

\* x = y[low:high]
Reslice(x, y, low, high) ==
  LET s == slice[y]
  IN  /\ low <= high /\ high <= s.cap
      /\ slice' = [slice EXCEPT ![x] =
           IF s = Nil THEN Nil
           ELSE [arr |-> s.arr, off |-> s.off + low,
                 len |-> high - low, cap |-> s.cap - low]]
      /\ UNCHANGED <<array, loop, idx, val, ret>>

Set(x, i, e) ==
  /\ i \in 1..slice[x].len
  /\ array' = [array EXCEPT ![slice[x].arr][slice[x].off + i] = e]
  /\ UNCHANGED <<slice, loop, idx, val, ret>>

RangeStart(x) ==
  /\ loop' = slice[x]
  /\ idx' = 0
  /\ UNCHANGED <<array, slice, val, ret>>

RangeNext ==
  /\ idx < loop.len
  /\ idx' = idx + 1
  /\ val' = Elements(loop)[idx + 1]
  /\ UNCHANGED <<array, slice, loop, ret>>

RangeEnd ==
  /\ idx = loop.len
  /\ loop' = Nil
  /\ idx' = 0
  /\ val' = Zero
  /\ UNCHANGED <<array, slice, ret>>

Next ==
  \/ \E x \in Var, c \in 0..MaxCap : \E n \in 0..c : Make(x, n, c)
  \/ \E x, y \in Var :
       \/ Assign(x, y)
       \/ Copy(x, y)
       \/ \E e \in Elem : AppendTo(x, y, <<e>>)
       \/ \E z \in Var : slice[z].len > 0 /\ AppendTo(x, y, Elements(slice[z]))
       \/ \E low, high \in 0..MaxCap : Reslice(x, y, low, high)
  \/ \E x \in Var :
       \/ \E i \in 1..MaxCap, e \in Elem : Set(x, i, e)
       \/ RangeStart(x)
  \/ RangeNext
  \/ RangeEnd

Spec == Init /\ [][Next]_vars
=============================================================================
