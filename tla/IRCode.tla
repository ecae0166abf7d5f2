------------------------------- MODULE IRCode -------------------------------
(***************************************************************************)
(* What the programs in the compiler's intermediate code (opcodes of       *)
(* std/compiler/ir.go) are made of: words, operators, functions, methods.  *)
(* Shared by the stack machine that gives the opcodes their meaning        *)
(* (IRMachine) and by the targets that implement it.                       *)
(***************************************************************************)
EXTENDS Integers, Sequences

CONSTANTS
  MaxWord,      \* words are 0..MaxWord
  Consts,       \* the words programs mention
  BinOps,       \* binary operators: arithmetic, bits, shifts, comparisons
  UnOps,        \* unary operators: NEG, NOT, OFFSET, CONVERT
  Alu(_, _, _), \* Alu(op, c, a): c is below a on the stack
  Un(_, _),
  NLocals,      \* slots of a frame
  Stale,        \* bound: what a slot may hold before the code sets it
  Funcs,        \* functions
  Arity,        \* Arity[f]: the parameters of f
  Main,         \* the function the program starts in
  Method,       \* Method[t]: the method of type t, for the interface method
                \* programs call
  IntToString,  \* runtime.IntToString
  Stringer,     \* Stringer[t]: Error or String of type t, where it has one
  TagLimit,     \* a first word below this is taken for a type id (256)
  Low,          \* words up to this are no addresses (4095)
  MemSize,      \* words of memory
  MaxDepth,     \* bound: operands on the stack
  MaxFrames,    \* bound: frames
  Ops           \* bound: the opcodes programs use

Word == 0..MaxWord
Top == Low + MemSize
Addr == Low+1..Top
BoxAddr == Low+1..Top-1  \* of two words
Slots == 0..NLocals-1
ArgCounts == 0..2

ASSUME IRAssumption ==
  /\ MaxWord \in Nat /\ Low \in Nat /\ MemSize \in Nat /\ Top <= MaxWord
  /\ MaxWord >= 2
  /\ Consts \subseteq Word
  /\ \A op \in BinOps \cup {"INDEX"}, c, a \in Word : Alu(op, c, a) \in Word
  /\ \A op \in UnOps, a \in Word : Un(op, a) \in Word
  /\ NLocals \in Nat \ {0}
  /\ Arity \in [Funcs -> 0..3]
  /\ \A f \in Funcs : Arity[f] <= NLocals
  /\ Stale \subseteq Word
  /\ Main \in Funcs /\ IntToString \in Funcs
  /\ Arity[IntToString] = 1
  /\ DOMAIN Method \subseteq Word
  /\ \A t \in DOMAIN Method : Method[t] \in Funcs
  /\ DOMAIN Stringer \subseteq Word \ {1, 2}
  /\ \A t \in DOMAIN Stringer : Stringer[t] \in Funcs /\ Arity[Stringer[t]] = 1
  /\ TagLimit \in Nat
  /\ MaxDepth \in Nat /\ MaxFrames \in Nat

\* The frame of a call: its function and its locals.
Frame == [fn : Funcs, loc : [Slots -> Word]]

\* Sequences used as stacks, the top last.
Peek(s, k) == s[Len(s) - k]
Front(s, k) == SubSeq(s, 1, Len(s) - k)
Topmost(s, n) == SubSeq(s, Len(s) - n + 1, Len(s))
=============================================================================
