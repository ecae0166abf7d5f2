---------------------------- MODULE Instructions ----------------------------
(***************************************************************************)
(* The instructions of the intermediate code (std/compiler/ir.go) and the  *)
(* structured ones of wasm32, shared by the compiler that emits them and   *)
(* the machine that executes them.                                         *)
(*                                                                         *)
(* An instruction has an operation, an argument (a number, a slot, a label *)
(* or a count), a name, the width of its operands (1 for bytes), and the   *)
(* depth the compiler takes the operand stack to have there.  A word takes *)
(* W bytes, an element of a byte slice or of a string one.                 *)
(***************************************************************************)
EXTENDS Integers, Sequences, FiniteSets, SequencesExt, TLC

CONSTANT ByteMod  \* the values of a byte: 0..ByteMod-1

W == 2

Put(f, k, v) == (k :> v) @@ f

Inst(op, arg, name, width) == [op |-> op, arg |-> arg, name |-> name, width |-> width, depth |-> 0]
I0(op) == Inst(op, 0, "", 0)
I1(op, arg) == Inst(op, arg, "", 0)

ArithOf ==
  ("+" :> "ADD") @@ ("-" :> "SUB") @@ ("*" :> "MUL") @@ ("/" :> "DIV") @@ ("%" :> "MOD") @@
  ("&" :> "AND") @@ ("|" :> "OR") @@ ("^" :> "XOR") @@ ("<<" :> "SHL") @@ (">>" :> "SHR") @@
  ("==" :> "EQ") @@ ("!=" :> "NEQ") @@ ("<" :> "LT") @@ (">" :> "GT") @@
  ("<=" :> "LEQ") @@ (">=" :> "GEQ")
BinaryOps == {ArithOf[o] : o \in DOMAIN ArithOf}

\* The runtime's functions and how many results each has.
NoResult == {"runtime.Memzero", "runtime.MapDelete"}
OneResult == {"runtime.Alloc", "runtime.StringConcat", "runtime.StringEqual",
              "runtime.StringSlice", "runtime.ByteToString", "runtime.SliceMake",
              "runtime.SliceMakeCap", "runtime.SliceAppend", "runtime.SliceAppendSlice",
              "runtime.SliceCopy", "runtime.SliceReslice", "runtime.MapMake",
              "runtime.MapSet", "runtime.MapLen", "runtime.MapEntryKey",
              "runtime.MapEntryValue", "builtin.composite"}
RuntimeRets ==
  [n \in NoResult \cup OneResult \cup {"runtime.MapGet"} |->
     IF n \in NoResult THEN 0 ELSE IF n = "runtime.MapGet" THEN 2 ELSE 1]

\* What wasm32 has in place of labels and jumps.
Opening == {"BLOCK", "LOOP", "IF"}
Structural == Opening \cup {"ELSE", "END", "BR", "BR_IF", "UNREACHABLE", "TEMP_GET"}
=============================================================================
