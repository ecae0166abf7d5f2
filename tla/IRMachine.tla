----------------------------- MODULE IRMachine ------------------------------
(***************************************************************************)
(* The stack machine whose code the compiler emits (the opcodes of         *)
(* std/compiler/ir.go) with the meaning the interpreter of                 *)
(* std/compiler/backend_vm.go gives them (VM.execFunc): one operand stack  *)
(* shared by all functions, one frame of locals per call, one global, and  *)
(* memory that is only ever extended.                                      *)
(*                                                                         *)
(* No program is fixed: any instruction whose operands are present may     *)
(* come next, and any branch may be taken, so that a behaviour is a run of *)
(* some program.  Arithmetic is left open (Alu, Un): a target has to do    *)
(* the operation named, on the operands named, in the order named.         *)
(* Loads and stores are those of whole words.                              *)
(***************************************************************************)
EXTENDS IRCode

VARIABLES
  stk,     \* the operand stack, top last
  frames,  \* the active calls: function and locals, innermost last
  glob,    \* the global
  heap,    \* memory
  brk,     \* the last word of memory handed out
  halted   \* the program has ended or died

vars == <<stk, frames, glob, heap, brk, halted>>

-----------------------------------------------------------------------------
\* The stack as the instructions use it.
Has(k) == Len(stk) >= k
Room == Len(stk) < MaxDepth
Locals == frames[Len(frames)].loc

Push(v) == stk' = Append(stk, v)
Replace(k, v) == stk' = Append(Front(stk, k), v)

Init ==
  /\ stk = <<>>
  /\ frames = << [fn |-> Main, loc |-> [i \in Slots |-> 0]] >>
  /\ glob = 0
  /\ heap = [a \in Addr |-> 0]
  /\ brk = Low
  /\ halted = FALSE

-----------------------------------------------------------------------------
\* Constants and variables

Const(v) ==
  /\ Room
  /\ Push(v)
  /\ UNCHANGED <<frames, glob, heap, brk, halted>>

LocalGet(i) ==
  /\ Room
  /\ Push(Locals[i])
  /\ UNCHANGED <<frames, glob, heap, brk, halted>>

LocalSet(i) ==
  /\ Has(1)
  /\ frames' = [frames EXCEPT ![Len(frames)].loc[i] = Peek(stk, 0)]
  /\ stk' = Front(stk, 1)
  /\ UNCHANGED <<glob, heap, brk, halted>>

GlobalGet ==
  /\ Room
  /\ Push(glob)
  /\ UNCHANGED <<frames, glob, heap, brk, halted>>

GlobalSet ==
  /\ Has(1)
  /\ glob' = Peek(stk, 0)
  /\ stk' = Front(stk, 1)
  /\ UNCHANGED <<frames, heap, brk, halted>>

Drop ==
  /\ Has(1)
  /\ stk' = Front(stk, 1)
  /\ UNCHANGED <<frames, glob, heap, brk, halted>>

Dup ==
  /\ Has(1) /\ Room
  /\ Push(Peek(stk, 0))
  /\ UNCHANGED <<frames, glob, heap, brk, halted>>

BinOp(op) ==
  /\ Has(2)
  /\ Replace(2, Alu(op, Peek(stk, 1), Peek(stk, 0)))
  /\ UNCHANGED <<frames, glob, heap, brk, halted>>

UnOp(op) ==
  /\ Has(1)
  /\ Replace(1, Un(op, Peek(stk, 0)))
  /\ UNCHANGED <<frames, glob, heap, brk, halted>>

-----------------------------------------------------------------------------
\* Control.  LABEL and JMP change nothing but the place in the code; a
\* conditional jump takes its condition off the stack either way.

JmpIf ==
  /\ Has(1)
  /\ stk' = Front(stk, 1)
  /\ UNCHANGED <<frames, glob, heap, brk, halted>>

\* The frame of a call of f whose arguments are args; the slots that hold no
\* parameter may hold anything until the code sets them.
FrameOf(f, args, rest) ==
  [fn |-> f, loc |-> [i \in Slots |-> IF i < Len(args) THEN args[i+1] ELSE rest[i]]]

\* A call of f with the topmost arguments of stack s.
Enter(f, s) ==
  /\ Len(frames) < MaxFrames
  /\ Len(s) >= Arity[f]
  /\ \E rest \in [Slots -> Stale] :
       frames' = Append(frames, FrameOf(f, Topmost(s, Arity[f]), rest))
  /\ stk' = Front(s, Arity[f])

Call(f) ==
  /\ Enter(f, stk)
  /\ UNCHANGED <<glob, heap, brk, halted>>

\* The results are what the function leaves on the stack.
Return ==
  /\ IF Len(frames) = 1
     THEN halted' = TRUE /\ frames' = frames
     ELSE halted' = FALSE /\ frames' = Front(frames, 1)
  /\ UNCHANGED <<stk, glob, heap, brk>>

\* The interface value lies under its n arguments and points to a type id and
\* a value; the value becomes the receiver.
IfaceCall(n) ==
  LET box == Peek(stk, n)
      tid == heap[box]
      s == [stk EXCEPT ![Len(stk) - n] = heap[box + 1]]
  IN  /\ Has(n + 1)
      /\ box \in BoxAddr
      /\ tid \in DOMAIN Method
      /\ Arity[Method[tid]] = n + 1
      /\ Enter(Method[tid], s)
      /\ UNCHANGED <<glob, heap, brk, halted>>

\* The program dies: in PANIC, and in a dynamic call through nil or of a type
\* that has no such method.
Panic ==
  /\ Has(1)
  /\ stk' = Front(stk, 1)
  /\ halted' = TRUE
  /\ UNCHANGED <<frames, glob, heap, brk>>

\* (What a dead program leaves on its stack does not matter.)
IfaceCallFails(n) ==
  /\ Has(n + 1)
  /\ LET box == Peek(stk, n)
     IN  box = 0 \/ (box \in BoxAddr /\ heap[box] \notin DOMAIN Method)
  /\ stk' = Front(stk, n + 1)
  /\ halted' = TRUE
  /\ UNCHANGED <<frames, glob, heap, brk>>

-----------------------------------------------------------------------------
\* Memory.  Programs that reach outside it are left out, but for nil: loads from
\* there yield 0 (loadN), and what is stored there no load finds.

Load ==
  LET a == Peek(stk, 0)
  IN  /\ Has(1)
      /\ a \in Addr \cup {0}
      /\ Replace(1, IF a = 0 THEN 0 ELSE heap[a])
      /\ UNCHANGED <<frames, glob, heap, brk, halted>>

Store ==
  LET a == Peek(stk, 0)
  IN  /\ Has(2)
      /\ a \in Addr \cup {0}
      /\ heap' = IF a = 0 THEN heap ELSE [heap EXCEPT ![a] = Peek(stk, 1)]
      /\ stk' = Front(stk, 2)
      /\ UNCHANGED <<frames, glob, brk, halted>>

\* LEN and CAP: word k of the header, 0 for nil.
HeaderWord(k) ==
  LET a == Peek(stk, 0)
  IN  /\ Has(1)
      /\ a = 0 \/ (a \in Addr /\ a + k \in Addr)
      /\ Replace(1, IF a = 0 THEN 0 ELSE heap[a + k])
      /\ UNCHANGED <<frames, glob, heap, brk, halted>>

\* The address of element Peek(stk, 0) of the slice whose header is under it; a
\* nil slice has its elements at 0.
IndexAddr ==
  LET base == Peek(stk, 1)
  IN  /\ Has(2)
      /\ base \in Addr \cup {0}
      /\ Replace(2, Alu("INDEX", IF base = 0 THEN 0 ELSE heap[base], Peek(stk, 0)))
      /\ UNCHANGED <<frames, glob, heap, brk, halted>>

\* Memory after words ws were written to a fresh block.
Filled(ws) ==
  [a \in Addr |-> IF a \in brk+1..brk+Len(ws) THEN ws[a - brk] ELSE heap[a]]

Fresh(ws) ==
  /\ brk + Len(ws) <= Top
  /\ heap' = Filled(ws)
  /\ brk' = brk + Len(ws)

\* builtin.composite: the topmost n operands become the words of a block, the
\* deepest first.
Composite(n) ==
  /\ Has(n)
  /\ Fresh(Topmost(stk, n))
  /\ Replace(n, brk + 1)
  /\ UNCHANGED <<frames, glob, halted>>

IfaceBox(tid) ==
  /\ Has(1)
  /\ Fresh(<<tid, Peek(stk, 0)>>)
  /\ Replace(1, brk + 1)
  /\ UNCHANGED <<frames, glob, halted>>

-----------------------------------------------------------------------------
\* Intrinsics: the bodies of functions the compiler provides.  Their operands
\* are the parameters, in the slots of the frame.

\* ReadPtr, Sliceptr, Stringptr
ReadPtr ==
  /\ Room
  /\ Locals[0] \in Addr \cup {0}
  /\ Push(IF Locals[0] = 0 THEN 0 ELSE heap[Locals[0]])
  /\ UNCHANGED <<frames, glob, heap, brk, halted>>

WritePtr ==
  /\ NLocals >= 2
  /\ Locals[0] \in Addr \cup {0}
  /\ heap' = IF Locals[0] = 0 THEN heap ELSE [heap EXCEPT ![Locals[0]] = Locals[1]]
  /\ UNCHANGED <<stk, frames, glob, brk, halted>>

\* Makestring (pointer and length)
Makestring ==
  /\ NLocals >= 2
  /\ Room
  /\ Fresh(<<Locals[0], Locals[1]>>)
  /\ Push(brk + 1)
  /\ UNCHANGED <<frames, glob, halted>>

\* Makeslice (pointer, length, capacity; the element size is 1)
Makeslice ==
  /\ NLocals >= 3
  /\ Room
  /\ Fresh(<<Locals[0], Locals[1], Locals[2], 1>>)
  /\ Push(brk + 1)
  /\ UNCHANGED <<frames, glob, halted>>

\* Syscall: r1, r2 and the error number, one of the first and the last 0.
Syscall(r1, r2, err) ==
  /\ r1 = 0 \/ err = 0
  /\ Len(stk) + 2 < MaxDepth
  /\ stk' = Append(Append(Append(stk, r1), r2), err)
  /\ UNCHANGED <<frames, glob, heap, brk, halted>>

\* Tostring of what is no address: nothing for nil, else a number.
TostringSmall ==
  LET v == Locals[0]
  IN  /\ v <= Low
      /\ IF v = 0 THEN Push(0) /\ frames' = frames ELSE Enter(IntToString, Append(stk, v))

\* Of what points to memory: a string as it is; for a boxed value, the string of
\* an integer, the string itself, what Error or String returns, or nothing.
TostringAt ==
  LET v == Locals[0]
      tid == heap[v]
  IN  /\ v \in Addr
      /\ tid < TagLimit => v + 1 \in Addr
      /\ IF tid >= TagLimit
         THEN Push(v) /\ frames' = frames
         ELSE IF tid = 1
         THEN Enter(IntToString, Append(stk, heap[v + 1]))
         ELSE IF tid = 2
         THEN Push(heap[v + 1]) /\ frames' = frames
         ELSE IF tid \in DOMAIN Stringer
         THEN Enter(Stringer[tid], Append(stk, heap[v + 1]))
         ELSE Push(0) /\ frames' = frames

Tostring ==
  /\ Room
  /\ TostringSmall \/ TostringAt
  /\ UNCHANGED <<glob, heap, brk, halted>>

-----------------------------------------------------------------------------
Step ==
  \/ "CONST" \in Ops /\ \E v \in Consts : Const(v)
  \/ "LOCAL" \in Ops /\ \E i \in Slots : LocalGet(i) \/ LocalSet(i)
  \/ "GLOBAL" \in Ops /\ (GlobalGet \/ GlobalSet)
  \/ "DROP" \in Ops /\ Drop
  \/ "DUP" \in Ops /\ Dup
  \/ \E op \in BinOps \cap Ops : BinOp(op)
  \/ \E op \in UnOps \cap Ops : UnOp(op)
  \/ "JMP_IF" \in Ops /\ JmpIf
  \/ "CALL" \in Ops /\ \E f \in Funcs : Call(f)
  \/ "RETURN" \in Ops /\ Return
  \/ "IFACE_CALL" \in Ops /\ \E n \in ArgCounts : IfaceCall(n) \/ IfaceCallFails(n)
  \/ "PANIC" \in Ops /\ Panic
  \/ "LOAD" \in Ops /\ Load
  \/ "STORE" \in Ops /\ Store
  \/ "LEN" \in Ops /\ \E k \in 1..2 : HeaderWord(k)
  \/ "INDEX" \in Ops /\ IndexAddr
  \/ "COMPOSITE" \in Ops /\ \E n \in 1..2 : Composite(n)
  \/ "IFACE_BOX" \in Ops /\ \E t \in DOMAIN Method : IfaceBox(t)
  \/ "POINTER" \in Ops /\ (ReadPtr \/ WritePtr)
  \/ "HEADER" \in Ops /\ (Makestring \/ Makeslice)
  \/ "TOSTRING" \in Ops /\ Tostring
  \/ "SYSCALL" \in Ops /\ \E r1, r2, err \in Consts \cup {0} : Syscall(r1, r2, err)

Next == ~halted /\ Step

Spec == Init /\ [][Next]_vars
=============================================================================
