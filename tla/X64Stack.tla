------------------------------ MODULE X64Stack ------------------------------
(***************************************************************************)
(* The code std/compiler/backend_x64.go generates for the stack machine.   *)
(* The operand stack is in memory (at R15), except that its top may still  *)
(* be in a register: opPush of backend.go only notes the register at       *)
(* compile time (hasPending, pendingReg), and the push is emitted later,   *)
(* by flush, or never, when a pop follows.                                 *)
(*                                                                         *)
(* A step runs the instructions generated for one opcode.  What the        *)
(* generator knows travels with the machine state: pend is its note.  At   *)
(* the target of a jump and after a call the note is lost (Arrive): if the *)
(* code that comes there had not flushed, the operand would be lost too.   *)
(***************************************************************************)
EXTENDS IRCode

CONSTANTS
  DivOps,      \* the operators done by idiv
  ShiftOps,    \* those that need their count in CL
  Junk         \* what a register holds that the code must not rely on

Reg == {"RAX", "RCX", "RDX"}
None == "none"

ASSUME X64Assumption ==
  /\ Junk \notin Word
  /\ DivOps \subseteq BinOps
  /\ ShiftOps \subseteq BinOps \ DivOps

VARIABLES
  cpu,     \* mem: operand stack in memory, reg: registers,
           \* pend: register that holds the top, or None,
           \* saved: the machine stack, above the frames
  frames, glob, heap, brk, halted   \* as in IRMachine

vars == <<cpu, frames, glob, heap, brk, halted>>

Value == Word \cup {Junk}

Cpu == [mem : Seq(Word), reg : [Reg -> Value], pend : Reg \cup {None},
        saved : Seq(Word)]

Locals == frames[Len(frames)].loc

-----------------------------------------------------------------------------
\* The operand stack of backend.go

rawPush(m, r) == [m EXCEPT !.mem = Append(@, m.reg[r])]

rawPop(m, r) == [m EXCEPT !.mem = Front(@, 1), !.reg[r] = Peek(m.mem, 0)]

flush(m) == IF m.pend = None THEN m ELSE [rawPush(m, m.pend) EXCEPT !.pend = None]

opPush(m, r) == [flush(m) EXCEPT !.pend = r]

opPop(m, r) ==
  IF m.pend # None
  THEN [m EXCEPT !.reg[r] = m.reg[m.pend], !.pend = None]
  ELSE rawPop(m, r)

\* The top is copied, not taken.
opLoad(m, r) ==
  IF m.pend # None
  THEN flush([m EXCEPT !.reg[r] = m.reg[m.pend]])
  ELSE [m EXCEPT !.reg[r] = Peek(m.mem, 0)]

opDrop(m) ==
  IF m.pend # None THEN [m EXCEPT !.pend = None] ELSE [m EXCEPT !.mem = Front(@, 1)]

\* mov r, v
Set(m, r, v) == [m EXCEPT !.reg[r] = v]
pushR(m, r) == [m EXCEPT !.saved = Append(@, m.reg[r])]
popR(m, r) == [m EXCEPT !.reg[r] = Peek(m.saved, 0), !.saved = Front(@, 1)]

\* Mistake: a conditional jump leaves the push to whichever code comes next.
MutjccRel32(m) == m

\* A conditional jump flushes before it (jccRel32), so both ways agree.
jccRel32(m) == flush(m)

\* Where the generator starts without a pending register.
Arrive(m) == [m EXCEPT !.pend = None]

\* The operands in order, the pending one last.
View(m) == IF m.pend = None THEN m.mem ELSE Append(m.mem, m.reg[m.pend])
Depth == Len(View(cpu))
Room == Depth < MaxDepth

Init ==
  /\ cpu = [mem |-> <<>>, reg |-> [r \in Reg |-> Junk], pend |-> None, saved |-> <<>>]
  /\ frames = << [fn |-> Main, loc |-> [i \in Slots |-> 0]] >>
  /\ glob = 0
  /\ heap = [a \in Addr |-> 0]
  /\ brk = Low
  /\ halted = FALSE

-----------------------------------------------------------------------------
\* Constants and variables

constI64(m, v) == opPush(Set(flush(m), "RAX", v), "RAX")

compileConst(v) ==
  /\ Room
  /\ cpu' = constI64(cpu, v)
  /\ UNCHANGED <<frames, glob, heap, brk, halted>>

compileLocalGet(i) ==
  /\ Room
  /\ cpu' = opPush(Set(flush(cpu), "RAX", Locals[i]), "RAX")
  /\ UNCHANGED <<frames, glob, heap, brk, halted>>

compileLocalSet(i) ==
  /\ Depth >= 1
  /\ LET m == opPop(cpu, "RAX")
     IN  /\ cpu' = m
         /\ frames' = [frames EXCEPT ![Len(frames)].loc[i] = m.reg["RAX"]]
  /\ UNCHANGED <<glob, heap, brk, halted>>

\* Mistake: the register of the address is pushed.
MutcompileGlobalGet ==
  /\ Room
  /\ cpu' = opPush(Set(Set(flush(cpu), "RCX", Junk), "RAX", glob), "RCX")
  /\ UNCHANGED <<frames, glob, heap, brk, halted>>

\* RCX holds the address of the global.
compileGlobalGet ==
  /\ Room
  /\ cpu' = opPush(Set(Set(flush(cpu), "RCX", Junk), "RAX", glob), "RAX")
  /\ UNCHANGED <<frames, glob, heap, brk, halted>>

compileGlobalSet ==
  /\ Depth >= 1
  /\ LET m == Set(opPop(cpu, "RAX"), "RCX", Junk)
     IN  /\ cpu' = m
         /\ glob' = m.reg["RAX"]
  /\ UNCHANGED <<frames, heap, brk, halted>>

compileDrop ==
  /\ Depth >= 1
  /\ cpu' = opDrop(cpu)
  /\ UNCHANGED <<frames, glob, heap, brk, halted>>

compileDup ==
  /\ Depth >= 1 /\ Room
  /\ cpu' = opPush(opLoad(cpu, "RAX"), "RAX")
  /\ UNCHANGED <<frames, glob, heap, brk, halted>>

-----------------------------------------------------------------------------
\* Operators: RAX gets the operand on top, RCX the one below.

\* ADD, SUB, MUL, AND, OR, XOR: op rcx, rax.  A comparison sets CL from the
\* flags of cmp rcx, rax.
Direct(m, op) == Set(m, "RCX", Alu(op, m.reg["RCX"], m.reg["RAX"]))

\* DIV, MOD: the divisor has to leave RAX, and RDX gets the remainder; the
\* result is moved to RCX.
Divide(m, op) ==
  LET m1 == Set(m, "RDX", m.reg["RAX"])
      m2 == Set(m1, "RAX", m1.reg["RCX"])
      m3 == Set(m2, "RCX", m2.reg["RDX"])
      res == Alu(op, m3.reg["RAX"], m3.reg["RCX"])
  IN  Set(Set(Set(m3, "RAX", Junk), "RDX", Junk), "RCX", res)

\* SHL, SHR: the count has to be in CL.
Shift(m, op) ==
  LET m1 == Set(m, "RDX", m.reg["RCX"])
      m2 == Set(m1, "RCX", m1.reg["RAX"])
      m3 == Set(m2, "RDX", Alu(op, m2.reg["RDX"], m2.reg["RCX"]))
  IN  Set(m3, "RCX", m3.reg["RDX"])

Operate(m, op) ==
  IF op \in DivOps THEN Divide(m, op)
  ELSE IF op \in ShiftOps THEN Shift(m, op)
  ELSE Direct(m, op)

PopOperands(m) == opPop(opPop(m, "RAX"), "RCX")

\* compileBinOp, compileCompare
compileBinOp(op) ==
  /\ Depth >= 2
  /\ cpu' = opPush(Operate(PopOperands(cpu), op), "RCX")
  /\ UNCHANGED <<frames, glob, heap, brk, halted>>

\* NEG, NOT, compileOffset, compileConvert
compileUnOp(op) ==
  /\ Depth >= 1
  /\ LET m == opPop(cpu, "RAX")
     IN  cpu' = opPush(Set(m, "RAX", Un(op, m.reg["RAX"])), "RAX")
  /\ UNCHANGED <<frames, glob, heap, brk, halted>>

-----------------------------------------------------------------------------
\* Control

compileLabel ==
  /\ cpu' = flush(cpu)
  /\ UNCHANGED <<frames, glob, heap, brk, halted>>

compileJmp ==
  /\ cpu' = Arrive(flush(cpu))
  /\ UNCHANGED <<frames, glob, heap, brk, halted>>

\* JMP_IF and JMP_IF_NOT, jumping and falling through.
compileJmpIf ==
  /\ Depth >= 1
  /\ LET m == jccRel32(opPop(cpu, "RAX"))
     IN  \/ cpu' = Arrive(m)
         \/ cpu' = m
  /\ UNCHANGED <<frames, glob, heap, brk, halted>>

\* Mistake: a call that leaves its last argument in a register.
Mutcallsite(m) == m

\* emitCallPlaceholder: a call flushes before it.
callsite(m) == flush(m)

\* compileFunc: the code of f begins without a pending register and pops its
\* parameters, the last one first, into its slots.
Enter(f, m) ==
  LET n == Arity[f]
      args == Topmost(m.mem, n)
  IN  /\ Len(frames) < MaxFrames
      /\ Len(m.mem) >= n
      /\ \E rest \in [Slots -> Stale] :
           frames' = Append(frames,
             [fn |-> f,
              loc |-> [i \in Slots |-> IF i < n THEN args[i+1] ELSE rest[i]]])
      /\ cpu' = [m EXCEPT !.mem = Front(@, n), !.pend = None,
                          !.reg["RAX"] = IF n = 0 THEN @ ELSE args[1]]

compileCall(f) ==
  /\ Enter(f, callsite(cpu))
  /\ UNCHANGED <<glob, heap, brk, halted>>

compileReturn ==
  /\ cpu' = Arrive(flush(cpu))
  /\ IF Len(frames) = 1
     THEN halted' = TRUE /\ frames' = frames
     ELSE halted' = FALSE /\ frames' = Front(frames, 1)
  /\ UNCHANGED <<glob, heap, brk>>

\* The operand on top goes to the machine stack, n times; and back.
SaveArg(m) == pushR(opPop(m, "RAX"), "RAX")
SaveArgs(m, n) ==
  IF n = 0 THEN m ELSE IF n = 1 THEN SaveArg(m) ELSE SaveArg(SaveArg(m))

\* Mistake: the argument is read and stays on the machine stack.
MutRestoreArg(m) == LET f == flush(m) IN opPush(Set(f, "RAX", Peek(f.saved, 0)), "RAX")

RestoreArg(m) == opPush(popR(flush(m), "RAX"), "RAX")

RestoreArgs(m, n) ==
  IF n = 0 THEN m ELSE IF n = 1 THEN RestoreArg(m) ELSE RestoreArg(RestoreArg(m))

\* The chain of tests "is RCX this type id": the first test flushes, and the
\* call is emitted once per type.  If a register were still pending at the
\* first test, the flush would be part of the first call only.
Dispatch(m, first) ==
  LET j == jccRel32(m)
  IN  IF j.reg["RCX"] = first THEN callsite(j) ELSE Arrive(j)

\* The receiver and the arguments of a dynamic call, before the dispatch.
IfaceArgs(m, n) ==
  LET m1 == opPop(SaveArgs(m, n), "RAX")
      m2 == Set(m1, "RCX", heap[m1.reg["RAX"]])
      m3 == Set(m2, "RDX", heap[m2.reg["RAX"] + 1])
      m4 == RestoreArgs(opPush(m3, "RDX"), n)
  IN  popR(pushR(m4, "RCX"), "RCX")

compileIfaceCall(n) ==
  LET box == opPop(SaveArgs(cpu, n), "RAX").reg["RAX"]
      m == IfaceArgs(cpu, n)
      tid == m.reg["RCX"]
  IN  /\ Depth >= n + 1
      /\ box \in BoxAddr
      /\ tid \in DOMAIN Method
      /\ Arity[Method[tid]] = n + 1
      /\ \E first \in DOMAIN Method : Enter(Method[tid], Dispatch(m, first))
      /\ UNCHANGED <<glob, heap, brk, halted>>

\* The load of the type id faults at nil, and int3 ends the chain.
compileIfaceCallFails(n) ==
  LET m == opPop(SaveArgs(cpu, n), "RAX")
      box == m.reg["RAX"]
  IN  /\ Depth >= n + 1
      /\ box = 0 \/ (box \in BoxAddr /\ heap[box] \notin DOMAIN Method)
      /\ cpu' = m
      /\ halted' = TRUE
      /\ UNCHANGED <<frames, glob, heap, brk>>

compilePanic ==
  /\ Depth >= 1
  /\ cpu' = opPop(cpu, "RAX")
  /\ halted' = TRUE
  /\ UNCHANGED <<frames, glob, heap, brk>>

-----------------------------------------------------------------------------
\* Memory

\* The null test keeps a load from nil from faulting.
compileLoad ==
  LET m == opPop(cpu, "RCX")
      a == m.reg["RCX"]
  IN  /\ Depth >= 1
      /\ a \in Addr \cup {0}
      /\ cpu' = opPush(Set(m, "RAX", IF a = 0 THEN 0 ELSE heap[a]), "RAX")
      /\ UNCHANGED <<frames, glob, heap, brk, halted>>

compileStore ==
  LET m == opPop(opPop(cpu, "RCX"), "RAX")
      a == m.reg["RCX"]
  IN  /\ Depth >= 2
      /\ a \in Addr
      /\ cpu' = m
      /\ heap' = [heap EXCEPT ![a] = m.reg["RAX"]]
      /\ UNCHANGED <<frames, glob, brk, halted>>

\* compileLen (k = 1), compileCap (k = 2)
compileHeaderWord(k) ==
  LET m == opPop(cpu, "RAX")
      a == m.reg["RAX"]
  IN  /\ Depth >= 1
      /\ a = 0 \/ (a \in Addr /\ a + k \in Addr)
      /\ cpu' = opPush(Set(m, "RAX", IF a = 0 THEN 0 ELSE heap[a + k]), "RAX")
      /\ UNCHANGED <<frames, glob, heap, brk, halted>>

\* Mistake: the scaled index is pushed.
MutcompileIndexAddr ==
  LET m == PopOperands(cpu)
  IN  /\ Depth >= 2
      /\ m.reg["RCX"] \in Addr
      /\ cpu' = opPush(Set(m, "RAX", Junk), "RAX")
      /\ UNCHANGED <<frames, glob, heap, brk, halted>>

compileIndexAddr ==
  LET m == PopOperands(cpu)
      m1 == Set(m, "RCX", heap[m.reg["RCX"]])
  IN  /\ Depth >= 2
      /\ m.reg["RCX"] \in Addr
      /\ cpu' = opPush(Set(Set(m1, "RAX", Junk), "RCX",
                           Alu("INDEX", m1.reg["RCX"], m1.reg["RAX"])), "RCX")
      /\ UNCHANGED <<frames, glob, heap, brk, halted>>

\* push n; call runtime.Alloc; pop rcx.  Alloc may leave anything in the
\* registers.
AllocTo(m, size) ==
  LET m1 == callsite(constI64(m, size))
      m2 == [m1 EXCEPT !.mem = Append(Front(@, 1), brk + 1),
                       !.reg = [r \in Reg |-> Junk],
                       !.pend = None]
  IN  opPop(m2, "RCX")

\* The words of block p after ws were stored there.
Stored(p, ws) ==
  [a \in Addr |-> IF a \in p..p+Len(ws)-1 THEN ws[a - p + 1] ELSE heap[a]]

\* Mistake: the fields are stored as they come off the operand stack.
MutReversed(s) == s

Reversed(s) == [i \in 1..Len(s) |-> s[Len(s) + 1 - i]]

\* The fields wait on the machine stack while Alloc runs; popping them gives
\* the first one first.
compileCompositeLitCall(n) ==
  LET m == AllocTo(SaveArgs(cpu, n), n)
      fields == Reversed(m.saved)
  IN  /\ Depth >= n
      /\ brk + n <= Top
      /\ heap' = Stored(m.reg["RCX"], fields)
      /\ brk' = brk + n
      /\ cpu' = opPush([Set(m, "RAX", Peek(fields, 0)) EXCEPT !.saved = <<>>], "RCX")
      /\ UNCHANGED <<frames, glob, halted>>

compileIfaceBox(tid) ==
  LET m == AllocTo(SaveArg(cpu), 2)
      m1 == popR(m, "RAX")
  IN  /\ Depth >= 1
      /\ brk + 2 <= Top
      /\ heap' = Stored(m1.reg["RCX"], <<tid, m1.reg["RAX"]>>)
      /\ brk' = brk + 2
      /\ cpu' = opPush(m1, "RCX")
      /\ UNCHANGED <<frames, glob, halted>>

-----------------------------------------------------------------------------
\* Intrinsics (compileCallIntrinsic flushes first)

\* compileReadPtrIntrinsic, and Sliceptr and Stringptr alike
compileReadPtr ==
  LET m == Set(flush(cpu), "RAX", Locals[0])
      a == m.reg["RAX"]
  IN  /\ Room
      /\ a \in Addr
      /\ cpu' = opPush(Set(m, "RAX", heap[a]), "RAX")
      /\ UNCHANGED <<frames, glob, heap, brk, halted>>

compileWritePtr ==
  LET m == Set(Set(flush(cpu), "RAX", Locals[0]), "RCX", Locals[1])
  IN  /\ NLocals >= 2
      /\ Locals[0] \in Addr
      /\ cpu' = m
      /\ heap' = [heap EXCEPT ![m.reg["RAX"]] = m.reg["RCX"]]
      /\ UNCHANGED <<frames, glob, brk, halted>>

\* A header of the given words, the last of them left in RAX.
Header(ws) ==
  LET m == AllocTo(flush(cpu), Len(ws))
  IN  /\ Room
      /\ brk + Len(ws) <= Top
      /\ heap' = Stored(m.reg["RCX"], ws)
      /\ brk' = brk + Len(ws)
      /\ cpu' = opPush(Set(m, "RAX", Peek(ws, 0)), "RCX")
      /\ UNCHANGED <<frames, glob, halted>>

compileMakestring ==
  NLocals >= 2 /\ Header(<<Locals[0], Locals[1]>>)

compileMakeslice ==
  NLocals >= 3 /\ Header(<<Locals[0], Locals[1], Locals[2], 1>>)

\* compileSyscallIntrinsic: the kernel returns a negative RAX on error; RDX is
\* the second result and is saved in RCX before it gets the error.
compileSyscall(neg, ret, rdx) ==
  LET m == [flush(cpu) EXCEPT !.reg = [r \in Reg |->
              IF r = "RAX" THEN (IF neg THEN Junk ELSE ret)
              ELSE IF r = "RDX" THEN rdx ELSE Junk]]
      m1 == Set(m, "RCX", m.reg["RDX"])
      m2 == IF neg THEN Set(Set(m1, "RDX", ret), "RAX", 0) ELSE Set(m1, "RDX", 0)
  IN  /\ Depth + 2 < MaxDepth
      /\ cpu' = opPush(opPush(opPush(m2, "RAX"), "RCX"), "RDX")
      /\ UNCHANGED <<frames, glob, heap, brk, halted>>

\* Mistake: the value stays under the empty string.
MutNoString(m) == Arrive(flush(constI64(m, 0)))

\* A type without Error or String: the empty string in place of the value.
NoString(m) == Arrive(flush(constI64(opDrop(m), 0)))

\* compileTostringIntrinsic.  The first word of the value tells a box from a
\* string.  The paths of the box meet the path of the string at the end.
TostringBox ==
  LET a == Locals[0]
      m1 == Set(Set(flush(cpu), "RAX", a), "RCX", heap[a])
      m2 == opPush(Set(m1, "RDX", heap[a + 1]), "RDX")
      m3 == jccRel32(popR(pushR(m2, "RCX"), "RCX"))
      tid == m3.reg["RCX"]
  IN  /\ a + 1 \in Addr
      /\ heap[a] < TagLimit
      /\ \/ tid = 1 /\ Enter(IntToString, callsite(m3))
         \/ tid = 2 /\ cpu' = Arrive(m3) /\ frames' = frames
         \/ tid \in DOMAIN Stringer /\ Enter(Stringer[tid], callsite(m3))
         \/ /\ tid \notin {1, 2} \cup DOMAIN Stringer
            /\ cpu' = NoString(m3)
            /\ frames' = frames

TostringString ==
  LET m == Set(Set(flush(cpu), "RAX", Locals[0]), "RCX", heap[Locals[0]])
  IN  /\ m.reg["RCX"] >= TagLimit
      /\ cpu' = flush(opPush(Set(m, "RAX", Locals[0]), "RAX"))
      /\ frames' = frames

compileTostring ==
  /\ Room
  /\ Locals[0] \in Addr
  /\ TostringBox \/ TostringString
  /\ UNCHANGED <<glob, heap, brk, halted>>

-----------------------------------------------------------------------------
\* Nil and small numbers.  Only loads, lengths and capacities test for nil; what
\* else goes through it is killed by a signal, Tostring through any number.

Killed == halted' = TRUE /\ UNCHANGED <<cpu, frames, glob, heap, brk>>

compileStoreFaults ==
  /\ Depth >= 2
  /\ opPop(cpu, "RCX").reg["RCX"] = 0
  /\ Killed

compileIndexAddrFaults ==
  /\ Depth >= 2
  /\ PopOperands(cpu).reg["RCX"] = 0
  /\ Killed

compileReadPtrFaults ==
  /\ Room
  /\ Locals[0] = 0
  /\ Killed

compileWritePtrFaults ==
  /\ NLocals >= 2
  /\ Locals[0] = 0
  /\ Killed

compileTostringFaults ==
  /\ Room
  /\ Locals[0] <= Low
  /\ Killed

Faults ==
  \/ "STORE" \in Ops /\ compileStoreFaults
  \/ "INDEX" \in Ops /\ compileIndexAddrFaults
  \/ "POINTER" \in Ops /\ (compileReadPtrFaults \/ compileWritePtrFaults)
  \/ "TOSTRING" \in Ops /\ compileTostringFaults

-----------------------------------------------------------------------------
\* compileInst
compileInst ==
  \/ Faults
  \/ "CONST" \in Ops /\ \E v \in Consts : compileConst(v)
  \/ "LOCAL" \in Ops /\ \E i \in Slots : compileLocalGet(i) \/ compileLocalSet(i)
  \/ "GLOBAL" \in Ops /\ (compileGlobalGet \/ compileGlobalSet)
  \/ "DROP" \in Ops /\ compileDrop
  \/ "DUP" \in Ops /\ compileDup
  \/ \E op \in BinOps \cap Ops : compileBinOp(op)
  \/ \E op \in UnOps \cap Ops : compileUnOp(op)
  \/ compileLabel
  \/ compileJmp
  \/ "JMP_IF" \in Ops /\ compileJmpIf
  \/ "CALL" \in Ops /\ \E f \in Funcs : compileCall(f)
  \/ "RETURN" \in Ops /\ compileReturn
  \/ "IFACE_CALL" \in Ops
     /\ \E n \in ArgCounts : compileIfaceCall(n) \/ compileIfaceCallFails(n)
  \/ "PANIC" \in Ops /\ compilePanic
  \/ "LOAD" \in Ops /\ compileLoad
  \/ "STORE" \in Ops /\ compileStore
  \/ "LEN" \in Ops /\ \E k \in 1..2 : compileHeaderWord(k)
  \/ "INDEX" \in Ops /\ compileIndexAddr
  \/ "COMPOSITE" \in Ops /\ \E n \in 1..2 : compileCompositeLitCall(n)
  \/ "IFACE_BOX" \in Ops /\ \E t \in DOMAIN Method : compileIfaceBox(t)
  \/ "POINTER" \in Ops /\ (compileReadPtr \/ compileWritePtr)
  \/ "HEADER" \in Ops /\ (compileMakestring \/ compileMakeslice)
  \/ "TOSTRING" \in Ops /\ compileTostring
  \/ "SYSCALL" \in Ops
     /\ \E neg \in BOOLEAN, ret, rdx \in Consts : compileSyscall(neg, ret, rdx)

Next == ~halted /\ compileInst

Spec == Init /\ [][Next]_vars

-----------------------------------------------------------------------------
TypeOK ==
  /\ cpu \in Cpu
  /\ frames \in Seq(Frame) /\ frames # <<>>
  /\ glob \in Word
  /\ heap \in [Addr -> Word]
  /\ brk \in Low..Top
  /\ halted \in BOOLEAN

\* The register that stands for the top of the stack holds an operand, and not
\* what an address, a scaled index or a call left there: no instruction between
\* the push and its flush spoils it.  (That it is the right operand is part of
\* ImplementsIR.)
PendingIsOperand == cpu.pend # None => cpu.reg[cpu.pend] \in Word

\* Between opcodes of a live program nothing is on the machine stack: what an
\* instruction saves there around a call it takes off, on every way through the
\* branches of a dispatch.  A return would hide a rest (it sets the stack pointer
\* from the frame pointer), but the next pop of a saved field or argument would
\* take it, and a loop would use the stack up.
MachineStackBalanced == ~halted => cpu.saved = <<>>

IR == INSTANCE IRMachine WITH stk <- View(cpu)

\* The generated code does what the interpreter's stack machine does, opcode by
\* opcode: pushes that stay in registers, and pushes that never happen, do not
\* show.  It parts from the interpreter only where it is killed for going through
\* nil, or through a number given to Tostring; the interpreter goes on there.
ImplementsIR == IR!Init /\ [][IR!Next \/ (~halted /\ Faults)]_(IR!vars)
=============================================================================
