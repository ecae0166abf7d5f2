--------------------------- MODULE X64StackProofs ---------------------------
(***************************************************************************)
(* Proofs about X64Stack: whatever the operators, functions, methods and   *)
(* bounds, the generated code keeps every operand, and implements the      *)
(* stack machine.                                                          *)
(***************************************************************************)
EXTENDS X64Stack, SequenceTheorems, TLAPS

-----------------------------------------------------------------------------
\* Stacks as sequences

LEMMA FrontFacts ==
  ASSUME NEW S, NEW s \in Seq(S), NEW k \in Nat, k <= Len(s)
  PROVE  /\ Front(s, k) \in Seq(S)
         /\ Len(Front(s, k)) = Len(s) - k
         /\ \A i \in 1..Len(s)-k : Front(s, k)[i] = s[i]
<1>1. Len(s) \in Nat /\ \A i \in 1..Len(s)-k : s[i] \in S
  OBVIOUS
<1>. DEFINE n == Len(s) - k
<1>2. n \in Int /\ n >= 0 /\ 1 \in Int /\ \A i \in 1..n : s[i] \in S
  BY <1>1
<1>3. Front(s, k) = SubSeq(s, 1, n)
  BY DEF Front
<1>4. n = Len(s) - k
  OBVIOUS
<1>. HIDE DEF n
<1>5. /\ SubSeq(s, 1, n) \in Seq(S)
      /\ Len(SubSeq(s, 1, n)) = IF 1 <= n THEN n-1+1 ELSE 0
      /\ \A i \in 1..n-1+1 : SubSeq(s, 1, n)[i] = s[1+i-1]
  BY <1>2, SubSeqProperties
<1>6. n-1+1 = n /\ (~(1 <= n) => n = 0)
  BY <1>2
<1>7. \A i \in 1..n : 1+i-1 = i
  BY <1>2
<1>. QED BY <1>3, <1>4, <1>5, <1>6, <1>7

LEMMA FrontPeek ==
  ASSUME NEW S, NEW s \in Seq(S), s # <<>>
  PROVE  /\ Front(s, 1) \in Seq(S)
         /\ Len(Front(s, 1)) = Len(s) - 1
         /\ Peek(s, 0) \in S
         /\ Len(s) \in Nat \ {0}
         /\ \A i \in 1..Len(s)-1 : Front(s, 1)[i] = s[i]
<1>1. Len(s) \in Nat \ {0}
  <2>1. Len(s) \in Nat
    BY LenProperties
  <2>2. CASE Len(s) = 0
    <3>1. <<>> \in Seq(S) /\ Len(<<>>) = 0
      OBVIOUS
    <3>2. s = <<>>
      BY <2>2, <3>1, SeqEqual
    <3>. QED BY <3>2
  <2>. QED BY <2>1, <2>2
<1>2. Peek(s, 0) \in S
  BY <1>1 DEF Peek
<1>. QED BY <1>1, <1>2, FrontFacts

\* Taking one more operand off.
LEMMA FrontNext ==
  ASSUME NEW S, NEW s \in Seq(S), NEW k \in Nat, k < Len(s)
  PROVE  /\ Front(s, k) \in Seq(S) /\ Front(s, k) # <<>>
         /\ Front(s, k + 1) \in Seq(S)
         /\ Front(Front(s, k), 1) = Front(s, k + 1)
         /\ Peek(Front(s, k), 0) = Peek(s, k)
         /\ Peek(s, k) \in S
<1>. DEFINE t == Front(s, k)  u == Front(s, k + 1)
<1>1. Len(s) \in Nat
  OBVIOUS
<1>2. /\ t \in Seq(S) /\ Len(t) = Len(s) - k
      /\ \A i \in 1..Len(s)-k : t[i] = s[i]
  BY <1>1, FrontFacts
<1>3. /\ u \in Seq(S) /\ Len(u) = Len(s) - (k + 1)
      /\ \A i \in 1..Len(s)-(k+1) : u[i] = s[i]
  <2>1. k + 1 \in Nat /\ k + 1 <= Len(s)
    BY <1>1
  <2>. QED BY <2>1, FrontFacts
<1>. HIDE DEF t, u
<1>4. t # <<>>
  BY <1>1, <1>2
<1>5. Peek(t, 0) = Peek(s, k) /\ Peek(s, k) \in S
  BY <1>1, <1>2 DEF Peek
<1>6. Front(t, 1) = u
  <2>1. /\ Front(t, 1) \in Seq(S) /\ Len(Front(t, 1)) = Len(t) - 1
        /\ \A i \in 1..Len(t)-1 : Front(t, 1)[i] = t[i]
    BY <1>2, <1>4, FrontPeek
  <2>2. Len(Front(t, 1)) = Len(u)
    BY <1>1, <1>2, <1>3, <2>1
  <2>3. \A i \in 1..Len(u) : Front(t, 1)[i] = u[i]
    BY <1>1, <1>2, <1>3, <2>1
  <2>. QED BY <1>3, <2>1, <2>2, <2>3, SeqEqual
<1>. QED BY <1>2, <1>3, <1>4, <1>5, <1>6 DEF t, u

LEMMA FrontTwice ==
  ASSUME NEW S, NEW s \in Seq(S), Len(s) >= 2
  PROVE  /\ s # <<>> /\ Front(s, 1) # <<>>
         /\ Front(s, 1) \in Seq(S) /\ Front(s, 2) \in Seq(S)
         /\ Front(Front(s, 1), 1) = Front(s, 2)
         /\ Peek(Front(s, 1), 0) = Peek(s, 1)
         /\ Peek(s, 0) \in S /\ Peek(s, 1) \in S
<1>1. Len(s) \in Nat /\ s # <<>> /\ 1 < Len(s) /\ 1 + 1 = 2
  OBVIOUS
<1>. QED BY <1>1, FrontNext, FrontPeek

LEMMA TopmostFacts ==
  ASSUME NEW S, NEW s \in Seq(S), NEW k \in Nat, k <= Len(s)
  PROVE  /\ Topmost(s, k) \in Seq(S)
         /\ Len(Topmost(s, k)) = k
         /\ \A i \in 1..k : Topmost(s, k)[i] = s[Len(s) - k + i]
         /\ \A i \in 1..k : Topmost(s, k)[i] \in S
<1>. DEFINE a == Len(s) - k + 1  n == Len(s)
<1>1. n \in Nat /\ a \in Int /\ a >= 1 /\ n - a + 1 = k /\ (~(a <= n) => k = 0)
  OBVIOUS
<1>2. \A i \in a..n : s[i] \in S
  OBVIOUS
<1>3. \A i \in 1..k : a + i - 1 = Len(s) - k + i /\ Len(s) - k + i \in 1..Len(s)
  OBVIOUS
<1>4. \A i \in 1..k : s[Len(s) - k + i] \in S
  BY <1>3
<1>5. Topmost(s, k) = SubSeq(s, a, n)
  BY DEF Topmost
<1>. HIDE DEF a, n
<1>6. /\ SubSeq(s, a, n) \in Seq(S)
      /\ Len(SubSeq(s, a, n)) = IF a <= n THEN n-a+1 ELSE 0
      /\ \A i \in 1..n-a+1 : SubSeq(s, a, n)[i] = s[a+i-1]
  <2>1. n \in Int
    BY <1>1
  <2>. QED BY <1>1, <1>2, <2>1, SubSeqProperties
<1>. QED BY <1>1, <1>3, <1>4, <1>5, <1>6

LEMMA AppendFacts ==
  ASSUME NEW S, NEW s \in Seq(S), NEW v \in S
  PROVE  /\ Append(s, v) \in Seq(S)
         /\ Append(s, v) # <<>>
         /\ Len(Append(s, v)) = Len(s) + 1
         /\ Peek(Append(s, v), 0) = v
         /\ Front(Append(s, v), 1) = s
BY DEF Front, Peek

-----------------------------------------------------------------------------
\* The operand stack of backend.go: what each operation does to the operands
\* in view, to the registers and to the machine stack.

Good(m) == m \in Cpu /\ (m.pend # None => m.reg[m.pend] \in Word)

LEMMA NoneIsNoRegister == None \notin Reg
BY DEF None, Reg

LEMMA ViewType ==
  ASSUME NEW m, Good(m)
  PROVE  View(m) \in Seq(Word) /\ Len(View(m)) \in Nat
<1>1. CASE m.pend = None
  BY <1>1 DEF Good, Cpu, View
<1>2. CASE m.pend # None
  BY <1>2 DEF Good, Cpu, View
<1>. QED BY <1>1, <1>2

LEMMA FlushKeeps ==
  ASSUME NEW m, Good(m)
  PROVE  /\ Good(flush(m))
         /\ flush(m).pend = None
         /\ flush(m).mem = View(m)
         /\ View(flush(m)) = View(m)
         /\ flush(m).reg = m.reg
         /\ flush(m).saved = m.saved
<1>1. CASE m.pend = None
  BY <1>1 DEF Good, Cpu, View, flush
<1>2. CASE m.pend # None
  <2>1. m.mem \in Seq(Word) /\ m.reg[m.pend] \in Word
    BY <1>2 DEF Good, Cpu
  <2>2. Append(m.mem, m.reg[m.pend]) \in Seq(Word)
    BY <2>1
  <2>3. flush(m) = [m EXCEPT !.mem = Append(m.mem, m.reg[m.pend]), !.pend = None]
    BY <1>2 DEF flush, rawPush, Good, Cpu
  <2>. QED BY <1>2, <2>2, <2>3 DEF Good, Cpu, View
<1>. QED BY <1>1, <1>2

LEMMA PushAppends ==
  ASSUME NEW m, Good(m), NEW r \in Reg, m.reg[r] \in Word
  PROVE  /\ Good(opPush(m, r))
         /\ View(opPush(m, r)) = Append(View(m), m.reg[r])
         /\ opPush(m, r).reg = m.reg
         /\ opPush(m, r).saved = m.saved
<1>. DEFINE f == flush(m)
<1>1. /\ f \in Cpu /\ f.mem = View(m) /\ f.reg = m.reg /\ f.saved = m.saved
  BY FlushKeeps DEF Good
<1>2. opPush(m, r) = [f EXCEPT !.pend = r]
  BY DEF opPush
<1>. HIDE DEF f
<1>3. r # None
  BY NoneIsNoRegister
<1>. QED BY <1>1, <1>2, <1>3 DEF Good, Cpu, View

LEMMA PopTakesLast ==
  ASSUME NEW m, Good(m), View(m) # <<>>, NEW r \in Reg
  PROVE  /\ Good(opPop(m, r))
         /\ opPop(m, r).pend = None
         /\ opPop(m, r).mem = Front(View(m), 1)
         /\ View(opPop(m, r)) = Front(View(m), 1)
         /\ opPop(m, r).reg = [m.reg EXCEPT ![r] = Peek(View(m), 0)]
         /\ opPop(m, r).saved = m.saved
<1>1. CASE m.pend = None
  <2>1. View(m) = m.mem /\ m.mem \in Seq(Word) /\ m.mem # <<>>
    BY <1>1 DEF Good, Cpu, View
  <2>2. Front(m.mem, 1) \in Seq(Word) /\ Peek(m.mem, 0) \in Word
    BY <2>1, FrontPeek
  <2>3. opPop(m, r) = [m EXCEPT !.mem = Front(m.mem, 1),
                                !.reg = [m.reg EXCEPT ![r] = Peek(m.mem, 0)]]
    BY <1>1 DEF opPop, rawPop, Good, Cpu
  <2>. QED BY <1>1, <2>1, <2>2, <2>3 DEF Good, Cpu, View, Value
<1>2. CASE m.pend # None
  <2>1. View(m) = Append(m.mem, m.reg[m.pend]) /\ m.mem \in Seq(Word)
        /\ m.reg[m.pend] \in Word
    BY <1>2 DEF Good, Cpu, View
  <2>2. Front(View(m), 1) = m.mem /\ Peek(View(m), 0) = m.reg[m.pend]
    BY <2>1, AppendFacts
  <2>3. opPop(m, r) = [m EXCEPT !.reg = [m.reg EXCEPT ![r] = m.reg[m.pend]],
                                !.pend = None]
    BY <1>2 DEF opPop, Good, Cpu
  <2>. QED BY <1>2, <2>1, <2>2, <2>3 DEF Good, Cpu, View, Value
<1>. QED BY <1>1, <1>2

LEMMA SetKeeps ==
  ASSUME NEW m, Good(m), m.pend = None, NEW r \in Reg, NEW v \in Value
  PROVE  /\ Good(Set(m, r, v))
         /\ Set(m, r, v).pend = None
         /\ Set(m, r, v).mem = m.mem
         /\ View(Set(m, r, v)) = View(m)
         /\ Set(m, r, v).reg = [m.reg EXCEPT ![r] = v]
         /\ Set(m, r, v).saved = m.saved
BY DEF Good, Cpu, Set, View

LEMMA LoadCopies ==
  ASSUME NEW m, Good(m), View(m) # <<>>, NEW r \in Reg
  PROVE  /\ Good(opLoad(m, r))
         /\ View(opLoad(m, r)) = View(m)
         /\ opLoad(m, r).reg[r] = Peek(View(m), 0)
         /\ opLoad(m, r).saved = m.saved
<1>1. CASE m.pend = None
  <2>1. View(m) = m.mem /\ m.mem \in Seq(Word) /\ m.mem # <<>>
    BY <1>1 DEF Good, Cpu, View
  <2>2. Peek(m.mem, 0) \in Word
    BY <2>1, FrontPeek
  <2>. QED BY <1>1, <2>1, <2>2 DEF Good, Cpu, View, Value, opLoad
<1>2. CASE m.pend # None
  <2>. DEFINE n == [m EXCEPT !.reg[r] = m.reg[m.pend]]
  <2>1. View(m) = Append(m.mem, m.reg[m.pend]) /\ m.mem \in Seq(Word)
        /\ m.reg[m.pend] \in Word
    BY <1>2 DEF Good, Cpu, View
  <2>2. Peek(View(m), 0) = m.reg[m.pend]
    BY <2>1, AppendFacts
  <2>3. /\ Good(n) /\ n.mem = m.mem /\ n.reg[n.pend] = m.reg[m.pend]
        /\ n.pend = m.pend /\ n.reg[r] = m.reg[m.pend] /\ n.saved = m.saved
    BY <1>2, <2>1 DEF Good, Cpu, Value
  <2>4. View(n) = View(m)
    BY <1>2, <2>1, <2>3 DEF View
  <2>5. opLoad(m, r) = flush(n)
    BY <1>2 DEF opLoad
  <2>. HIDE DEF n
  <2>. QED BY <2>2, <2>3, <2>4, <2>5, FlushKeeps
<1>. QED BY <1>1, <1>2

LEMMA DropTakes ==
  ASSUME NEW m, Good(m), View(m) # <<>>
  PROVE  /\ Good(opDrop(m))
         /\ View(opDrop(m)) = Front(View(m), 1)
         /\ opDrop(m).saved = m.saved
         /\ opDrop(m).pend = None
<1>1. CASE m.pend = None
  <2>1. View(m) = m.mem /\ m.mem \in Seq(Word) /\ m.mem # <<>>
    BY <1>1 DEF Good, Cpu, View
  <2>2. Front(m.mem, 1) \in Seq(Word)
    BY <2>1, FrontPeek
  <2>. QED BY <1>1, <2>1, <2>2 DEF Good, Cpu, View, opDrop
<1>2. CASE m.pend # None
  <2>1. View(m) = Append(m.mem, m.reg[m.pend]) /\ m.mem \in Seq(Word)
        /\ m.reg[m.pend] \in Word
    BY <1>2 DEF Good, Cpu, View
  <2>2. Front(View(m), 1) = m.mem
    BY <2>1, AppendFacts
  <2>. QED BY <1>2, <2>1, <2>2 DEF Good, Cpu, View, opDrop
<1>. QED BY <1>1, <1>2

-----------------------------------------------------------------------------
\* The inductive invariant: what a register pending at the end of an opcode
\* holds, and the machine stack, are part of it.

Inv == TypeOK /\ PendingIsOperand /\ MachineStackBalanced

LEMMA InvGood ==
  ASSUME Inv
  PROVE  /\ Good(cpu) /\ View(cpu) \in Seq(Word) /\ Depth \in Nat
         /\ (Depth >= 1 => View(cpu) # <<>>)
         /\ (~halted => cpu.saved = <<>>)
<1>1. Good(cpu)
  BY DEF Inv, TypeOK, PendingIsOperand, Good
<1>2. View(cpu) \in Seq(Word) /\ Depth \in Nat
  BY <1>1, ViewType DEF Depth
<1>. QED BY <1>1, <1>2 DEF Depth, Inv, MachineStackBalanced

\* A step that leaves everything but the processor alone.
LEMMA CpuStep ==
  ASSUME Inv, Good(cpu'), cpu'.saved = <<>>,
         UNCHANGED <<frames, glob, heap, brk, halted>>
  PROVE  Inv'
BY DEF Inv, TypeOK, PendingIsOperand, MachineStackBalanced, Good

LEMMA LocalsType ==
  ASSUME Inv
  PROVE  Locals \in [Slots -> Word] /\ Len(frames) \in Nat \ {0}
<1>1. frames \in Seq(Frame) /\ frames # <<>>
  BY DEF Inv, TypeOK
<1>2. Len(frames) \in Nat \ {0}
  BY <1>1, FrontPeek
<1>3. frames[Len(frames)] \in Frame
  BY <1>1, <1>2
<1>. QED BY <1>2, <1>3 DEF Locals, Frame

-----------------------------------------------------------------------------
\* Constants and variables

\* A result computed into a register and pushed.
LEMMA SetPush ==
  ASSUME NEW m, Good(m), m.pend = None, NEW r \in Reg, NEW v \in Word
  PROVE  /\ Good(opPush(Set(m, r, v), r))
         /\ View(opPush(Set(m, r, v), r)) = Append(View(m), v)
         /\ opPush(Set(m, r, v), r).saved = m.saved
<1>. DEFINE s == Set(m, r, v)
<1>1. v \in Value
  BY DEF Value
<1>2. Good(s) /\ View(s) = View(m) /\ s.reg = [m.reg EXCEPT ![r] = v]
      /\ s.saved = m.saved
  BY <1>1, SetKeeps
<1>. HIDE DEF s
<1>3. s.reg[r] = v
  BY <1>2 DEF Good, Cpu
<1>4. s.reg[r] \in Word
  BY <1>3
<1>5. /\ Good(opPush(s, r)) /\ opPush(s, r).saved = s.saved
      /\ View(opPush(s, r)) = Append(View(s), s.reg[r])
  BY <1>2, <1>4, PushAppends
<1>6. /\ Good(opPush(s, r)) /\ opPush(s, r).saved = m.saved
      /\ View(opPush(s, r)) = Append(View(m), v)
  BY <1>2, <1>3, <1>5
<1>. QED BY <1>6 DEF s

LEMMA Registers == "RAX" \in Reg /\ "RCX" \in Reg /\ "RDX" \in Reg
BY DEF Reg

LEMMA ConstI64Appends ==
  ASSUME NEW m, Good(m), NEW v \in Word
  PROVE  /\ Good(constI64(m, v))
         /\ View(constI64(m, v)) = Append(View(m), v)
         /\ constI64(m, v).saved = m.saved
<1>1. Good(flush(m)) /\ flush(m).pend = None /\ View(flush(m)) = View(m)
      /\ flush(m).saved = m.saved
  BY FlushKeeps
<1>. QED BY <1>1, SetPush, Registers DEF constI64

LEMMA StepConst ==
  ASSUME Inv, ~halted, NEW v \in Consts, compileConst(v)
  PROVE  Inv' /\ IR!Const(v)
<1>1. v \in Word
  BY IRAssumption
<1>2. Good(cpu') /\ View(cpu') = Append(View(cpu), v) /\ cpu'.saved = <<>>
  BY <1>1, InvGood, ConstI64Appends DEF compileConst
<1>3. Inv'
  BY <1>2, CpuStep DEF compileConst
<1>4. IR!Const(v)
  BY <1>2 DEF compileConst, IR!Const, IR!Room, Room, Depth, IR!Push
<1>. QED BY <1>3, <1>4

LEMMA StepLocalGet ==
  ASSUME Inv, ~halted, NEW i \in Slots, compileLocalGet(i)
  PROVE  Inv' /\ IR!LocalGet(i)
<1>1. Locals[i] \in Word
  BY LocalsType
<1>2. cpu' = constI64(cpu, Locals[i])
  BY DEF compileLocalGet, constI64
<1>3. Good(cpu') /\ View(cpu') = Append(View(cpu), Locals[i]) /\ cpu'.saved = <<>>
  BY <1>1, <1>2, InvGood, ConstI64Appends
<1>4. Inv'
  BY <1>3, CpuStep DEF compileLocalGet
<1>5. IR!LocalGet(i)
  BY <1>3 DEF compileLocalGet, IR!LocalGet, IR!Room, Room, Depth, IR!Push, IR!Locals, Locals
<1>. QED BY <1>4, <1>5

\* What a pop does when there is an operand.
LEMMA PopCpu ==
  ASSUME Inv, ~halted, Depth >= 1, NEW r \in Reg
  PROVE  LET m == opPop(cpu, r)
         IN  /\ Good(m) /\ m.pend = None /\ View(m) = Front(View(cpu), 1)
             /\ m.reg[r] = Peek(View(cpu), 0) /\ m.reg[r] \in Word
             /\ m.saved = <<>>
<1>. DEFINE m == opPop(cpu, r)
<1>1. Good(cpu) /\ View(cpu) \in Seq(Word) /\ View(cpu) # <<>> /\ cpu.saved = <<>>
  BY InvGood
<1>2. /\ Good(m) /\ m.pend = None /\ View(m) = Front(View(cpu), 1)
      /\ m.reg = [cpu.reg EXCEPT ![r] = Peek(View(cpu), 0)] /\ m.saved = <<>>
  BY <1>1, PopTakesLast
<1>3. Peek(View(cpu), 0) \in Word
  BY <1>1, FrontPeek
<1>. HIDE DEF m
<1>4. m.reg[r] = Peek(View(cpu), 0)
  BY <1>1, <1>2 DEF Good, Cpu
<1>5. /\ Good(m) /\ m.pend = None /\ View(m) = Front(View(cpu), 1)
      /\ m.reg[r] = Peek(View(cpu), 0) /\ m.reg[r] \in Word
      /\ m.saved = <<>>
  BY <1>2, <1>3, <1>4
<1>. QED BY <1>5 DEF m

LEMMA StepLocalSet ==
  ASSUME Inv, ~halted, NEW i \in Slots, compileLocalSet(i)
  PROVE  Inv' /\ IR!LocalSet(i)
<1>. DEFINE m == opPop(cpu, "RAX")
<1>1. /\ Good(m) /\ m.pend = None /\ View(m) = Front(View(cpu), 1)
      /\ m.reg["RAX"] = Peek(View(cpu), 0) /\ m.reg["RAX"] \in Word
      /\ m.saved = <<>>
  BY PopCpu, Registers DEF compileLocalSet
<1>2. cpu' = m /\ frames' = [frames EXCEPT ![Len(frames)].loc[i] = m.reg["RAX"]]
      /\ UNCHANGED <<glob, heap, brk, halted>> /\ Depth >= 1
  BY DEF compileLocalSet
<1>. HIDE DEF m
<1>3. frames' \in Seq(Frame) /\ frames' # <<>>
  <2>1. frames \in Seq(Frame) /\ Len(frames) \in Nat \ {0}
    BY LocalsType DEF Inv, TypeOK
  <2>2. [frames[Len(frames)] EXCEPT !.loc[i] = m.reg["RAX"]] \in Frame
    <3>1. frames[Len(frames)] \in Frame
      BY <2>1
    <3>2. m.reg["RAX"] \in Word
      BY <1>1
    <3>. QED BY <3>1, <3>2 DEF Frame
  <2>3. Len(frames') = Len(frames)
    BY <1>2, <2>1
  <2>. QED BY <1>2, <2>1, <2>2, <2>3
<1>4. Inv'
  BY <1>1, <1>2, <1>3 DEF Inv, TypeOK, PendingIsOperand, MachineStackBalanced, Good
<1>5. IR!LocalSet(i)
  BY <1>1, <1>2 DEF IR!LocalSet, IR!Front, IR!Peek, Front, Peek, IR!Has, Depth
<1>. QED BY <1>4, <1>5

LEMMA StepGlobalGet ==
  ASSUME Inv, ~halted, compileGlobalGet
  PROVE  Inv' /\ IR!GlobalGet
<1>. DEFINE f == flush(cpu)  m == Set(f, "RCX", Junk)
<1>1. Good(cpu) /\ cpu.saved = <<>> /\ glob \in Word /\ Junk \in Value
  BY InvGood DEF Inv, TypeOK, Value
<1>2. Good(f) /\ f.pend = None /\ View(f) = View(cpu) /\ f.saved = <<>>
  BY <1>1, FlushKeeps
<1>. HIDE DEF f
<1>3. Good(m) /\ m.pend = None /\ View(m) = View(cpu) /\ m.saved = <<>>
  <2>1. Junk \in Value
    BY DEF Value
  <2>2. Good(m) /\ View(m) = View(f) /\ m.saved = f.saved
    BY <1>2, <2>1, SetKeeps, Registers
  <2>3. m.pend = None
    BY <1>2 DEF Set, Good, Cpu
  <2>. QED BY <1>2, <2>2, <2>3
<1>4. cpu' = opPush(Set(m, "RAX", glob), "RAX") /\ Room
      /\ UNCHANGED <<frames, glob, heap, brk, halted>>
  BY DEF compileGlobalGet, f
<1>. HIDE DEF m
<1>5. Good(cpu') /\ View(cpu') = Append(View(cpu), glob) /\ cpu'.saved = <<>>
  BY <1>1, <1>3, <1>4, SetPush, Registers
<1>6. Inv'
  BY <1>4, <1>5, CpuStep
<1>7. IR!GlobalGet
  BY <1>4, <1>5 DEF IR!GlobalGet, IR!Room, Room, Depth, IR!Push
<1>. QED BY <1>6, <1>7

LEMMA StepGlobalSet ==
  ASSUME Inv, ~halted, compileGlobalSet
  PROVE  Inv' /\ IR!GlobalSet
<1>. DEFINE p == opPop(cpu, "RAX")  m == Set(p, "RCX", Junk)
<1>1. /\ Good(p) /\ p.pend = None /\ View(p) = Front(View(cpu), 1)
      /\ p.reg["RAX"] = Peek(View(cpu), 0) /\ p.reg["RAX"] \in Word
      /\ p.saved = <<>>
  BY PopCpu, Registers DEF compileGlobalSet
<1>2. cpu' = m /\ glob' = m.reg["RAX"] /\ Depth >= 1
      /\ UNCHANGED <<frames, heap, brk, halted>>
  BY DEF compileGlobalSet
<1>. HIDE DEF p
<1>3. /\ Good(m) /\ View(m) = View(p) /\ m.saved = <<>>
      /\ m.reg = [p.reg EXCEPT !["RCX"] = Junk]
  <2>1. Junk \in Value
    BY DEF Value
  <2>. QED BY <1>1, <2>1, SetKeeps, Registers
<1>. HIDE DEF m
<1>4. m.reg["RAX"] = p.reg["RAX"]
  BY <1>1, <1>3 DEF Good, Cpu
<1>5. glob' \in Word
  BY <1>1, <1>2, <1>4
<1>6. Inv'
  BY <1>2, <1>3, <1>5 DEF Inv, TypeOK, PendingIsOperand, MachineStackBalanced, Good
<1>7. IR!GlobalSet
  BY <1>1, <1>2, <1>3, <1>4 DEF IR!GlobalSet, IR!Front, IR!Peek, Front, Peek, IR!Has, Depth
<1>. QED BY <1>6, <1>7

LEMMA StepDrop ==
  ASSUME Inv, ~halted, compileDrop
  PROVE  Inv' /\ IR!Drop
<1>1. Good(cpu) /\ View(cpu) # <<>> /\ cpu.saved = <<>>
  BY InvGood DEF compileDrop
<1>2. Good(cpu') /\ View(cpu') = Front(View(cpu), 1) /\ cpu'.saved = <<>>
  BY <1>1, DropTakes DEF compileDrop
<1>3. Inv'
  BY <1>2, CpuStep DEF compileDrop
<1>4. IR!Drop
  BY <1>2 DEF IR!Drop, IR!Front, IR!Peek, Front, Peek, IR!Has, Depth, compileDrop
<1>. QED BY <1>3, <1>4

LEMMA StepDup ==
  ASSUME Inv, ~halted, compileDup
  PROVE  Inv' /\ IR!Dup
<1>. DEFINE m == opLoad(cpu, "RAX")
<1>1. Good(cpu) /\ View(cpu) # <<>> /\ View(cpu) \in Seq(Word) /\ cpu.saved = <<>>
  BY InvGood DEF compileDup
<1>2. Good(m) /\ View(m) = View(cpu) /\ m.saved = <<>>
      /\ m.reg["RAX"] = Peek(View(cpu), 0)
  BY <1>1, LoadCopies, Registers
<1>3. Peek(View(cpu), 0) \in Word
  BY <1>1, FrontPeek
<1>4. cpu' = opPush(m, "RAX") /\ UNCHANGED <<frames, glob, heap, brk, halted>>
      /\ Depth >= 1 /\ Room
  BY DEF compileDup
<1>. HIDE DEF m
<1>5. m.reg["RAX"] \in Word
  BY <1>2, <1>3
<1>6. /\ Good(cpu') /\ View(cpu') = Append(View(cpu), Peek(View(cpu), 0))
      /\ cpu'.saved = <<>>
  BY <1>2, <1>4, <1>5, PushAppends, Registers
<1>7. Inv'
  BY <1>4, <1>6, CpuStep
<1>8. IR!Dup
  BY <1>4, <1>6 DEF IR!Dup, IR!Front, IR!Peek, Front, Peek, IR!Has, IR!Room, Room, Depth, IR!Push
<1>. QED BY <1>7, <1>8

-----------------------------------------------------------------------------
\* Operators

LEMMA PopTwo ==
  ASSUME Inv, ~halted, Depth >= 2, NEW r \in Reg, NEW q \in Reg, r # q
  PROVE  LET m == opPop(opPop(cpu, r), q)
         IN  /\ Good(m) /\ m.pend = None /\ View(m) = Front(View(cpu), 2)
             /\ m.reg[r] = Peek(View(cpu), 0) /\ m.reg[r] \in Word
             /\ m.reg[q] = Peek(View(cpu), 1) /\ m.reg[q] \in Word
             /\ m.saved = <<>>
<1>. DEFINE p == opPop(cpu, r)  m == opPop(p, q)  v == View(cpu)
<1>1. /\ Good(p) /\ View(p) = Front(v, 1) /\ p.reg[r] = Peek(v, 0)
      /\ p.reg[r] \in Word /\ p.saved = <<>>
  <2>1. Depth >= 1
    BY InvGood
  <2>. QED BY <2>1, PopCpu
<1>2. v \in Seq(Word) /\ Len(v) >= 2
  BY InvGood DEF Depth
<1>. HIDE DEF p, v
<1>3. /\ View(p) # <<>> /\ Front(View(p), 1) = Front(v, 2)
      /\ Peek(View(p), 0) = Peek(v, 1) /\ Peek(v, 1) \in Word
  BY <1>1, <1>2, FrontTwice
<1>4. /\ Good(m) /\ m.pend = None /\ View(m) = Front(View(p), 1)
      /\ m.reg = [p.reg EXCEPT ![q] = Peek(View(p), 0)] /\ m.saved = p.saved
  BY <1>1, <1>3, PopTakesLast
<1>. HIDE DEF m
<1>5. m.reg[r] = p.reg[r] /\ m.reg[q] = Peek(View(p), 0)
  BY <1>1, <1>4 DEF Good, Cpu
<1>6. /\ Good(m) /\ m.pend = None /\ View(m) = Front(v, 2)
      /\ m.reg[r] = Peek(v, 0) /\ m.reg[r] \in Word
      /\ m.reg[q] = Peek(v, 1) /\ m.reg[q] \in Word
      /\ m.saved = <<>>
  BY <1>1, <1>3, <1>4, <1>5
<1>. QED BY <1>6 DEF m, p, v

\* The registers after one is set.
LEMMA SetReg ==
  ASSUME NEW m, Good(m), m.pend = None, NEW r \in Reg, NEW v \in Value
  PROVE  /\ Good(Set(m, r, v)) /\ View(Set(m, r, v)) = View(m)
         /\ Set(m, r, v).pend = None /\ Set(m, r, v).saved = m.saved
         /\ Set(m, r, v).reg = [m.reg EXCEPT ![r] = v]
<1>1. Set(m, r, v).pend = None
  BY DEF Set, Good, Cpu
<1>2. /\ Good(Set(m, r, v)) /\ View(Set(m, r, v)) = View(m)
      /\ Set(m, r, v).reg = [m.reg EXCEPT ![r] = v] /\ Set(m, r, v).saved = m.saved
  BY SetKeeps
<1>. QED BY <1>1, <1>2

LEMMA OperateComputes ==
  ASSUME NEW m, Good(m), m.pend = None, m.reg["RAX"] \in Word, m.reg["RCX"] \in Word,
         NEW op \in BinOps
  PROVE  /\ Good(Operate(m, op)) /\ View(Operate(m, op)) = View(m)
         /\ Operate(m, op).saved = m.saved
         /\ Operate(m, op).reg["RCX"] = Alu(op, m.reg["RCX"], m.reg["RAX"])
         /\ Alu(op, m.reg["RCX"], m.reg["RAX"]) \in Word
<1>. DEFINE a == m.reg["RAX"]  c == m.reg["RCX"]
<1>1. a \in Value /\ c \in Value /\ Junk \in Value
  BY DEF Value
<1>2. Alu(op, c, a) \in Word /\ Alu(op, c, a) \in Value
  BY IRAssumption DEF Value
<1>3. CASE op \in DivOps
  <2>. DEFINE m1 == Set(m, "RDX", a)
              m2 == Set(m1, "RAX", c)
              m3 == Set(m2, "RCX", a)
              m4 == Set(m3, "RAX", Junk)
              m5 == Set(m4, "RDX", Junk)
              m6 == Set(m5, "RCX", Alu(op, c, a))
  <2>1. /\ Good(m1) /\ View(m1) = View(m) /\ m1.pend = None /\ m1.saved = m.saved
        /\ m1.reg = [m.reg EXCEPT !["RDX"] = a]
    BY <1>1, <1>2, SetReg, Registers, SMTT(30)
  <2>. HIDE DEF m1
  <2>2. /\ Good(m2) /\ View(m2) = View(m) /\ m2.pend = None /\ m2.saved = m.saved
        /\ m2.reg = [m1.reg EXCEPT !["RAX"] = c]
    BY <1>1, <1>2, <2>1, SetReg, Registers, SMTT(30)
  <2>. HIDE DEF m2
  <2>3. /\ Good(m3) /\ View(m3) = View(m) /\ m3.pend = None /\ m3.saved = m.saved
        /\ m3.reg = [m2.reg EXCEPT !["RCX"] = a]
    BY <1>1, <1>2, <2>2, SetReg, Registers, SMTT(30)
  <2>. HIDE DEF m3
  <2>4. /\ Good(m4) /\ View(m4) = View(m) /\ m4.pend = None /\ m4.saved = m.saved
        /\ m4.reg = [m3.reg EXCEPT !["RAX"] = Junk]
    BY <1>1, <1>2, <2>3, SetReg, Registers, SMTT(30)
  <2>. HIDE DEF m4
  <2>5. /\ Good(m5) /\ View(m5) = View(m) /\ m5.pend = None /\ m5.saved = m.saved
        /\ m5.reg = [m4.reg EXCEPT !["RDX"] = Junk]
    BY <1>1, <1>2, <2>4, SetReg, Registers, SMTT(30)
  <2>. HIDE DEF m5
  <2>6. /\ Good(m6) /\ View(m6) = View(m) /\ m6.pend = None /\ m6.saved = m.saved
        /\ m6.reg = [m5.reg EXCEPT !["RCX"] = Alu(op, c, a)]
    BY <1>1, <1>2, <2>5, SetReg, Registers, SMTT(30)
  <2>. HIDE DEF m6
  <2>7. /\ m1.reg["RCX"] = c /\ m2.reg["RDX"] = a
        /\ m3.reg["RAX"] = c /\ m3.reg["RCX"] = a
        /\ m6.reg["RCX"] = Alu(op, c, a)
    BY <2>1, <2>2, <2>3, <2>6 DEF Good, Cpu, Reg
  <2>8. Operate(m, op) = m6
    BY <1>3, <2>7 DEF Operate, Divide, m1, m2, m3, m4, m5, m6
  <2>. QED BY <1>2, <2>6, <2>7, <2>8
<1>4. CASE op \notin DivOps /\ op \in ShiftOps
  <2>. DEFINE m1 == Set(m, "RDX", c)
              m2 == Set(m1, "RCX", a)
              m3 == Set(m2, "RDX", Alu(op, c, a))
              m4 == Set(m3, "RCX", Alu(op, c, a))
  <2>1. /\ Good(m1) /\ View(m1) = View(m) /\ m1.pend = None /\ m1.saved = m.saved
        /\ m1.reg = [m.reg EXCEPT !["RDX"] = c]
    BY <1>1, <1>2, SetReg, Registers, SMTT(30)
  <2>. HIDE DEF m1
  <2>2. /\ Good(m2) /\ View(m2) = View(m) /\ m2.pend = None /\ m2.saved = m.saved
        /\ m2.reg = [m1.reg EXCEPT !["RCX"] = a]
    BY <1>1, <1>2, <2>1, SetReg, Registers, SMTT(30)
  <2>. HIDE DEF m2
  <2>3. /\ Good(m3) /\ View(m3) = View(m) /\ m3.pend = None /\ m3.saved = m.saved
        /\ m3.reg = [m2.reg EXCEPT !["RDX"] = Alu(op, c, a)]
    BY <1>1, <1>2, <2>2, SetReg, Registers, SMTT(30)
  <2>. HIDE DEF m3
  <2>4. /\ Good(m4) /\ View(m4) = View(m) /\ m4.pend = None /\ m4.saved = m.saved
        /\ m4.reg = [m3.reg EXCEPT !["RCX"] = Alu(op, c, a)]
    BY <1>1, <1>2, <2>3, SetReg, Registers, SMTT(30)
  <2>. HIDE DEF m4
  <2>5. /\ m1.reg["RAX"] = a /\ m2.reg["RDX"] = c /\ m2.reg["RCX"] = a
        /\ m3.reg["RDX"] = Alu(op, c, a) /\ m4.reg["RCX"] = Alu(op, c, a)
    BY <2>1, <2>2, <2>3, <2>4 DEF Good, Cpu, Reg
  <2>6. Operate(m, op) = m4
    BY <1>4, <2>5 DEF Operate, Shift, m1, m2, m3, m4
  <2>. QED BY <1>2, <2>4, <2>5, <2>6
<1>5. CASE op \notin DivOps /\ op \notin ShiftOps
  <2>1. Operate(m, op) = Set(m, "RCX", Alu(op, c, a))
    BY <1>5 DEF Operate, Direct
  <2>. DEFINE n == Set(m, "RCX", Alu(op, c, a))
  <2>2. /\ Good(n) /\ View(n) = View(m) /\ n.saved = m.saved
        /\ n.reg = [m.reg EXCEPT !["RCX"] = Alu(op, c, a)]
    BY <1>2, SetReg, Registers, SMTT(30)
  <2>. HIDE DEF n
  <2>3. n.reg["RCX"] = Alu(op, c, a)
    BY <2>2 DEF Good, Cpu, Reg
  <2>. QED BY <1>2, <2>1, <2>2, <2>3 DEF n
<1>. QED BY <1>3, <1>4, <1>5

LEMMA StepBinOp ==
  ASSUME Inv, ~halted, NEW op \in BinOps, compileBinOp(op)
  PROVE  Inv' /\ IR!BinOp(op)
<1>. DEFINE m == PopOperands(cpu)  n == Operate(m, op)  v == View(cpu)
            res == Alu(op, Peek(v, 1), Peek(v, 0))
<1>1. Depth >= 2 /\ cpu' = opPush(n, "RCX")
      /\ UNCHANGED <<frames, glob, heap, brk, halted>>
  BY DEF compileBinOp
<1>2. /\ Good(m) /\ m.pend = None /\ View(m) = Front(v, 2)
      /\ m.reg["RAX"] = Peek(v, 0) /\ m.reg["RAX"] \in Word
      /\ m.reg["RCX"] = Peek(v, 1) /\ m.reg["RCX"] \in Word /\ m.saved = <<>>
  BY <1>1, PopTwo, Registers DEF PopOperands
<1>. HIDE DEF m
<1>3. /\ Good(n) /\ View(n) = Front(v, 2) /\ n.saved = <<>>
      /\ n.reg["RCX"] = res /\ res \in Word
  BY <1>2, OperateComputes
<1>. HIDE DEF n, res
<1>4. n.reg["RCX"] \in Word
  BY <1>3
<1>5. Good(cpu') /\ View(cpu') = Append(Front(v, 2), res) /\ cpu'.saved = <<>>
  <2>1. /\ Good(opPush(n, "RCX")) /\ opPush(n, "RCX").saved = n.saved
        /\ View(opPush(n, "RCX")) = Append(View(n), n.reg["RCX"])
    BY <1>3, <1>4, PushAppends, Registers
  <2>. QED BY <1>1, <1>3, <2>1
<1>6. Inv'
  BY <1>1, <1>5, CpuStep
<1>7. IR!BinOp(op)
  BY <1>1, <1>5 DEF IR!BinOp, IR!Replace, IR!Front, IR!Peek, Front, Peek, IR!Has, Depth, res
<1>. QED BY <1>6, <1>7

LEMMA StepUnOp ==
  ASSUME Inv, ~halted, NEW op \in UnOps, compileUnOp(op)
  PROVE  Inv' /\ IR!UnOp(op)
<1>. DEFINE m == opPop(cpu, "RAX")  v == View(cpu)
<1>1. Depth >= 1 /\ cpu' = opPush(Set(m, "RAX", Un(op, m.reg["RAX"])), "RAX")
      /\ UNCHANGED <<frames, glob, heap, brk, halted>>
  BY DEF compileUnOp
<1>2. /\ Good(m) /\ m.pend = None /\ View(m) = Front(v, 1)
      /\ m.reg["RAX"] = Peek(v, 0) /\ m.reg["RAX"] \in Word /\ m.saved = <<>>
  BY <1>1, PopCpu, Registers
<1>. HIDE DEF m
<1>3. Un(op, m.reg["RAX"]) \in Word
  BY <1>2, IRAssumption
<1>4. /\ Good(cpu') /\ View(cpu') = Append(Front(v, 1), Un(op, Peek(v, 0)))
      /\ cpu'.saved = <<>>
  BY <1>1, <1>2, <1>3, SetPush, Registers
<1>5. Inv'
  BY <1>1, <1>4, CpuStep
<1>6. IR!UnOp(op)
  BY <1>1, <1>4 DEF IR!UnOp, IR!Replace, IR!Front, IR!Peek, Front, Peek, IR!Has, Depth
<1>. QED BY <1>5, <1>6

-----------------------------------------------------------------------------
\* Control

LEMMA FlushCpu ==
  ASSUME Inv, ~halted
  PROVE  LET m == flush(cpu)
         IN  /\ Good(m) /\ m.pend = None /\ View(m) = View(cpu) /\ m.mem = View(cpu)
             /\ m.saved = <<>>
BY InvGood, FlushKeeps

\* Forgetting the pending register is safe where there is none.
LEMMA ArriveKeeps ==
  ASSUME NEW m, Good(m), m.pend = None
  PROVE  Arrive(m) = m
BY DEF Arrive, Good, Cpu

LEMMA StepLabel ==
  ASSUME Inv, ~halted, compileLabel
  PROVE  Inv' /\ View(cpu') = View(cpu) /\ UNCHANGED <<frames, glob, heap, brk, halted>>
<1>1. Good(cpu') /\ View(cpu') = View(cpu) /\ cpu'.saved = <<>>
  BY FlushCpu DEF compileLabel
<1>2. UNCHANGED <<frames, glob, heap, brk, halted>>
  BY DEF compileLabel
<1>. QED BY <1>1, <1>2, CpuStep

LEMMA StepJmp ==
  ASSUME Inv, ~halted, compileJmp
  PROVE  Inv' /\ View(cpu') = View(cpu) /\ UNCHANGED <<frames, glob, heap, brk, halted>>
<1>1. Good(cpu') /\ View(cpu') = View(cpu) /\ cpu'.saved = <<>>
  BY FlushCpu, ArriveKeeps DEF compileJmp
<1>2. UNCHANGED <<frames, glob, heap, brk, halted>>
  BY DEF compileJmp
<1>. QED BY <1>1, <1>2, CpuStep

LEMMA StepJmpIf ==
  ASSUME Inv, ~halted, compileJmpIf
  PROVE  Inv' /\ IR!JmpIf
<1>. DEFINE m == opPop(cpu, "RAX")  v == View(cpu)
<1>1. Depth >= 1 /\ UNCHANGED <<frames, glob, heap, brk, halted>>
      /\ (cpu' = Arrive(flush(m)) \/ cpu' = flush(m))
  BY DEF compileJmpIf, jccRel32
<1>2. Good(m) /\ View(m) = Front(v, 1) /\ m.saved = <<>>
  BY <1>1, PopCpu, Registers
<1>. HIDE DEF m
<1>3. /\ Good(flush(m)) /\ flush(m).pend = None /\ View(flush(m)) = Front(v, 1)
      /\ flush(m).saved = <<>>
  BY <1>2, FlushKeeps
<1>4. cpu' = flush(m)
  BY <1>1, <1>3, ArriveKeeps
<1>5. Good(cpu') /\ View(cpu') = Front(v, 1) /\ cpu'.saved = <<>>
  BY <1>3, <1>4
<1>6. Inv'
  BY <1>1, <1>5, CpuStep
<1>7. IR!JmpIf
  BY <1>1, <1>5 DEF IR!JmpIf, IR!Front, Front, IR!Has, Depth
<1>. QED BY <1>6, <1>7

\* Entering a function with the operands in memory.
LEMMA EnterCalls ==
  ASSUME Inv, NEW m, Good(m), m.pend = None, m.saved = <<>>, NEW f \in Funcs,
         Enter(f, m), UNCHANGED <<glob, heap, brk, halted>>
  PROVE  Inv' /\ IR!Enter(f, View(m))
<1>. DEFINE n == Arity[f]  s == View(m)  args == Topmost(s, n)
<1>1. n \in 0..3 /\ s = m.mem /\ s \in Seq(Word) /\ n <= Len(s)
  BY IRAssumption DEF Enter, View, Good, Cpu
<1>2. PICK rest \in [Slots -> Stale] :
        frames' = Append(frames,
          [fn |-> f, loc |-> [i \in Slots |-> IF i < n THEN args[i+1] ELSE rest[i]]])
  BY <1>1 DEF Enter
<1>3. /\ args \in Seq(Word) /\ Len(args) = n /\ \A i \in 1..n : args[i] \in Word
      /\ Front(s, n) \in Seq(Word)
  <2>1. n \in Nat
    BY <1>1
  <2>. HIDE DEF n, s
  <2>2. Front(s, n) \in Seq(Word)
    BY <1>1, <2>1, FrontFacts
  <2>. QED BY <1>1, <2>1, <2>2, TopmostFacts
<1>4. /\ cpu' = [m EXCEPT !.mem = Front(@, n), !.pend = None,
                          !.reg["RAX"] = IF n = 0 THEN @ ELSE args[1]]
      /\ Len(frames) < MaxFrames /\ Len(s) >= n
  BY <1>1 DEF Enter
<1>. HIDE DEF args
<1>5. Good(cpu') /\ View(cpu') = Front(s, n) /\ cpu'.saved = <<>>
  <2>1. m \in Cpu /\ m.pend = None
    BY DEF Good
  <2>2. (IF n = 0 THEN m.reg["RAX"] ELSE args[1]) \in Value
    BY <1>1, <1>3, <2>1, Registers DEF Cpu, Value
  <2>3. /\ cpu' \in Cpu /\ cpu'.mem = Front(s, n) /\ cpu'.pend = None
        /\ cpu'.saved = <<>>
    BY <1>1, <1>3, <1>4, <2>1, <2>2 DEF Cpu
  <2>. QED BY <2>3 DEF Good, View
<1>6. frames' \in Seq(Frame) /\ frames' # <<>>
  <2>1. frames \in Seq(Frame)
    BY DEF Inv, TypeOK
  <2>2. ASSUME NEW i \in Slots
        PROVE  (IF i < n THEN args[i+1] ELSE rest[i]) \in Word
    <3>1. i \in Nat /\ rest[i] \in Word
      BY IRAssumption DEF Slots
    <3>2. i < n => i+1 \in 1..n
      BY <1>1, <3>1
    <3>. QED BY <1>3, <3>1, <3>2
  <2>3. [i \in Slots |-> IF i < n THEN args[i+1] ELSE rest[i]] \in [Slots -> Word]
    BY <2>2
  <2>4. [fn |-> f, loc |-> [i \in Slots |-> IF i < n THEN args[i+1] ELSE rest[i]]]
          \in Frame
    BY <2>3 DEF Frame
  <2>. QED BY <1>2, <2>1, <2>4
<1>7. Inv'
  BY <1>5, <1>6 DEF Inv, TypeOK, PendingIsOperand, MachineStackBalanced, Good
<1>8. IR!Enter(f, s)
  <2>1. frames' = Append(frames, IR!FrameOf(f, args, rest))
    BY <1>2, <1>3 DEF IR!FrameOf, IR!Slots, Slots
  <2>2. rest \in [IR!Slots -> Stale]
    BY DEF IR!Slots, Slots
  <2>. QED BY <1>4, <1>5, <2>1, <2>2 DEF IR!Enter, args, IR!Topmost, Topmost, IR!Front, Front
<1>. QED BY <1>7, <1>8

LEMMA StepCall ==
  ASSUME Inv, ~halted, NEW f \in Funcs, compileCall(f)
  PROVE  Inv' /\ IR!Call(f)
<1>. DEFINE m == flush(cpu)
<1>1. Enter(f, m) /\ UNCHANGED <<glob, heap, brk, halted>>
  BY DEF compileCall, callsite
<1>2. Good(m) /\ m.pend = None /\ View(m) = View(cpu) /\ m.saved = <<>>
  BY FlushCpu
<1>. HIDE DEF m
<1>3. Inv' /\ IR!Enter(f, View(m))
  BY <1>1, <1>2, EnterCalls
<1>. QED BY <1>1, <1>2, <1>3 DEF IR!Call

LEMMA StepReturn ==
  ASSUME Inv, ~halted, compileReturn
  PROVE  Inv' /\ IR!Return
<1>1. Good(cpu') /\ View(cpu') = View(cpu) /\ cpu'.saved = <<>>
  BY FlushCpu, ArriveKeeps DEF compileReturn
<1>2. /\ IF Len(frames) = 1
         THEN halted' = TRUE /\ frames' = frames
         ELSE halted' = FALSE /\ frames' = Front(frames, 1)
      /\ UNCHANGED <<glob, heap, brk>>
  BY DEF compileReturn
<1>3. frames' \in Seq(Frame) /\ frames' # <<>> /\ halted' \in BOOLEAN
  <2>1. frames \in Seq(Frame) /\ frames # <<>> /\ Len(frames) \in Nat \ {0}
    BY LocalsType DEF Inv, TypeOK
  <2>2. CASE Len(frames) = 1
    BY <1>2, <2>1, <2>2
  <2>3. CASE Len(frames) # 1
    <3>. DEFINE k == Len(frames)
    <3>1. k \in Nat \ {0} /\ k # 1
      BY <2>1, <2>3
    <3>. HIDE DEF k
    <3>2. 1 < k
      BY <3>1
    <3>3. Front(frames, 1) \in Seq(Frame) /\ Front(frames, 1) # <<>>
      BY <2>1, <3>2, FrontNext DEF k
    <3>. QED BY <1>2, <2>3, <3>3
  <2>. QED BY <2>2, <2>3
<1>4. Inv'
  BY <1>1, <1>2, <1>3 DEF Inv, TypeOK, PendingIsOperand, MachineStackBalanced, Good
<1>5. IR!Return
  BY <1>1, <1>2 DEF IR!Return, IR!Front, Front
<1>. QED BY <1>4, <1>5

LEMMA StepPanic ==
  ASSUME Inv, ~halted, compilePanic
  PROVE  Inv' /\ IR!Panic
<1>. DEFINE m == opPop(cpu, "RAX")
<1>1. Depth >= 1 /\ cpu' = m /\ halted' = TRUE /\ UNCHANGED <<frames, glob, heap, brk>>
  BY DEF compilePanic
<1>2. Good(m) /\ View(m) = Front(View(cpu), 1) /\ m.saved = <<>>
  BY <1>1, PopCpu, Registers
<1>. HIDE DEF m
<1>3. Inv'
  BY <1>1, <1>2 DEF Inv, TypeOK, PendingIsOperand, MachineStackBalanced, Good
<1>4. IR!Panic
  BY <1>1, <1>2 DEF IR!Panic, IR!Front, Front, IR!Has, Depth
<1>. QED BY <1>3, <1>4

-----------------------------------------------------------------------------
\* Memory

\* Both machines have the same memory, and nil is outside it.
LEMMA MemoryFacts ==
  /\ Low \in Nat /\ MemSize \in Nat /\ Top \in Nat
  /\ IR!Top = Top /\ IR!Addr = Addr /\ IR!BoxAddr = BoxAddr
  /\ \A a \in Addr : a \in Word /\ a # 0
  /\ \A b \in BoxAddr : b \in Addr /\ b + 1 \in Addr
  /\ \A b \in Low..Top : b \in Nat
<1>1. Low \in Nat /\ MemSize \in Nat /\ Top \in Nat
  BY IRAssumption DEF Top
<1>2. IR!Top = Top /\ IR!Addr = Addr /\ IR!BoxAddr = BoxAddr
  BY DEF IR!Top, Top, IR!Addr, Addr, IR!BoxAddr, BoxAddr
<1>3. MaxWord \in Nat /\ Top <= MaxWord
  BY IRAssumption
<1>. QED BY <1>1, <1>2, <1>3 DEF Addr, BoxAddr, Word

LEMMA StepLoad ==
  ASSUME Inv, ~halted, compileLoad
  PROVE  Inv' /\ IR!Load
<1>. DEFINE m == opPop(cpu, "RCX")  v == View(cpu)  a == m.reg["RCX"]
            x == IF a = 0 THEN 0 ELSE heap[a]
<1>1. /\ Depth >= 1 /\ a \in Addr \cup {0} /\ cpu' = opPush(Set(m, "RAX", x), "RAX")
      /\ UNCHANGED <<frames, glob, heap, brk, halted>>
  BY DEF compileLoad
<1>2. /\ Good(m) /\ m.pend = None /\ View(m) = Front(v, 1) /\ a = Peek(v, 0)
      /\ a \in Word /\ m.saved = <<>>
  BY <1>1, PopCpu, Registers
<1>. HIDE DEF m
<1>3. x \in Word
  <2>1. heap \in [Addr -> Word] /\ 0 \in Word
    BY IRAssumption DEF Inv, TypeOK, Word
  <2>2. a # 0 => a \in Addr
    BY <1>1
  <2>. QED BY <2>1, <2>2
<1>. HIDE DEF x
<1>4. Good(cpu') /\ View(cpu') = Append(Front(v, 1), x) /\ cpu'.saved = <<>>
  BY <1>1, <1>2, <1>3, SetPush, Registers
<1>5. Inv'
  BY <1>1, <1>4, CpuStep
<1>6. IR!Load
  BY <1>1, <1>2, <1>4, MemoryFacts
     DEF IR!Load, IR!Replace, IR!Front, IR!Peek, Front, Peek, IR!Has, Depth, x
<1>. QED BY <1>5, <1>6

LEMMA StepStore ==
  ASSUME Inv, ~halted, compileStore
  PROVE  Inv' /\ IR!Store
<1>. DEFINE m == opPop(opPop(cpu, "RCX"), "RAX")  v == View(cpu)
<1>1. /\ Depth >= 2 /\ m.reg["RCX"] \in Addr /\ cpu' = m
      /\ heap' = [heap EXCEPT ![m.reg["RCX"]] = m.reg["RAX"]]
      /\ UNCHANGED <<frames, glob, brk, halted>>
  BY DEF compileStore
<1>2. /\ Good(m) /\ m.pend = None /\ View(m) = Front(v, 2)
      /\ m.reg["RCX"] = Peek(v, 0) /\ m.reg["RAX"] = Peek(v, 1)
      /\ m.reg["RAX"] \in Word /\ m.saved = <<>>
  BY <1>1, PopTwo, Registers
<1>. HIDE DEF m
<1>3. heap' \in [Addr -> Word]
  BY <1>1, <1>2 DEF Inv, TypeOK
<1>4. Inv'
  BY <1>1, <1>2, <1>3 DEF Inv, TypeOK, PendingIsOperand, MachineStackBalanced, Good
<1>5. IR!Store
  BY <1>1, <1>2, MemoryFacts DEF IR!Store, IR!Front, IR!Peek, Front, Peek, IR!Has, Depth
<1>. QED BY <1>4, <1>5

LEMMA StepHeaderWord ==
  ASSUME Inv, ~halted, NEW k \in 1..2, compileHeaderWord(k)
  PROVE  Inv' /\ IR!HeaderWord(k)
<1>. DEFINE m == opPop(cpu, "RAX")  v == View(cpu)  a == m.reg["RAX"]
            x == IF a = 0 THEN 0 ELSE heap[a + k]
<1>1. /\ Depth >= 1 /\ (a = 0 \/ (a \in Addr /\ a + k \in Addr))
      /\ cpu' = opPush(Set(m, "RAX", x), "RAX")
      /\ UNCHANGED <<frames, glob, heap, brk, halted>>
  BY DEF compileHeaderWord
<1>2. /\ Good(m) /\ m.pend = None /\ View(m) = Front(v, 1) /\ a = Peek(v, 0)
      /\ a \in Word /\ m.saved = <<>>
  BY <1>1, PopCpu, Registers
<1>. HIDE DEF m
<1>3. x \in Word
  <2>1. heap \in [Addr -> Word] /\ 0 \in Word
    BY IRAssumption DEF Inv, TypeOK, Word
  <2>2. a # 0 => a + k \in Addr
    BY <1>1
  <2>. QED BY <2>1, <2>2
<1>. HIDE DEF x
<1>4. Good(cpu') /\ View(cpu') = Append(Front(v, 1), x) /\ cpu'.saved = <<>>
  BY <1>1, <1>2, <1>3, SetPush, Registers
<1>5. Inv'
  BY <1>1, <1>4, CpuStep
<1>6. IR!HeaderWord(k)
  BY <1>1, <1>2, <1>4, MemoryFacts
     DEF IR!HeaderWord, IR!Replace, IR!Front, IR!Peek, Front, Peek, IR!Has, Depth, x
<1>. QED BY <1>5, <1>6

LEMMA StepIndexAddr ==
  ASSUME Inv, ~halted, compileIndexAddr
  PROVE  Inv' /\ IR!IndexAddr
<1>. DEFINE m == PopOperands(cpu)  v == View(cpu)
            h == heap[m.reg["RCX"]]
            m1 == Set(m, "RCX", h)  m2 == Set(m1, "RAX", Junk)
            x == Alu("INDEX", m1.reg["RCX"], m1.reg["RAX"])
<1>1. /\ Depth >= 2 /\ m.reg["RCX"] \in Addr
      /\ cpu' = opPush(Set(m2, "RCX", x), "RCX")
      /\ UNCHANGED <<frames, glob, heap, brk, halted>>
  BY DEF compileIndexAddr
<1>2. /\ Good(m) /\ m.pend = None /\ View(m) = Front(v, 2)
      /\ m.reg["RAX"] = Peek(v, 0) /\ m.reg["RAX"] \in Word
      /\ m.reg["RCX"] = Peek(v, 1) /\ m.saved = <<>>
  BY <1>1, PopTwo, Registers DEF PopOperands
<1>. HIDE DEF m
<1>3. h \in Word /\ h \in Value /\ Junk \in Value
  BY <1>1 DEF Inv, TypeOK, Value
<1>. HIDE DEF h
<1>4. /\ Good(m1) /\ m1.pend = None /\ View(m1) = Front(v, 2) /\ m1.saved = <<>>
      /\ m1.reg = [m.reg EXCEPT !["RCX"] = h]
  BY <1>2, <1>3, SetReg, Registers, SMTT(30)
<1>. HIDE DEF m1
<1>5. m1.reg["RCX"] = h /\ m1.reg["RAX"] = Peek(v, 0) /\ m1.reg["RAX"] \in Word
  BY <1>2, <1>4 DEF Good, Cpu, Reg
<1>6. /\ Good(m2) /\ m2.pend = None /\ View(m2) = Front(v, 2) /\ m2.saved = <<>>
      /\ m2.reg = [m1.reg EXCEPT !["RAX"] = Junk]
  BY <1>3, <1>4, SetReg, Registers, SMTT(30)
<1>. HIDE DEF m2
<1>7. x \in Word
  BY <1>3, <1>5, IRAssumption
<1>. HIDE DEF x
<1>8. Good(cpu') /\ View(cpu') = Append(Front(v, 2), x) /\ cpu'.saved = <<>>
  BY <1>1, <1>6, <1>7, SetPush, Registers
<1>9. Inv'
  BY <1>1, <1>8, CpuStep
<1>10. IR!IndexAddr
  BY <1>1, <1>2, <1>5, <1>8, MemoryFacts
     DEF IR!IndexAddr, IR!Replace, IR!Front, IR!Peek, Front, Peek, IR!Has,
         Depth, h, x
<1>. QED BY <1>9, <1>10

\* The call of Alloc: the block, and nothing of the operands lost.
LEMMA AllocReturns ==
  ASSUME brk \in Nat, NEW m, Good(m), NEW size \in Nat \ {0}, brk + size <= Top
  PROVE  /\ Good(AllocTo(m, size)) /\ AllocTo(m, size).pend = None
         /\ View(AllocTo(m, size)) = View(m) /\ AllocTo(m, size).saved = m.saved
         /\ AllocTo(m, size).reg["RCX"] = brk + 1 /\ brk + 1 \in Word
<1>. DEFINE c == constI64(m, size)  m1 == flush(c)
            m2 == [m1 EXCEPT !.mem = Append(Front(m1.mem, 1), brk + 1),
                             !.reg = [r \in Reg |-> Junk], !.pend = None]
<1>1. size \in Word /\ brk + 1 \in Word
  BY IRAssumption, MemoryFacts DEF Word
<1>2. Good(c) /\ View(c) = Append(View(m), size) /\ c.saved = m.saved
  BY <1>1, ConstI64Appends
<1>. HIDE DEF c
<1>3. Good(m1) /\ m1.mem = View(c) /\ m1.saved = m.saved
  BY <1>2, FlushKeeps
<1>. HIDE DEF m1
<1>4. Front(m1.mem, 1) = View(m) /\ View(m) \in Seq(Word)
  BY <1>1, <1>2, <1>3, ViewType, AppendFacts
<1>5. /\ Good(m2) /\ View(m2) = Append(View(m), brk + 1) /\ m2.saved = m.saved
      /\ View(m2) # <<>>
  <2>1. Append(View(m), brk + 1) \in Seq(Word) /\ Append(View(m), brk + 1) # <<>>
    BY <1>1, <1>4, AppendFacts
  <2>2. [r \in Reg |-> Junk] \in [Reg -> Value]
    BY DEF Value
  <2>. QED BY <1>3, <1>4, <2>1, <2>2 DEF Good, Cpu, View
<1>6. AllocTo(m, size) = opPop(m2, "RCX")
  BY DEF AllocTo, callsite, c, m1
<1>. HIDE DEF m2
<1>7. Front(View(m2), 1) = View(m) /\ Peek(View(m2), 0) = brk + 1
  BY <1>1, <1>4, <1>5, AppendFacts
<1>. DEFINE p == opPop(m2, "RCX")
<1>8. /\ Good(p) /\ p.pend = None /\ View(p) = Front(View(m2), 1)
      /\ p.reg = [m2.reg EXCEPT !["RCX"] = Peek(View(m2), 0)] /\ p.saved = m2.saved
  BY <1>5, PopTakesLast, Registers
<1>. HIDE DEF p
<1>9. p.reg["RCX"] = brk + 1
  BY <1>5, <1>7, <1>8, Registers DEF Good, Cpu
<1>. QED BY <1>1, <1>5, <1>6, <1>7, <1>8, <1>9 DEF p

LEMMA StoredIsFilled ==
  ASSUME brk \in Nat, heap \in [Addr -> Word], NEW ws \in Seq(Word)
  PROVE  /\ Stored(brk + 1, ws) = IR!Filled(ws)
         /\ Stored(brk + 1, ws) \in [Addr -> Word]
<1>. DEFINE k == Len(ws)
<1>1. k \in Nat /\ \A i \in 1..k : ws[i] \in Word
  OBVIOUS
<1>2. ASSUME NEW a \in Addr
      PROVE  /\ a \in brk+1..(brk+1)+k-1 <=> a \in brk+1..brk+k
             /\ a - (brk + 1) + 1 = a - brk
             /\ a \in brk+1..brk+k => ws[a - brk] \in Word
  <2>. HIDE DEF k
  <2>1. a \in Nat
    BY MemoryFacts DEF Word
  <2>2. a \in brk+1..brk+k => a - brk \in 1..k
    BY <1>1, <2>1
  <2>. QED BY <1>1, <2>1, <2>2
<1>. QED BY <1>2, MemoryFacts DEF Stored, IR!Filled

\* Operands put aside on the machine stack, the last one first.
LEMMA SaveArgKeeps ==
  ASSUME NEW m, Good(m), View(m) # <<>>
  PROVE  /\ Good(SaveArg(m)) /\ SaveArg(m).pend = None
         /\ View(SaveArg(m)) = Front(View(m), 1)
         /\ SaveArg(m).saved = Append(m.saved, Peek(View(m), 0))
         /\ Peek(View(m), 0) \in Word
<1>. DEFINE p == opPop(m, "RAX")
<1>1. /\ Good(p) /\ p.pend = None /\ View(p) = Front(View(m), 1)
      /\ p.reg = [m.reg EXCEPT !["RAX"] = Peek(View(m), 0)] /\ p.saved = m.saved
  BY PopTakesLast, Registers
<1>2. Peek(View(m), 0) \in Word
  BY ViewType, FrontPeek
<1>. HIDE DEF p
<1>3. p.reg["RAX"] = Peek(View(m), 0)
  BY <1>1, Registers DEF Good, Cpu
<1>4. SaveArg(m) = [p EXCEPT !.saved = Append(m.saved, Peek(View(m), 0))]
  BY <1>1, <1>3 DEF SaveArg, pushR, p, Good, Cpu
<1>5. Append(m.saved, Peek(View(m), 0)) \in Seq(Word)
  BY <1>2 DEF Good, Cpu
<1>. DEFINE q == [p EXCEPT !.saved = Append(m.saved, Peek(View(m), 0))]
<1>6. Good(q) /\ q.pend = None /\ View(q) = View(p)
      /\ q.saved = Append(m.saved, Peek(View(m), 0))
  BY <1>1, <1>5 DEF Good, Cpu, View
<1>. QED BY <1>1, <1>2, <1>4, <1>6

LEMMA FrontNone ==
  ASSUME NEW S, NEW s \in Seq(S)
  PROVE  Front(s, 0) = s
<1>1. /\ Front(s, 0) \in Seq(S) /\ Len(Front(s, 0)) = Len(s)
      /\ \A i \in 1..Len(s) : Front(s, 0)[i] = s[i]
  BY FrontFacts
<1>. QED BY <1>1, SeqEqual

LEMMA SaveArgsKeeps ==
  ASSUME NEW m, Good(m), m.saved = <<>>, NEW n \in ArgCounts, Len(View(m)) >= n
  PROVE  LET v == View(m)
         IN  /\ Good(SaveArgs(m, n))
             /\ View(SaveArgs(m, n)) = Front(v, n)
             /\ SaveArgs(m, n).saved = IF n = 0 THEN <<>>
                                        ELSE IF n = 1 THEN <<Peek(v, 0)>>
                                        ELSE <<Peek(v, 0), Peek(v, 1)>>
             /\ \A i \in 1..n : Peek(v, i - 1) \in Word
<1>. DEFINE v == View(m)
<1>1. v \in Seq(Word) /\ Len(v) \in Nat
  BY ViewType
<1>2. CASE n = 0
  BY <1>1, <1>2, FrontNone DEF SaveArgs
<1>3. CASE n = 1
  <2>1. v # <<>>
    BY <1>1, <1>3
  <2>. QED BY <1>3, <2>1, SaveArgKeeps DEF SaveArgs
<1>4. CASE n = 2
  <2>. DEFINE k == SaveArg(m)
  <2>1. Len(v) >= 2
    BY <1>4
  <2>. HIDE DEF v
  <2>2. v # <<>> /\ Front(v, 1) # <<>> /\ Front(Front(v, 1), 1) = Front(v, 2)
        /\ Peek(Front(v, 1), 0) = Peek(v, 1) /\ Peek(v, 0) \in Word /\ Peek(v, 1) \in Word
    BY <1>1, <2>1, FrontTwice
  <2>3. Good(k) /\ View(k) = Front(v, 1) /\ k.saved = <<Peek(v, 0)>>
    BY <2>2, SaveArgKeeps DEF v
  <2>. HIDE DEF k
  <2>4. /\ Good(SaveArg(k)) /\ View(SaveArg(k)) = Front(v, 2)
        /\ SaveArg(k).saved = <<Peek(v, 0), Peek(v, 1)>>
    BY <2>2, <2>3, SaveArgKeeps
  <2>5. \A i \in 1..2 : Peek(v, i - 1) \in Word
    BY <2>2
  <2>. QED BY <1>4, <2>4, <2>5 DEF SaveArgs, k, v
<1>. QED BY <1>2, <1>3, <1>4 DEF ArgCounts

\* Popped from the machine stack they are in order again.
LEMMA ReversedSaved ==
  ASSUME NEW v \in Seq(Word), NEW n \in 1..2, Len(v) >= n,
         NEW s, s = IF n = 0 THEN <<>> ELSE IF n = 1 THEN <<Peek(v, 0)>>
                    ELSE <<Peek(v, 0), Peek(v, 1)>>
  PROVE  Reversed(s) = Topmost(v, n)
<1>1. /\ Topmost(v, n) \in Seq(Word) /\ Len(Topmost(v, n)) = n
      /\ \A i \in 1..n : Topmost(v, n)[i] = v[Len(v) - n + i]
  BY TopmostFacts
<1>2. CASE n = 1
  <2>1. s = <<Peek(v, 0)>> /\ Len(s) = 1 /\ s[1] = v[Len(v) - 1 + 1]
    BY <1>2 DEF Peek
  <2>2. Reversed(s) = [i \in 1..1 |-> v[Len(v) - 1 + i]]
    BY <2>1 DEF Reversed
  <2>3. Topmost(v, n) = [i \in 1..1 |-> v[Len(v) - 1 + i]]
    BY <1>1, <1>2
  <2>. QED BY <2>2, <2>3
<1>3. CASE n = 2
  <2>1. /\ Len(s) = 2 /\ s[1] = v[Len(v)] /\ s[2] = v[Len(v) - 1]
    BY <1>3 DEF Peek
  <2>2. Reversed(s) = [i \in 1..2 |-> s[3 - i]]
    BY <2>1 DEF Reversed
  <2>3. Topmost(v, n) = [i \in 1..2 |-> v[Len(v) - 2 + i]]
    BY <1>1, <1>3
  <2>4. \A i \in 1..2 : s[3 - i] = v[Len(v) - 2 + i]
    BY <2>1
  <2>. QED BY <2>2, <2>3, <2>4
<1>. QED BY <1>2, <1>3

\* The machine stack emptied.
LEMMA UnsaveKeeps ==
  ASSUME NEW m, Good(m), m.pend = None
  PROVE  LET c == [m EXCEPT !.saved = <<>>]
         IN  /\ Good(c) /\ c.pend = None /\ View(c) = View(m)
             /\ c.reg = m.reg /\ c.saved = <<>>
<1>1. <<>> \in Seq(Word)
  OBVIOUS
<1>2. m \in Cpu /\ m.pend = None /\ None \in Reg \cup {None}
  BY DEF Good
<1>. DEFINE e == <<>>  c == [m EXCEPT !.saved = e]
<1>3. e \in Seq(Word)
  BY <1>1
<1>. HIDE DEF e
<1>4. c \in Cpu /\ c.pend = None /\ c.mem = m.mem /\ c.reg = m.reg /\ c.saved = e
  BY <1>2, <1>3 DEF Cpu
<1>. QED BY <1>2, <1>4 DEF Good, View, e

LEMMA StepComposite ==
  ASSUME Inv, ~halted, NEW n \in 1..2, compileCompositeLitCall(n)
  PROVE  Inv' /\ IR!Composite(n)
<1>. DEFINE v == View(cpu)  k == SaveArgs(cpu, n)  m == AllocTo(k, n)
            fields == Reversed(m.saved)  top == Peek(fields, 0)
            c == [Set(m, "RAX", top) EXCEPT !.saved = <<>>]
<1>1. /\ Depth >= n /\ brk + n <= Top
      /\ heap' = Stored(m.reg["RCX"], fields) /\ brk' = brk + n
      /\ cpu' = opPush(c, "RCX") /\ UNCHANGED <<frames, glob, halted>>
  BY DEF compileCompositeLitCall
<1>2. /\ n \in ArgCounts /\ n \in Nat \ {0} /\ brk \in Low..Top /\ brk \in Nat
      /\ MemSize \in Nat /\ heap \in [Addr -> Word]
  BY IRAssumption, MemoryFacts DEF ArgCounts, Inv, TypeOK
<1>3. Good(cpu) /\ v \in Seq(Word) /\ Len(v) >= n /\ cpu.saved = <<>>
  BY <1>1, InvGood DEF Depth
<1>4. /\ Good(k) /\ View(k) = Front(v, n)
      /\ k.saved = IF n = 0 THEN <<>> ELSE IF n = 1 THEN <<Peek(v, 0)>>
                   ELSE <<Peek(v, 0), Peek(v, 1)>>
  BY <1>2, <1>3, SaveArgsKeeps
<1>. HIDE DEF k
<1>5. /\ Good(m) /\ m.pend = None /\ View(m) = Front(v, n) /\ m.saved = k.saved
      /\ m.reg["RCX"] = brk + 1 /\ brk + 1 \in Word
  BY <1>1, <1>2, <1>4, AllocReturns
<1>. HIDE DEF m
<1>6. fields = Topmost(v, n)
  <2>. HIDE DEF v
  <2>. QED BY <1>3, <1>4, <1>5, ReversedSaved
<1>7. /\ fields \in Seq(Word) /\ Len(fields) = n /\ top \in Word
  <2>. HIDE DEF fields
  <2>1. fields \in Seq(Word) /\ Len(fields) = n
    BY <1>2, <1>3, <1>6, TopmostFacts
  <2>2. fields # <<>>
    BY <1>2, <2>1
  <2>. QED BY <2>1, <2>2, FrontPeek
<1>. HIDE DEF fields, top
<1>8. /\ Good(c) /\ View(c) = Front(v, n) /\ c.reg["RCX"] = brk + 1 /\ c.saved = <<>>
  <2>. DEFINE d == Set(m, "RAX", top)
  <2>1. top \in Value
    BY <1>7 DEF Value
  <2>2. /\ Good(d) /\ View(d) = View(m) /\ d.pend = None
        /\ d.reg = [m.reg EXCEPT !["RAX"] = top]
    BY <1>5, <2>1, SetReg, Registers, SMTT(30)
  <2>. HIDE DEF d
  <2>3. d.reg["RCX"] = brk + 1
    BY <1>5, <2>2 DEF Good, Cpu, Reg
  <2>4. c = [d EXCEPT !.saved = <<>>]
    BY DEF d
  <2>5. Good(c) /\ View(c) = View(d) /\ c.reg = d.reg /\ c.saved = <<>>
    BY <2>2, <2>4, UnsaveKeeps
  <2>. QED BY <1>5, <2>2, <2>3, <2>5
<1>. HIDE DEF c
<1>9. Good(cpu') /\ View(cpu') = Append(Front(v, n), brk + 1) /\ cpu'.saved = <<>>
  <2>1. c.reg["RCX"] \in Word
    BY <1>5, <1>8
  <2>2. /\ Good(opPush(c, "RCX")) /\ opPush(c, "RCX").saved = c.saved
        /\ View(opPush(c, "RCX")) = Append(View(c), c.reg["RCX"])
    BY <1>8, <2>1, PushAppends, Registers
  <2>. QED BY <1>1, <1>8, <2>2
<1>10. heap' = IR!Filled(fields) /\ heap' \in [Addr -> Word]
  BY <1>1, <1>2, <1>5, <1>7, StoredIsFilled
<1>11. brk' \in Low..Top
  BY <1>1, <1>2, MemoryFacts
<1>12. Inv'
  BY <1>1, <1>9, <1>10, <1>11 DEF Inv, TypeOK, PendingIsOperand, MachineStackBalanced, Good
<1>13. IR!Composite(n)
  BY <1>1, <1>6, <1>7, <1>9, <1>10, MemoryFacts
     DEF IR!Composite, IR!Fresh, IR!Replace, IR!Has, IR!Front, Front, IR!Topmost, Topmost, Depth
<1>. QED BY <1>12, <1>13

LEMMA StepIfaceBox ==
  ASSUME Inv, ~halted, NEW tid \in DOMAIN Method, compileIfaceBox(tid)
  PROVE  Inv' /\ IR!IfaceBox(tid)
<1>. DEFINE v == View(cpu)  k == SaveArg(cpu)  m == AllocTo(k, 2)  c == popR(m, "RAX")
            x == Peek(v, 0)  ws == <<tid, x>>
<1>1. /\ Depth >= 1 /\ brk + 2 <= Top
      /\ heap' = Stored(c.reg["RCX"], <<tid, c.reg["RAX"]>>) /\ brk' = brk + 2
      /\ cpu' = opPush(c, "RCX") /\ UNCHANGED <<frames, glob, halted>>
  BY DEF compileIfaceBox
<1>2. /\ brk \in Low..Top /\ brk \in Nat /\ MemSize \in Nat /\ heap \in [Addr -> Word]
      /\ tid \in Word /\ 2 \in Nat \ {0}
  BY IRAssumption, MemoryFacts DEF Inv, TypeOK
<1>3. Good(cpu) /\ v \in Seq(Word) /\ v # <<>> /\ cpu.saved = <<>>
  BY <1>1, InvGood
<1>4. Good(k) /\ View(k) = Front(v, 1) /\ k.saved = <<x>> /\ x \in Word
  BY <1>3, SaveArgKeeps
<1>. HIDE DEF k
<1>5. /\ Good(m) /\ m.pend = None /\ View(m) = Front(v, 1) /\ m.saved = <<x>>
      /\ m.reg["RCX"] = brk + 1 /\ brk + 1 \in Word
  BY <1>1, <1>2, <1>4, AllocReturns
<1>. HIDE DEF m, x
<1>. DEFINE d == Set(m, "RAX", x)
<1>6. c = [d EXCEPT !.saved = <<>>]
  <2>1. Peek(<<x>>, 0) = x /\ Front(<<x>>, 1) = <<>>
    BY DEF Peek, Front
  <2>. QED BY <1>5, <2>1 DEF popR, Set, Good, Cpu
<1>7. /\ Good(c) /\ View(c) = Front(v, 1) /\ c.reg["RCX"] = brk + 1 /\ c.reg["RAX"] = x
      /\ c.saved = <<>>
  <2>1. x \in Value
    BY <1>4 DEF Value
  <2>2. /\ Good(d) /\ View(d) = View(m) /\ d.pend = None
        /\ d.reg = [m.reg EXCEPT !["RAX"] = x]
    BY <1>5, <2>1, SetReg, Registers, SMTT(30)
  <2>. HIDE DEF d
  <2>3. d.reg["RCX"] = brk + 1 /\ d.reg["RAX"] = x
    BY <1>5, <2>2 DEF Good, Cpu, Reg
  <2>. HIDE DEF c
  <2>4. Good(c) /\ View(c) = View(d) /\ c.reg = d.reg /\ c.saved = <<>>
    BY <1>6, <2>2, UnsaveKeeps
  <2>. QED BY <1>5, <2>2, <2>3, <2>4
<1>. HIDE DEF c
<1>8. Good(cpu') /\ View(cpu') = Append(Front(v, 1), brk + 1) /\ cpu'.saved = <<>>
  <2>1. c.reg["RCX"] \in Word
    BY <1>5, <1>7
  <2>2. /\ Good(opPush(c, "RCX")) /\ opPush(c, "RCX").saved = c.saved
        /\ View(opPush(c, "RCX")) = Append(View(c), c.reg["RCX"])
    BY <1>7, <2>1, PushAppends, Registers
  <2>. QED BY <1>1, <1>7, <2>2
<1>9. ws \in Seq(Word) /\ Len(ws) = 2
  BY <1>2, <1>4
<1>10. heap' = IR!Filled(ws) /\ heap' \in [Addr -> Word]
  BY <1>1, <1>2, <1>7, <1>9, StoredIsFilled
<1>11. brk' \in Low..Top
  BY <1>1, <1>2, MemoryFacts
<1>12. Inv'
  BY <1>1, <1>8, <1>10, <1>11 DEF Inv, TypeOK, PendingIsOperand, MachineStackBalanced, Good
<1>13. IR!IfaceBox(tid)
  BY <1>1, <1>8, <1>9, <1>10, MemoryFacts
     DEF IR!IfaceBox, IR!Fresh, IR!Replace, IR!Has, IR!Front, Front, IR!Peek, Peek, Depth, x
<1>. QED BY <1>12, <1>13

-----------------------------------------------------------------------------
\* Intrinsics

LEMMA StepReadPtr ==
  ASSUME Inv, ~halted, compileReadPtr
  PROVE  Inv' /\ IR!ReadPtr
<1>. DEFINE f == flush(cpu)  a == Locals[0]  m == Set(f, "RAX", a)
            x == heap[m.reg["RAX"]]
<1>1. /\ Room /\ m.reg["RAX"] \in Addr /\ cpu' = opPush(Set(m, "RAX", x), "RAX")
      /\ UNCHANGED <<frames, glob, heap, brk, halted>>
  BY DEF compileReadPtr
<1>2. Good(f) /\ f.pend = None /\ View(f) = View(cpu) /\ f.saved = <<>>
  BY FlushCpu
<1>3. a \in Word /\ a \in Value
  BY LocalsType, IRAssumption DEF Slots, Value
<1>. HIDE DEF f, a
<1>4. /\ Good(m) /\ m.pend = None /\ View(m) = View(cpu) /\ m.saved = <<>>
      /\ m.reg = [f.reg EXCEPT !["RAX"] = a]
  BY <1>2, <1>3, SetReg, Registers, SMTT(30)
<1>. HIDE DEF m
<1>5. m.reg["RAX"] = a
  BY <1>2, <1>4 DEF Good, Cpu, Reg
<1>6. x \in Word
  BY <1>1, <1>5 DEF Inv, TypeOK
<1>. HIDE DEF x
<1>7. Good(cpu') /\ View(cpu') = Append(View(cpu), x) /\ cpu'.saved = <<>>
  BY <1>1, <1>4, <1>6, SetPush, Registers
<1>8. Inv'
  BY <1>1, <1>7, CpuStep
<1>9. IR!ReadPtr
  BY <1>1, <1>5, <1>7, MemoryFacts
     DEF IR!ReadPtr, IR!Room, Room, IR!Locals, Locals, IR!Push, Depth, x, a
<1>. QED BY <1>8, <1>9

LEMMA StepWritePtr ==
  ASSUME Inv, ~halted, compileWritePtr
  PROVE  Inv' /\ IR!WritePtr
<1>. DEFINE f == flush(cpu)  a == Locals[0]  x == Locals[1]
            m1 == Set(f, "RAX", a)  m == Set(m1, "RCX", x)
<1>1. /\ NLocals >= 2 /\ a \in Addr /\ cpu' = m
      /\ heap' = [heap EXCEPT ![m.reg["RAX"]] = m.reg["RCX"]]
      /\ UNCHANGED <<frames, glob, brk, halted>>
  BY DEF compileWritePtr
<1>2. Good(f) /\ f.pend = None /\ View(f) = View(cpu) /\ f.saved = <<>>
  BY FlushCpu
<1>3. a \in Value /\ x \in Value /\ x \in Word
  BY <1>1, LocalsType, IRAssumption DEF Slots, Value
<1>. HIDE DEF f, a, x
<1>4. /\ Good(m1) /\ m1.pend = None /\ View(m1) = View(cpu) /\ m1.saved = <<>>
      /\ m1.reg = [f.reg EXCEPT !["RAX"] = a]
  BY <1>2, <1>3, SetReg, Registers, SMTT(30)
<1>. HIDE DEF m1
<1>5. /\ Good(m) /\ m.pend = None /\ View(m) = View(cpu) /\ m.saved = <<>>
      /\ m.reg = [m1.reg EXCEPT !["RCX"] = x]
  BY <1>3, <1>4, SetReg, Registers, SMTT(30)
<1>. HIDE DEF m
<1>6. m.reg["RAX"] = a /\ m.reg["RCX"] = x
  BY <1>2, <1>4, <1>5 DEF Good, Cpu, Reg
<1>7. heap' = [heap EXCEPT ![a] = x] /\ heap' \in [Addr -> Word]
  BY <1>1, <1>3, <1>6 DEF Inv, TypeOK
<1>8. Inv'
  BY <1>1, <1>5, <1>7 DEF Inv, TypeOK, PendingIsOperand, MachineStackBalanced, Good
<1>9. IR!WritePtr
  BY <1>1, <1>5, <1>7, MemoryFacts DEF IR!WritePtr, IR!Locals, Locals, a, x
<1>. QED BY <1>8, <1>9

LEMMA HeaderPushes ==
  ASSUME Inv, ~halted, NEW ws \in Seq(Word), ws # <<>>, Header(ws)
  PROVE  /\ Inv' /\ Room
         /\ View(cpu') = Append(View(cpu), brk + 1)
         /\ IR!Fresh(ws) /\ UNCHANGED <<frames, glob, halted>>
<1>. DEFINE f == flush(cpu)  k == Len(ws)  m == AllocTo(f, k)  top == Peek(ws, 0)
            c == Set(m, "RAX", top)
<1>1. /\ Room /\ brk + k <= Top /\ heap' = Stored(m.reg["RCX"], ws)
      /\ brk' = brk + k /\ cpu' = opPush(c, "RCX") /\ UNCHANGED <<frames, glob, halted>>
  BY DEF Header
<1>2. Good(f) /\ View(f) = View(cpu) /\ f.saved = <<>>
  BY FlushCpu
<1>3. k \in Nat \ {0} /\ top \in Word /\ top \in Value
  BY FrontPeek DEF Value
<1>4. brk \in Nat /\ brk \in Low..Top /\ MemSize \in Nat /\ heap \in [Addr -> Word]
  BY MemoryFacts DEF Inv, TypeOK
<1>. HIDE DEF f, top, k
<1>5. /\ Good(m) /\ m.pend = None /\ View(m) = View(cpu) /\ m.saved = <<>>
      /\ m.reg["RCX"] = brk + 1 /\ brk + 1 \in Word
  BY <1>1, <1>2, <1>3, <1>4, AllocReturns
<1>. HIDE DEF m
<1>6. /\ Good(c) /\ c.pend = None /\ View(c) = View(cpu) /\ c.saved = <<>>
      /\ c.reg = [m.reg EXCEPT !["RAX"] = top]
  BY <1>3, <1>5, SetReg, Registers, SMTT(30)
<1>. HIDE DEF c
<1>7. c.reg["RCX"] = brk + 1 /\ c.reg["RCX"] \in Word
  BY <1>5, <1>6 DEF Good, Cpu, Reg
<1>8. Good(cpu') /\ View(cpu') = Append(View(cpu), brk + 1) /\ cpu'.saved = <<>>
  <2>1. /\ Good(opPush(c, "RCX")) /\ opPush(c, "RCX").saved = c.saved
        /\ View(opPush(c, "RCX")) = Append(View(c), c.reg["RCX"])
    BY <1>6, <1>7, PushAppends, Registers
  <2>. QED BY <1>1, <1>6, <1>7, <2>1
<1>9. heap' = IR!Filled(ws) /\ heap' \in [Addr -> Word]
  BY <1>1, <1>4, <1>5, StoredIsFilled
<1>10. brk' \in Low..Top
  BY <1>1, <1>3, <1>4, MemoryFacts
<1>11. Inv'
  BY <1>1, <1>8, <1>9, <1>10 DEF Inv, TypeOK, PendingIsOperand, MachineStackBalanced, Good
<1>. QED BY <1>1, <1>8, <1>9, <1>11, MemoryFacts DEF IR!Fresh, k

LEMMA StepMakestring ==
  ASSUME Inv, ~halted, compileMakestring
  PROVE  Inv' /\ IR!Makestring
<1>. DEFINE ws == <<Locals[0], Locals[1]>>
<1>1. NLocals >= 2 /\ Header(ws)
  BY DEF compileMakestring
<1>2. ws \in Seq(Word) /\ ws # <<>>
  <2>1. Locals[0] \in Word /\ Locals[1] \in Word
    BY <1>1, LocalsType, IRAssumption DEF Slots
  <2>. QED BY <2>1
<1>3. ws = <<IR!Locals[0], IR!Locals[1]>>
  BY DEF IR!Locals, Locals
<1>. HIDE DEF ws
<1>. QED BY <1>1, <1>2, <1>3, HeaderPushes DEF IR!Makestring, IR!Room, Room, Depth, IR!Push

LEMMA StepMakeslice ==
  ASSUME Inv, ~halted, compileMakeslice
  PROVE  Inv' /\ IR!Makeslice
<1>. DEFINE ws == <<Locals[0], Locals[1], Locals[2], 1>>
<1>1. NLocals >= 3 /\ Header(ws)
  BY DEF compileMakeslice
<1>2. ws \in Seq(Word) /\ ws # <<>>
  <2>1. Locals[0] \in Word /\ Locals[1] \in Word /\ Locals[2] \in Word /\ 1 \in Word
    BY <1>1, LocalsType, IRAssumption DEF Slots, Word
  <2>. QED BY <2>1
<1>3. ws = <<IR!Locals[0], IR!Locals[1], IR!Locals[2], 1>>
  BY DEF IR!Locals, Locals
<1>. HIDE DEF ws
<1>. QED BY <1>1, <1>2, <1>3, HeaderPushes DEF IR!Makeslice, IR!Room, Room, Depth, IR!Push

\* The results of a system call, whatever the kernel left in the registers.
LEMMA StepSyscall ==
  ASSUME Inv, ~halted, NEW neg \in BOOLEAN, NEW ret \in Consts, NEW rdx \in Consts,
         compileSyscall(neg, ret, rdx)
  PROVE  Inv' /\ IR!Syscall(IF neg THEN 0 ELSE ret, rdx, IF neg THEN ret ELSE 0)
<1>. DEFINE f == flush(cpu)  v == View(cpu)
            r1 == IF neg THEN 0 ELSE ret  err == IF neg THEN ret ELSE 0
            R == [r \in Reg |-> IF r = "RAX" THEN (IF neg THEN Junk ELSE ret)
                                ELSE IF r = "RDX" THEN rdx ELSE Junk]
            m == [f EXCEPT !.reg = R]
            m1 == Set(m, "RCX", m.reg["RDX"])
            m2 == IF neg THEN Set(Set(m1, "RDX", ret), "RAX", 0) ELSE Set(m1, "RDX", 0)
            p == opPush(m2, "RAX")  q == opPush(p, "RCX")
<1>1. /\ Depth + 2 < MaxDepth /\ cpu' = opPush(q, "RDX")
      /\ UNCHANGED <<frames, glob, heap, brk, halted>>
  BY DEF compileSyscall
<1>2. Good(f) /\ f.pend = None /\ View(f) = v /\ f.saved = <<>>
  BY FlushCpu
<1>3. /\ ret \in Word /\ rdx \in Word /\ 0 \in Word /\ ret \in Value /\ rdx \in Value
      /\ 0 \in Value /\ Junk \in Value
  BY IRAssumption DEF Word, Value
<1>. HIDE DEF f
<1>4. R \in [Reg -> Value] /\ R["RDX"] = rdx /\ (~neg => R["RAX"] = ret)
  BY <1>3 DEF Reg
<1>. HIDE DEF R
<1>5. /\ Good(m) /\ m.pend = None /\ View(m) = v /\ m.saved = <<>> /\ m.reg = R
  BY <1>2, <1>4 DEF Good, Cpu, View
<1>. HIDE DEF m
<1>6. /\ Good(m1) /\ m1.pend = None /\ View(m1) = v /\ m1.saved = <<>>
      /\ m1.reg = [m.reg EXCEPT !["RCX"] = rdx]
  <2>1. m1 = Set(m, "RCX", rdx)
    BY <1>4, <1>5
  <2>. HIDE DEF m1
  <2>. DEFINE s == Set(m, "RCX", rdx)
  <2>2. /\ Good(s) /\ s.pend = None /\ View(s) = View(m) /\ s.saved = m.saved
        /\ s.reg = [m.reg EXCEPT !["RCX"] = rdx]
    BY <1>3, <1>5, SetReg, Registers, SMTT(30)
  <2>. QED BY <1>5, <2>1, <2>2
<1>. HIDE DEF m1
<1>7. m1.reg["RCX"] = rdx /\ (~neg => m1.reg["RAX"] = ret)
  BY <1>4, <1>5, <1>6 DEF Good, Cpu, Reg
<1>8. /\ Good(m2) /\ View(m2) = v /\ m2.saved = <<>> /\ m2.reg["RAX"] = r1
      /\ m2.reg["RCX"] = rdx /\ m2.reg["RDX"] = err
  <2>1. CASE neg
    <3>. DEFINE s == Set(m1, "RDX", ret)  t == Set(s, "RAX", 0)
    <3>1. /\ Good(s) /\ s.pend = None /\ View(s) = v /\ s.saved = <<>>
          /\ s.reg = [m1.reg EXCEPT !["RDX"] = ret]
      BY <1>3, <1>6, SetReg, Registers, SMTT(30)
    <3>. HIDE DEF s
    <3>2. /\ Good(t) /\ View(t) = v /\ t.saved = <<>> /\ t.reg = [s.reg EXCEPT !["RAX"] = 0]
      BY <1>3, <3>1, SetReg, Registers, SMTT(30)
    <3>. HIDE DEF t
    <3>3. t.reg["RAX"] = 0 /\ t.reg["RCX"] = rdx /\ t.reg["RDX"] = ret
      BY <1>6, <1>7, <3>1, <3>2 DEF Good, Cpu, Reg
    <3>4. m2 = t
      BY <2>1 DEF t, s
    <3>. QED BY <2>1, <3>2, <3>3, <3>4
  <2>2. CASE ~neg
    <3>. DEFINE s == Set(m1, "RDX", 0)
    <3>1. /\ Good(s) /\ View(s) = v /\ s.saved = <<>> /\ s.reg = [m1.reg EXCEPT !["RDX"] = 0]
      BY <1>3, <1>6, SetReg, Registers, SMTT(30)
    <3>. HIDE DEF s
    <3>2. s.reg["RAX"] = ret /\ s.reg["RCX"] = rdx /\ s.reg["RDX"] = 0
      BY <1>6, <1>7, <2>2, <3>1 DEF Good, Cpu, Reg
    <3>3. m2 = s
      BY <2>2 DEF s
    <3>. QED BY <2>2, <3>1, <3>2, <3>3
  <2>. QED BY <2>1, <2>2
<1>9. r1 \in Word /\ err \in Word /\ (r1 = 0 \/ err = 0)
  BY <1>3
<1>. HIDE DEF m2, r1, err
<1>10. /\ Good(p) /\ View(p) = Append(v, r1) /\ p.saved = <<>> /\ p.reg = m2.reg
  BY <1>8, <1>9, PushAppends, Registers
<1>. HIDE DEF p
<1>11. /\ Good(q) /\ View(q) = Append(Append(v, r1), rdx) /\ q.saved = <<>> /\ q.reg = m2.reg
  BY <1>3, <1>8, <1>10, PushAppends, Registers
<1>. HIDE DEF q
<1>12. /\ Good(cpu') /\ View(cpu') = Append(Append(Append(v, r1), rdx), err)
       /\ cpu'.saved = <<>>
  <2>1. q.reg["RDX"] \in Word
    BY <1>8, <1>9, <1>11
  <2>2. /\ Good(opPush(q, "RDX")) /\ opPush(q, "RDX").saved = q.saved
        /\ View(opPush(q, "RDX")) = Append(View(q), q.reg["RDX"])
    BY <1>11, <2>1, PushAppends, Registers
  <2>. QED BY <1>1, <1>8, <1>11, <2>2
<1>13. Inv'
  BY <1>1, <1>12, CpuStep
<1>14. IR!Syscall(r1, rdx, err)
  BY <1>1, <1>9, <1>12 DEF IR!Syscall, Depth
<1>. QED BY <1>13, <1>14 DEF r1, err

-----------------------------------------------------------------------------
\* Tostring

\* A register saved on the machine stack and taken back.
LEMMA PushPop ==
  ASSUME NEW m, Good(m), m.saved = <<>>, NEW r \in Reg
  PROVE  popR(pushR(m, r), r) = m
<1>. DEFINE x == m.reg[r]  p == pushR(m, r)
<1>1. p = [m EXCEPT !.saved = <<x>>] /\ p.saved = <<x>> /\ p.reg = m.reg
  BY DEF pushR, Good, Cpu
<1>2. Peek(<<x>>, 0) = x /\ Front(<<x>>, 1) = <<>>
  BY DEF Peek, Front
<1>3. popR(p, r) = [p EXCEPT !.reg = [m.reg EXCEPT ![r] = x], !.saved = <<>>]
  BY <1>1, <1>2 DEF popR
<1>4. [m.reg EXCEPT ![r] = x] = m.reg
  BY DEF Good, Cpu
<1>. HIDE DEF p
<1>5. popR(p, r) = [m EXCEPT !.saved = <<>>]
  BY <1>1, <1>3, <1>4 DEF Good, Cpu
<1>6. [m EXCEPT !.saved = <<>>] = m
  BY DEF Good, Cpu
<1>. QED BY <1>5, <1>6 DEF p

LEMMA StepTostring ==
  ASSUME Inv, ~halted, compileTostring
  PROVE  Inv' /\ IR!Tostring
<1>. DEFINE f == flush(cpu)  a == Locals[0]  v == View(cpu)  tid == heap[a]
            x == heap[a + 1]
<1>1. /\ Room /\ a \in Addr /\ (TostringBox \/ TostringString)
      /\ UNCHANGED <<glob, heap, brk, halted>>
  BY DEF compileTostring
<1>2. Good(f) /\ f.pend = None /\ View(f) = v /\ f.saved = <<>>
  BY FlushCpu
<1>3. /\ a \in Word /\ a \in Value /\ tid \in Word /\ tid \in Value
      /\ heap \in [Addr -> Word] /\ tid \in Int
  BY <1>1, LocalsType, IRAssumption DEF Slots, Value, Inv, TypeOK, Word
<1>4. a = IR!Locals[0] /\ IR!Addr = Addr /\ (Room <=> IR!Room)
  BY MemoryFacts DEF IR!Locals, Locals, IR!Room, Room, Depth
<1>41. IR!TostringAt => IR!Tostring
  BY <1>1, <1>4 DEF IR!Tostring
<1>5. CASE TostringString
  <2>. DEFINE m1 == Set(f, "RAX", a)  m == Set(m1, "RCX", tid)  n == Set(m, "RAX", a)
  <2>1. /\ m.reg["RCX"] >= TagLimit /\ cpu' = flush(opPush(n, "RAX")) /\ frames' = frames
    BY <1>5 DEF TostringString
  <2>. HIDE DEF f, a, tid
  <2>2. /\ Good(m1) /\ m1.pend = None /\ View(m1) = v /\ m1.saved = <<>>
        /\ m1.reg = [f.reg EXCEPT !["RAX"] = a]
    BY <1>2, <1>3, SetReg, Registers, SMTT(30)
  <2>. HIDE DEF m1
  <2>3. /\ Good(m) /\ m.pend = None /\ View(m) = v /\ m.saved = <<>>
        /\ m.reg = [m1.reg EXCEPT !["RCX"] = tid]
    BY <1>3, <2>2, SetReg, Registers, SMTT(30)
  <2>. HIDE DEF m
  <2>4. m.reg["RCX"] = tid
    BY <2>2, <2>3 DEF Good, Cpu, Reg
  <2>5. /\ Good(opPush(n, "RAX")) /\ View(opPush(n, "RAX")) = Append(v, a)
        /\ opPush(n, "RAX").saved = <<>>
    BY <1>3, <2>3, SetPush, Registers
  <2>. HIDE DEF n
  <2>6. Good(cpu') /\ View(cpu') = Append(v, a) /\ cpu'.saved = <<>>
    BY <2>1, <2>5, FlushKeeps
  <2>7. Inv'
    BY <1>1, <2>1, <2>6, CpuStep
  <2>8. tid >= TagLimit /\ ~(tid < TagLimit)
    BY <1>3, <2>1, <2>4, IRAssumption
  <2>9. IR!Tostring
    BY <1>1, <1>4, <1>41, <2>1, <2>6, <2>8 DEF IR!TostringAt, IR!Push, a, tid
  <2>. QED BY <2>7, <2>9
<1>6. CASE TostringBox
  <2>. DEFINE m0 == Set(f, "RAX", a)  m1 == Set(m0, "RCX", tid)  mx == Set(m1, "RDX", x)
              m2 == opPush(mx, "RDX")  m3 == flush(popR(pushR(m2, "RCX"), "RCX"))
  <2>1. /\ a + 1 \in Addr /\ tid < TagLimit
        /\ \/ m3.reg["RCX"] = 1 /\ Enter(IntToString, flush(m3))
           \/ m3.reg["RCX"] = 2 /\ cpu' = Arrive(m3) /\ frames' = frames
           \/ m3.reg["RCX"] \in DOMAIN Stringer
              /\ Enter(Stringer[m3.reg["RCX"]], flush(m3))
           \/ /\ m3.reg["RCX"] \notin {1, 2} \cup DOMAIN Stringer
              /\ cpu' = NoString(m3)
              /\ frames' = frames
    BY <1>6 DEF TostringBox, jccRel32, callsite
  <2>2. x \in Word /\ x \in Value
    BY <1>3, <2>1 DEF Value
  <2>. HIDE DEF f, a, tid, x
  <2>3. /\ Good(m0) /\ m0.pend = None /\ View(m0) = v /\ m0.saved = <<>>
        /\ m0.reg = [f.reg EXCEPT !["RAX"] = a]
    BY <1>2, <1>3, SetReg, Registers, SMTT(30)
  <2>. HIDE DEF m0
  <2>4. /\ Good(m1) /\ m1.pend = None /\ View(m1) = v /\ m1.saved = <<>>
        /\ m1.reg = [m0.reg EXCEPT !["RCX"] = tid]
    BY <1>3, <2>3, SetReg, Registers, SMTT(30)
  <2>. HIDE DEF m1
  <2>5. /\ Good(mx) /\ mx.pend = None /\ View(mx) = v /\ mx.saved = <<>>
        /\ mx.reg = [m1.reg EXCEPT !["RDX"] = x]
    BY <2>2, <2>4, SetReg, Registers, SMTT(30)
  <2>. HIDE DEF mx
  <2>6. mx.reg["RCX"] = tid /\ mx.reg["RDX"] = x /\ mx.reg["RDX"] \in Word
    BY <2>2, <2>3, <2>4, <2>5 DEF Good, Cpu, Reg
  <2>61. /\ Good(opPush(mx, "RDX")) /\ View(opPush(mx, "RDX")) = Append(View(mx), mx.reg["RDX"])
         /\ opPush(mx, "RDX").saved = mx.saved /\ opPush(mx, "RDX").reg = mx.reg
    BY <2>5, <2>6, PushAppends, Registers
  <2>7. /\ Good(m2) /\ View(m2) = Append(v, x) /\ m2.saved = <<>> /\ m2.reg = mx.reg
    BY <2>5, <2>6, <2>61
  <2>. HIDE DEF m2
  <2>8. m3 = flush(m2)
    BY <2>7, PushPop, Registers
  <2>. HIDE DEF m3
  <2>9. /\ Good(m3) /\ m3.pend = None /\ View(m3) = Append(v, x) /\ m3.saved = <<>>
        /\ m3.reg["RCX"] = tid
    BY <2>6, <2>7, <2>8, FlushKeeps
  <2>10. /\ Good(flush(m3)) /\ flush(m3).pend = None /\ View(flush(m3)) = Append(v, x)
         /\ flush(m3).saved = <<>>
    BY <2>9, FlushKeeps
  <2>11. ~(tid >= TagLimit)
    BY <1>3, <2>1, IRAssumption
  <2>12. ASSUME NEW g \in Funcs, Enter(g, flush(m3))
         PROVE  Inv' /\ IR!Enter(g, Append(v, x))
    BY <1>1, <2>10, <2>12, EnterCalls
  <2>13. CASE tid = 1 /\ Enter(IntToString, flush(m3))
    <3>1. Inv' /\ IR!Enter(IntToString, Append(v, x))
      BY <2>12, <2>13, IRAssumption
    <3>. QED BY <1>1, <1>4, <1>41, <2>1, <2>11, <2>13, <3>1 DEF IR!TostringAt, a, tid, x
  <2>14. CASE tid = 2 /\ cpu' = Arrive(m3) /\ frames' = frames
    <3>1. Good(cpu') /\ View(cpu') = Append(v, x) /\ cpu'.saved = <<>>
      BY <2>9, <2>14, ArriveKeeps
    <3>2. Inv'
      BY <1>1, <2>14, <3>1, CpuStep
    <3>. QED BY <1>1, <1>4, <1>41, <2>1, <2>11, <2>14, <3>1, <3>2
         DEF IR!TostringAt, IR!Push, a, tid, x
  <2>15. CASE tid \in DOMAIN Stringer /\ Enter(Stringer[tid], flush(m3))
    <3>1. Stringer[tid] \in Funcs /\ tid # 1 /\ tid # 2
      BY <2>15, IRAssumption
    <3>2. Inv' /\ IR!Enter(Stringer[tid], Append(v, x))
      BY <2>12, <2>15, <3>1
    <3>. QED BY <1>1, <1>4, <1>41, <2>1, <2>11, <2>15, <3>1, <3>2 DEF IR!TostringAt, a, tid, x
  <2>16. CASE tid \notin {1, 2} \cup DOMAIN Stringer /\ cpu' = NoString(m3) /\ frames' = frames
    <3>. DEFINE d == opDrop(m3)  c == constI64(d, 0)
    <3>1. View(m3) # <<>> /\ Front(View(m3), 1) = v
      BY <2>2, <2>9, InvGood, AppendFacts
    <3>2. Good(d) /\ View(d) = v /\ d.saved = <<>>
      BY <2>9, <3>1, DropTakes
    <3>. HIDE DEF d
    <3>3. Good(c) /\ View(c) = Append(v, 0) /\ c.saved = <<>>
      <4>1. 0 \in Word
        BY IRAssumption DEF Word
      <4>. QED BY <3>2, <4>1, ConstI64Appends
    <3>. HIDE DEF c
    <3>4. Good(flush(c)) /\ flush(c).pend = None /\ View(flush(c)) = Append(v, 0)
          /\ flush(c).saved = <<>>
      BY <3>3, FlushKeeps
    <3>5. cpu' = flush(c)
      BY <2>16, <3>4, ArriveKeeps DEF NoString, c, d
    <3>6. Good(cpu') /\ View(cpu') = Append(v, 0) /\ cpu'.saved = <<>>
      BY <3>4, <3>5
    <3>7. Inv'
      BY <1>1, <2>16, <3>6, CpuStep
    <3>. QED BY <1>1, <1>4, <1>41, <2>1, <2>11, <2>16, <3>6, <3>7
         DEF IR!TostringAt, IR!Push, a, tid
  <2>. QED BY <2>1, <2>9, <2>13, <2>14, <2>15, <2>16
<1>. QED BY <1>1, <1>5, <1>6

-----------------------------------------------------------------------------
\* Dynamic calls

\* The receiver in place of the interface value, under n arguments.
LEMMA Replaced ==
  ASSUME NEW v \in Seq(Word), NEW x \in Word, NEW n \in ArgCounts, Len(v) >= n + 1
  PROVE  LET b == Append(Front(v, n + 1), x)
         IN  [v EXCEPT ![Len(v) - n] = x] =
               IF n = 0 THEN b
               ELSE IF n = 1 THEN Append(b, Peek(v, 0))
               ELSE Append(Append(b, Peek(v, 1)), Peek(v, 0))
<1>. DEFINE b == Append(Front(v, n + 1), x)  e == [v EXCEPT ![Len(v) - n] = x]
            t == IF n = 0 THEN b
                 ELSE IF n = 1 THEN Append(b, Peek(v, 0))
                 ELSE Append(Append(b, Peek(v, 1)), Peek(v, 0))
<1>1. n \in 0..2 /\ Len(v) \in Nat /\ Len(v) - n \in 1..Len(v) /\ n + 1 \in Nat
  BY DEF ArgCounts
<1>2. /\ Front(v, n + 1) \in Seq(Word) /\ Len(Front(v, n + 1)) = Len(v) - (n + 1)
      /\ \A i \in 1..Len(v)-(n + 1) : Front(v, n + 1)[i] = v[i]
  BY <1>1, FrontFacts
<1>3. /\ e \in Seq(Word) /\ Len(e) = Len(v)
      /\ \A i \in 1..Len(v) : e[i] = IF i = Len(v) - n THEN x ELSE v[i]
  BY <1>1
<1>4. b \in Seq(Word) /\ Len(b) = Len(v) - n
      /\ \A i \in 1..Len(v)-n : b[i] = IF i = Len(v) - n THEN x ELSE v[i]
  <2>. HIDE DEF e
  <2>1. /\ b \in Seq(Word) /\ Len(b) = Len(Front(v, n + 1)) + 1
        /\ b[Len(Front(v, n + 1)) + 1] = x
        /\ \A i \in 1..Len(Front(v, n + 1)) : b[i] = Front(v, n + 1)[i]
    BY <1>2
  <2>2. Len(Front(v, n + 1)) + 1 = Len(v) - n
    BY <1>1, <1>2
  <2>. HIDE DEF b
  <2>3. ASSUME NEW i \in 1..Len(v)-n
        PROVE  b[i] = IF i = Len(v) - n THEN x ELSE v[i]
    <3>1. CASE i = Len(v) - n
      BY <2>1, <2>2, <3>1
    <3>2. CASE i # Len(v) - n
      <4>1. i \in 1..Len(v)-(n + 1)
        BY <1>1, <3>2
      <4>. QED BY <1>2, <2>1, <3>2, <4>1
    <3>. QED BY <3>1, <3>2
  <2>. QED BY <2>1, <2>2, <2>3
<1>. HIDE DEF b, e
<1>5. CASE n = 0
  <2>1. \A i \in 1..Len(v) : b[i] = e[i]
    BY <1>1, <1>3, <1>4, <1>5
  <2>2. b = e
    BY <1>1, <1>3, <1>4, <1>5, <2>1, SeqEqual
  <2>. QED BY <1>5, <2>2 DEF b, e
<1>6. CASE n = 1
  <2>. DEFINE c == Append(b, Peek(v, 0))
  <2>1. v[Len(v)] \in Word /\ Peek(v, 0) = v[Len(v)]
    BY <1>1, <1>6 DEF Peek
  <2>2. c \in Seq(Word) /\ Len(c) = Len(v) /\ c[Len(v)] = v[Len(v)]
        /\ \A i \in 1..Len(v)-1 : c[i] = b[i]
    BY <1>1, <1>4, <1>6, <2>1
  <2>. HIDE DEF c
  <2>3. \A i \in 1..Len(v) : c[i] = e[i]
    BY <1>1, <1>3, <1>4, <1>6, <2>2
  <2>4. c = e
    BY <1>3, <2>2, <2>3, SeqEqual
  <2>. QED BY <1>6, <2>4 DEF b, e, c
<1>7. CASE n = 2
  <2>. DEFINE c == Append(b, Peek(v, 1))  d == Append(c, Peek(v, 0))
  <2>1. /\ v[Len(v)] \in Word /\ Peek(v, 0) = v[Len(v)]
        /\ v[Len(v)-1] \in Word /\ Peek(v, 1) = v[Len(v)-1]
    BY <1>1, <1>7 DEF Peek
  <2>2. c \in Seq(Word) /\ Len(c) = Len(v) - 1 /\ c[Len(v)-1] = v[Len(v)-1]
        /\ \A i \in 1..Len(v)-2 : c[i] = b[i]
    BY <1>1, <1>4, <1>7, <2>1
  <2>. HIDE DEF c
  <2>3. d \in Seq(Word) /\ Len(d) = Len(v) /\ d[Len(v)] = v[Len(v)]
        /\ \A i \in 1..Len(v)-1 : d[i] = c[i]
    BY <1>1, <2>1, <2>2
  <2>. HIDE DEF d
  <2>4. ASSUME NEW i \in 1..Len(v)
        PROVE  d[i] = e[i]
    <3>1. Len(v) - n = Len(v) - 2 /\ Len(v) >= 3
      BY <1>1, <1>7
    <3>2. CASE i = Len(v)
      BY <1>3, <2>1, <2>3, <3>1, <3>2
    <3>3. CASE i = Len(v) - 1
      BY <1>3, <2>1, <2>2, <2>3, <3>1, <3>3
    <3>4. CASE i \in 1..Len(v)-2
      <4>1. d[i] = c[i] /\ c[i] = b[i]
        BY <1>1, <2>2, <2>3, <3>4
      <4>2. b[i] = e[i]
        BY <1>1, <1>3, <1>4, <1>7, <3>4
      <4>. QED BY <4>1, <4>2
    <3>. QED BY <1>1, <3>2, <3>3, <3>4
  <2>5. d = e
    BY <1>3, <2>3, <2>4, SeqEqual
  <2>. QED BY <1>7, <2>5 DEF b, e, c, d
<1>. QED BY <1>1, <1>5, <1>6, <1>7

\* An argument taken back from the machine stack; RCX is left alone.
LEMMA RestoreArgKeeps ==
  ASSUME NEW m, Good(m), NEW S \in Seq(Word), NEW x \in Word, m.saved = Append(S, x)
  PROVE  /\ Good(RestoreArg(m)) /\ View(RestoreArg(m)) = Append(View(m), x)
         /\ RestoreArg(m).saved = S /\ RestoreArg(m).reg["RCX"] = m.reg["RCX"]
<1>. DEFINE f == flush(m)  p == popR(f, "RAX")
<1>1. Good(f) /\ f.pend = None /\ View(f) = View(m) /\ f.saved = Append(S, x)
      /\ f.reg = m.reg
  BY FlushKeeps
<1>2. Peek(Append(S, x), 0) = x /\ Front(Append(S, x), 1) = S
  BY AppendFacts
<1>. HIDE DEF f
<1>3. p = [f EXCEPT !.reg = [f.reg EXCEPT !["RAX"] = x], !.saved = S]
  BY <1>1, <1>2 DEF popR
<1>4. x \in Value
  BY DEF Value
<1>. HIDE DEF p
<1>5. /\ Good(p) /\ p.pend = None /\ View(p) = View(m) /\ p.saved = S
      /\ p.reg = [f.reg EXCEPT !["RAX"] = x]
  <2>1. f \in Cpu /\ f.pend = None /\ View(f) = f.mem
    BY <1>1 DEF Good, View
  <2>2. /\ p \in Cpu /\ p.pend = None /\ p.mem = f.mem /\ p.saved = S
        /\ p.reg = [f.reg EXCEPT !["RAX"] = x]
    BY <1>3, <1>4, <2>1, Registers DEF Cpu
  <2>. QED BY <1>1, <2>1, <2>2 DEF Good, View
<1>6. p.reg["RAX"] = x /\ p.reg["RCX"] = m.reg["RCX"] /\ p.reg["RAX"] \in Word
  BY <1>1, <1>5 DEF Good, Cpu, Reg
<1>7. /\ Good(opPush(p, "RAX")) /\ View(opPush(p, "RAX")) = Append(View(p), p.reg["RAX"])
      /\ opPush(p, "RAX").reg = p.reg /\ opPush(p, "RAX").saved = p.saved
  BY <1>5, <1>6, PushAppends, Registers
<1>8. RestoreArg(m) = opPush(p, "RAX")
  BY DEF RestoreArg, p, f
<1>. QED BY <1>5, <1>6, <1>7, <1>8

\* The operands as the dispatch finds them.
LEMMA IfaceArgsKeeps ==
  ASSUME Inv, ~halted, NEW n \in ArgCounts, Depth >= n + 1
  PROVE  LET v == View(cpu)
             p == opPop(SaveArgs(cpu, n), "RAX")
             box == p.reg["RAX"]
             m == IfaceArgs(cpu, n)
         IN  /\ Good(p) /\ View(p) = Front(v, n + 1) /\ box = Peek(v, n) /\ box \in Word
             /\ box \in BoxAddr =>
                  /\ Good(m) /\ m.saved = <<>>
                  /\ m.reg["RCX"] = heap[box]
                  /\ View(m) = [v EXCEPT ![Len(v) - n] = heap[box + 1]]
<1>. DEFINE v == View(cpu)  k == SaveArgs(cpu, n)  p == opPop(k, "RAX")  box == p.reg["RAX"]
            x == heap[box + 1]
            m2 == Set(p, "RCX", heap[box])  m3 == Set(m2, "RDX", x)  mp == opPush(m3, "RDX")
            m4 == RestoreArgs(mp, n)
            saved == IF n = 0 THEN <<>> ELSE IF n = 1 THEN <<Peek(v, 0)>>
                     ELSE <<Peek(v, 0), Peek(v, 1)>>
<1>1. /\ Good(cpu) /\ v \in Seq(Word) /\ cpu.saved = <<>> /\ Len(v) \in Nat
      /\ n \in Nat /\ n < Len(v) /\ Len(v) >= n /\ Len(v) >= n + 1
  BY InvGood DEF Depth, ArgCounts
<1>2. /\ Good(k) /\ View(k) = Front(v, n) /\ k.saved = saved
      /\ \A i \in 1..n : Peek(v, i - 1) \in Word
  BY <1>1, SaveArgsKeeps
<1>. HIDE DEF k, v
<1>3. /\ Front(v, n) # <<>> /\ Front(Front(v, n), 1) = Front(v, n + 1)
      /\ Peek(Front(v, n), 0) = Peek(v, n) /\ Peek(v, n) \in Word
      /\ Front(v, n + 1) \in Seq(Word)
  BY <1>1, FrontNext
<1>4. /\ Good(p) /\ p.pend = None /\ View(p) = Front(v, n + 1) /\ p.saved = saved
      /\ p.reg = [k.reg EXCEPT !["RAX"] = Peek(v, n)]
  <2>1. View(k) # <<>>
    BY <1>2, <1>3
  <2>2. /\ Good(p) /\ p.pend = None /\ View(p) = Front(View(k), 1) /\ p.saved = k.saved
        /\ p.reg = [k.reg EXCEPT !["RAX"] = Peek(View(k), 0)]
    BY <1>2, <2>1, PopTakesLast, Registers
  <2>. HIDE DEF p, saved
  <2>. QED BY <1>2, <1>3, <2>2
<1>. HIDE DEF p, saved
<1>5. box = Peek(v, n) /\ box \in Word
  BY <1>2, <1>3, <1>4 DEF Good, Cpu, Reg
<1>. HIDE DEF box
<1>6. ASSUME box \in BoxAddr
      PROVE  LET m == IfaceArgs(cpu, n)
             IN  /\ Good(m) /\ m.saved = <<>>
                 /\ m.reg["RCX"] = heap[box]
                 /\ View(m) = [v EXCEPT ![Len(v) - n] = heap[box + 1]]
  <2>1. /\ heap[box] \in Word /\ heap[box] \in Value /\ x \in Word /\ x \in Value
    <3>1. box \in Addr /\ box + 1 \in Addr
      BY <1>6, MemoryFacts
    <3>. QED BY <3>1 DEF Inv, TypeOK, Value
  <2>. HIDE DEF x
  <2>2. /\ Good(m2) /\ m2.pend = None /\ View(m2) = Front(v, n + 1) /\ m2.saved = saved
        /\ m2.reg = [p.reg EXCEPT !["RCX"] = heap[box]]
    BY <1>4, <2>1, SetReg, Registers, SMTT(30)
  <2>. HIDE DEF m2
  <2>3. /\ Good(m3) /\ m3.pend = None /\ View(m3) = Front(v, n + 1) /\ m3.saved = saved
        /\ m3.reg = [m2.reg EXCEPT !["RDX"] = x]
    BY <2>1, <2>2, SetReg, Registers, SMTT(30)
  <2>. HIDE DEF m3
  <2>4. m3.reg["RDX"] = x /\ m3.reg["RCX"] = heap[box] /\ m3.reg["RDX"] \in Word
    BY <1>4, <2>1, <2>2, <2>3 DEF Good, Cpu, Reg
  <2>5. /\ Good(mp) /\ View(mp) = Append(Front(v, n + 1), x) /\ mp.saved = saved
        /\ mp.reg = m3.reg
    BY <2>3, <2>4, PushAppends, Registers
  <2>. HIDE DEF mp
  <2>. DEFINE b == Append(Front(v, n + 1), x)
  <2>6. /\ Good(m4) /\ m4.saved = <<>> /\ m4.reg["RCX"] = heap[box]
        /\ View(m4) = IF n = 0 THEN b
                      ELSE IF n = 1 THEN Append(b, Peek(v, 0))
                      ELSE Append(Append(b, Peek(v, 1)), Peek(v, 0))
    <3>1. CASE n = 0
      BY <2>4, <2>5, <3>1 DEF RestoreArgs, saved
    <3>2. CASE n = 1
      <4>. DEFINE e == <<>>  y == Peek(v, 0)
      <4>1. saved = Append(e, y) /\ e \in Seq(Word) /\ y \in Word
        BY <1>2, <3>2 DEF saved
      <4>2. m4 = RestoreArg(mp)
        BY <3>2 DEF RestoreArgs
      <4>. HIDE DEF m4, e, y, b
      <4>3. mp.saved = Append(e, y)
        BY <2>5, <4>1
      <4>4. /\ Good(m4) /\ View(m4) = Append(View(mp), y) /\ m4.saved = e
            /\ m4.reg["RCX"] = mp.reg["RCX"]
        BY <2>5, <4>1, <4>2, <4>3, RestoreArgKeeps
      <4>. QED BY <2>4, <2>5, <3>2, <4>4 DEF e, y, b
    <3>3. CASE n = 2
      <4>. DEFINE e == <<>>  y == Peek(v, 0)  z == Peek(v, 1)  S == Append(e, y)
                  r == RestoreArg(mp)
      <4>1. y \in Word /\ z \in Word
        BY <1>2, <3>3
      <4>2. saved = Append(S, z) /\ S \in Seq(Word) /\ e \in Seq(Word)
        BY <3>3, <4>1 DEF saved
      <4>3. m4 = RestoreArg(r)
        BY <3>3 DEF RestoreArgs
      <4>. HIDE DEF m4, S, e, y, z, b
      <4>4. mp.saved = Append(S, z)
        BY <2>5, <4>2
      <4>5. /\ Good(r) /\ View(r) = Append(View(mp), z) /\ r.saved = S
            /\ r.reg["RCX"] = mp.reg["RCX"]
        BY <2>5, <4>1, <4>2, <4>4, RestoreArgKeeps
      <4>. HIDE DEF r
      <4>6. r.saved = Append(e, y)
        BY <4>5 DEF S
      <4>7. /\ Good(m4) /\ View(m4) = Append(View(r), y) /\ m4.saved = e
            /\ m4.reg["RCX"] = r.reg["RCX"]
        BY <4>1, <4>2, <4>3, <4>5, <4>6, RestoreArgKeeps
      <4>. QED BY <2>4, <2>5, <3>3, <4>5, <4>7 DEF e, y, z, b
    <3>. QED BY <3>1, <3>2, <3>3 DEF ArgCounts
  <2>7. View(m4) = [v EXCEPT ![Len(v) - n] = x]
    <3>. HIDE DEF m4
    <3>1. [v EXCEPT ![Len(v) - n] = x] =
            IF n = 0 THEN b
            ELSE IF n = 1 THEN Append(b, Peek(v, 0))
            ELSE Append(Append(b, Peek(v, 1)), Peek(v, 0))
      BY <1>1, <2>1, Replaced
    <3>. QED BY <2>6, <3>1
  <2>8. IfaceArgs(cpu, n) = popR(pushR(m4, "RCX"), "RCX")
    <3>1. m3.reg["RDX"] = x /\ heap[m2.reg["RAX"] + 1] = x
      <4>1. m2.reg["RAX"] = box
        BY <1>4, <2>2 DEF Good, Cpu, Reg, box
      <4>. QED BY <2>4, <4>1 DEF x
    <3>. QED BY <3>1 DEF IfaceArgs, m4, mp, m3, m2, p, k, box
  <2>. HIDE DEF m4
  <2>9. IfaceArgs(cpu, n) = m4
    BY <2>6, <2>8, PushPop, Registers
  <2>. QED BY <2>6, <2>7, <2>9 DEF x
<1>. QED BY <1>4, <1>5, <1>6 DEF v, k, p, box

LEMMA StepIfaceCall ==
  ASSUME Inv, ~halted, NEW n \in ArgCounts, compileIfaceCall(n)
  PROVE  Inv' /\ IR!IfaceCall(n)
<1>. DEFINE v == View(cpu)  box == opPop(SaveArgs(cpu, n), "RAX").reg["RAX"]
            m == IfaceArgs(cpu, n)  tid == m.reg["RCX"]
            s == [v EXCEPT ![Len(v) - n] = heap[box + 1]]
<1>1. /\ Depth >= n + 1 /\ box \in BoxAddr /\ tid \in DOMAIN Method
      /\ Arity[Method[tid]] = n + 1
      /\ \E first \in DOMAIN Method : Enter(Method[tid], Dispatch(m, first))
      /\ UNCHANGED <<glob, heap, brk, halted>>
  BY DEF compileIfaceCall
<1>2. /\ box = Peek(v, n) /\ Good(m) /\ m.saved = <<>> /\ tid = heap[box] /\ View(m) = s
  BY <1>1, IfaceArgsKeeps
<1>. HIDE DEF m, box, v
<1>3. PICK first \in DOMAIN Method : Enter(Method[tid], Dispatch(m, first))
  BY <1>1
<1>. DEFINE j == flush(m)  d == Dispatch(m, first)
<1>4. Good(j) /\ j.pend = None /\ View(j) = s /\ j.saved = <<>>
  BY <1>2, FlushKeeps
<1>5. d = flush(j) \/ d = Arrive(j)
  BY DEF Dispatch, jccRel32, callsite
<1>. HIDE DEF j, d, s
<1>6. Good(d) /\ d.pend = None /\ View(d) = s /\ d.saved = <<>>
  BY <1>4, <1>5, FlushKeeps, ArriveKeeps
<1>7. Method[tid] \in Funcs /\ Enter(Method[tid], d)
  BY <1>1, <1>3, IRAssumption DEF d
<1>8. Inv' /\ IR!Enter(Method[tid], s)
  BY <1>1, <1>6, <1>7, EnterCalls
<1>9. IR!IfaceCall(n)
  BY <1>1, <1>2, <1>8, MemoryFacts DEF IR!IfaceCall, IR!Peek, Peek, IR!Has, Depth, v, s
<1>. QED BY <1>8, <1>9

LEMMA StepIfaceCallFails ==
  ASSUME Inv, ~halted, NEW n \in ArgCounts, compileIfaceCallFails(n)
  PROVE  Inv' /\ IR!IfaceCallFails(n)
<1>. DEFINE v == View(cpu)  m == opPop(SaveArgs(cpu, n), "RAX")  box == m.reg["RAX"]
<1>1. /\ Depth >= n + 1
      /\ box = 0 \/ (box \in BoxAddr /\ heap[box] \notin DOMAIN Method)
      /\ cpu' = m /\ halted' = TRUE /\ UNCHANGED <<frames, glob, heap, brk>>
  BY DEF compileIfaceCallFails
<1>2. Good(m) /\ View(m) = Front(v, n + 1) /\ box = Peek(v, n)
  BY <1>1, IfaceArgsKeeps
<1>. HIDE DEF m
<1>3. Inv'
  BY <1>1, <1>2 DEF Inv, TypeOK, PendingIsOperand, MachineStackBalanced, Good
<1>4. IR!IfaceCallFails(n)
  BY <1>1, <1>2, MemoryFacts DEF IR!IfaceCallFails, IR!Has, IR!Peek, Peek, IR!Front, Front, Depth
<1>. QED BY <1>3, <1>4

-----------------------------------------------------------------------------
\* The theorems

LEMMA InitInv == Init => Inv
<1>. SUFFICES ASSUME Init PROVE Inv
  OBVIOUS
<1>. DEFINE e == <<>>
            l == [i \in Slots |-> 0]
            fr == [fn |-> Main, loc |-> l]
<1>1. e \in Seq(Word)
  OBVIOUS
<1>2. fr \in Frame
  BY IRAssumption DEF Frame, Slots, Word
<1>3. frames = <<fr>>
  BY DEF Init
<1>. HIDE DEF fr
<1>4. frames \in Seq(Frame) /\ frames # <<>>
  BY <1>2, <1>3
<1>5. cpu = [mem |-> e, reg |-> [r \in Reg |-> Junk], pend |-> None, saved |-> e]
  BY DEF Init
<1>. HIDE DEF e
<1>6. cpu \in Cpu /\ cpu.pend = None /\ cpu.saved = e
  BY <1>1, <1>5 DEF Cpu, Value
<1>7. /\ glob \in Word /\ heap \in [Addr -> Word] /\ brk \in Low..Top
      /\ halted \in BOOLEAN
  <2>1. MaxWord \in Nat /\ MemSize \in Nat /\ Low \in Nat
    BY IRAssumption
  <2>2. 0 \in Word /\ Low \in Low..Top
    BY <2>1 DEF Word, Top
  <2>. QED BY <2>2 DEF Init
<1>8. cpu.saved = <<>>
  BY <1>6 DEF e
<1>. QED BY <1>4, <1>6, <1>7, <1>8 DEF Inv, TypeOK, PendingIsOperand, MachineStackBalanced

\* A program that is killed leaves everything as it was.
LEMMA FaultKeeps ==
  ASSUME Inv, Faults
  PROVE  Inv'
<1>1. Killed
  BY DEF Faults, compileStoreFaults, compileIndexAddrFaults, compileReadPtrFaults,
         compileWritePtrFaults, compileTostringFaults
<1>. QED BY <1>1 DEF Killed, Inv, TypeOK, PendingIsOperand, MachineStackBalanced

\* One opcode: the invariant again, and a step of the stack machine or a fault.
LEMMA StepSound ==
  ASSUME Inv, ~halted, compileInst
  PROVE  Inv' /\ (IR!Step \/ Faults \/ UNCHANGED IR!vars)
<1>. DEFINE Goal == Inv' /\ (IR!Step \/ Faults \/ UNCHANGED IR!vars)
<1>. SUFFICES Goal
  OBVIOUS
<1>0. CASE Faults
  BY <1>0, FaultKeeps
<1>1. ASSUME NEW v \in Consts, "CONST" \in Ops, compileConst(v) PROVE Goal
  BY <1>1, StepConst DEF IR!Step
<1>2. ASSUME NEW i \in Slots, "LOCAL" \in Ops, compileLocalGet(i) \/ compileLocalSet(i)
      PROVE  Goal
  <2>1. Inv' /\ (IR!LocalGet(i) \/ IR!LocalSet(i))
    BY <1>2, StepLocalGet, StepLocalSet
  <2>2. i \in IR!Slots
    BY DEF IR!Slots, Slots
  <2>. QED BY <1>2, <2>1, <2>2 DEF IR!Step
<1>3. CASE "GLOBAL" \in Ops /\ (compileGlobalGet \/ compileGlobalSet)
  BY <1>3, StepGlobalGet, StepGlobalSet DEF IR!Step
<1>4. CASE "DROP" \in Ops /\ compileDrop
  BY <1>4, StepDrop DEF IR!Step
<1>5. CASE "DUP" \in Ops /\ compileDup
  BY <1>5, StepDup DEF IR!Step
<1>6. ASSUME NEW op \in BinOps \cap Ops, compileBinOp(op) PROVE Goal
  BY <1>6, StepBinOp DEF IR!Step
<1>7. ASSUME NEW op \in UnOps \cap Ops, compileUnOp(op) PROVE Goal
  BY <1>7, StepUnOp DEF IR!Step
<1>8. CASE compileLabel
  BY <1>8, StepLabel DEF IR!vars
<1>9. CASE compileJmp
  BY <1>9, StepJmp DEF IR!vars
<1>10. CASE "JMP_IF" \in Ops /\ compileJmpIf
  BY <1>10, StepJmpIf DEF IR!Step
<1>11. ASSUME NEW f \in Funcs, "CALL" \in Ops, compileCall(f) PROVE Goal
  BY <1>11, StepCall DEF IR!Step
<1>12. CASE "RETURN" \in Ops /\ compileReturn
  BY <1>12, StepReturn DEF IR!Step
<1>13. ASSUME NEW n \in ArgCounts, "IFACE_CALL" \in Ops,
              compileIfaceCall(n) \/ compileIfaceCallFails(n)
       PROVE  Goal
  BY <1>13, StepIfaceCall, StepIfaceCallFails DEF IR!Step, IR!ArgCounts, ArgCounts
<1>14. CASE "PANIC" \in Ops /\ compilePanic
  BY <1>14, StepPanic DEF IR!Step
<1>15. CASE "LOAD" \in Ops /\ compileLoad
  BY <1>15, StepLoad DEF IR!Step
<1>16. CASE "STORE" \in Ops /\ compileStore
  BY <1>16, StepStore DEF IR!Step
<1>17. ASSUME NEW k \in 1..2, "LEN" \in Ops, compileHeaderWord(k) PROVE Goal
  BY <1>17, StepHeaderWord DEF IR!Step
<1>18. CASE "INDEX" \in Ops /\ compileIndexAddr
  BY <1>18, StepIndexAddr DEF IR!Step
<1>19. ASSUME NEW n \in 1..2, "COMPOSITE" \in Ops, compileCompositeLitCall(n) PROVE Goal
  BY <1>19, StepComposite DEF IR!Step
<1>20. ASSUME NEW t \in DOMAIN Method, "IFACE_BOX" \in Ops, compileIfaceBox(t) PROVE Goal
  BY <1>20, StepIfaceBox DEF IR!Step
<1>21. CASE "POINTER" \in Ops /\ (compileReadPtr \/ compileWritePtr)
  BY <1>21, StepReadPtr, StepWritePtr DEF IR!Step
<1>22. CASE "HEADER" \in Ops /\ (compileMakestring \/ compileMakeslice)
  BY <1>22, StepMakestring, StepMakeslice DEF IR!Step
<1>23. CASE "TOSTRING" \in Ops /\ compileTostring
  BY <1>23, StepTostring DEF IR!Step
<1>24. ASSUME NEW neg \in BOOLEAN, NEW ret \in Consts, NEW rdx \in Consts,
              "SYSCALL" \in Ops, compileSyscall(neg, ret, rdx)
       PROVE  Goal
  <2>. DEFINE r1 == IF neg THEN 0 ELSE ret  err == IF neg THEN ret ELSE 0
  <2>1. Inv' /\ IR!Syscall(r1, rdx, err)
    BY <1>24, StepSyscall
  <2>2. r1 \in Consts \cup {0} /\ rdx \in Consts \cup {0} /\ err \in Consts \cup {0}
    OBVIOUS
  <2>. HIDE DEF r1, err
  <2>. QED BY <1>24, <2>1, <2>2 DEF IR!Step
<1>. HIDE DEF Goal
<1>. QED
  BY <1>0, <1>1, <1>2, <1>3, <1>4, <1>5, <1>6, <1>7, <1>8, <1>9, <1>10, <1>11, <1>12,
     <1>13, <1>14, <1>15, <1>16, <1>17, <1>18, <1>19, <1>20, <1>21, <1>22, <1>23,
     <1>24 DEF compileInst

\* Whatever program runs, a register that stands for the top of the operand
\* stack holds that operand, and every opcode leaves the machine stack of a
\* live program as it found it: the code of compileInst (backend_x64.go) and
\* the bookkeeping of opPush, opPop and flush (backend.go) agree.
THEOREM X64Invariant == Spec => [](TypeOK /\ PendingIsOperand /\ MachineStackBalanced)
<1>1. Init => Inv
  BY InitInv
<1>2. Inv /\ [Next]_vars => Inv'
  <2>1. ASSUME Inv, Next PROVE Inv'
    BY <2>1, StepSound DEF Next
  <2>2. ASSUME Inv, UNCHANGED vars PROVE Inv'
    BY <2>2 DEF Inv, TypeOK, PendingIsOperand, MachineStackBalanced, vars, Locals
  <2>. QED BY <2>1, <2>2
<1>. QED BY <1>1, <1>2, PTL DEF Spec, Inv

\* The machine's registers, frames and memory keep their types, whatever code runs.
THEOREM X64TypeCorrect == Spec => []TypeOK
BY X64Invariant, PTL

\* Between the opcodes of a live program nothing is left on the machine stack:
\* each takes off what it put there around its calls (compileInst,
\* backend_x64.go), whichever branch of a dispatch it took.
THEOREM X64StackBalanced == Spec => []MachineStackBalanced
BY X64Invariant, PTL

\* The code generated for x86-64 implements the stack machine: the operands in
\* memory with the pending register on top are the machine's stack, whichever
\* pushes were put off or dropped, at joins, in calls, dynamic calls and
\* allocations.  The exception is Faults: the store, the index, the intrinsic
\* through nil, and Tostring of a small number, where the code is killed and the
\* interpreter (backend_vm.go) has an answer.
THEOREM X64ImplementsIR == Spec => ImplementsIR
<1>1. Init => IR!Init
  <2>. SUFFICES ASSUME Init PROVE IR!Init
    OBVIOUS
  <2>1. View(cpu) = <<>>
    BY DEF Init, View
  <2>. QED BY <2>1 DEF Init, IR!Init, IR!Slots, Slots, IR!Addr, Addr,
                    IR!Top, Top
<1>2. Inv /\ [Next]_vars => [IR!Next \/ (~halted /\ Faults)]_(IR!vars)
  <2>1. ASSUME Inv, Next PROVE IR!Next \/ (~halted /\ Faults) \/ UNCHANGED IR!vars
    BY <2>1, StepSound DEF Next, IR!Next
  <2>2. ASSUME UNCHANGED vars PROVE UNCHANGED IR!vars
    BY <2>2 DEF vars, IR!vars, View
  <2>. QED BY <2>1, <2>2
<1>3. Spec => []Inv
  BY X64Invariant DEF Inv
<1>. QED BY <1>1, <1>2, <1>3, PTL DEF Spec, ImplementsIR
=============================================================================
