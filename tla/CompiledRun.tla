---------------------------- MODULE CompiledRun ----------------------------
(***************************************************************************)
(* A compiled program running: the code of Lowering executed instruction   *)
(* by instruction, and compared with what the source means.  A behaviour   *)
(* picks a compiled program and a target and runs the globals'             *)
(* initialisers, then main.                                                *)
(*                                                                         *)
(* Target "vm" is VM.execFunc of std/compiler/backend_vm.go.  Target       *)
(* "wasm32" is what std/compiler/backend_wasm32.go makes of an instruction *)
(* in the code that WasmCode structures: no 64-bit values here, so that    *)
(* every operand is an i32.  Its operations know no width, a division by   *)
(* zero traps, a frame is not cleared and has no limit, and a temporary    *)
(* local of each call holds the operand of the last instruction that moved *)
(* one through it.                                                         *)
(*                                                                         *)
(* Memory has a cell per address; a word lies in the cell of its first     *)
(* byte.  Globals, heap and the stack of frames (which grows down) are     *)
(* regions of it.  The runtime's functions are single steps here (their    *)
(* steps are those of RuntimeSlice and RuntimeMap), a map is a table under *)
(* its header's address, and characters are bytes.                         *)
(***************************************************************************)
EXTENDS Instructions

CONSTANTS
  Programs,  \* the Compilations of the programs
  GlobalsBase, HeapBase, FrameBase, FrameTop,  \* the regions of memory
  BitAnd(_, _), BitOr(_, _), BitXor(_, _)      \* the words' bit operations

ASSUME RegionsInOrder ==
  /\ {GlobalsBase, HeapBase, FrameBase, FrameTop} \subseteq Nat
  /\ 256 <= GlobalsBase /\ GlobalsBase < HeapBase /\ HeapBase < FrameBase /\ FrameBase < FrameTop

VARIABLES
  target,  \* "vm", "wasm32"
  prog,    \* the program
  stk,     \* the operand stack
  calls,   \* the active calls: function, next instruction, address of the locals,
           \* height of stk below; open blocks, temporary local and words held
           \* above the frame (wasm32)
  frameStackTop,
  h,       \* the heap: mem, brk, the tables of maps, the interned strings
  tr,      \* what it put out
  status   \* "init", "run", "exited", "died", "overflow"

picked == <<target, prog>>
vars == <<picked, stk, calls, frameStackTop, h, tr, status>>

-----------------------------------------------------------------------------
(* Memory                                                                  *)

loadWord(m, a) == IF a \in DOMAIN m THEN m[a] ELSE 0
widthMask(v, width) == IF width = 1 THEN v % ByteMod ELSE v
\* A byte is signed in an operation on bytes.
signExtendW(v, width) == IF width = 1 /\ v >= ByteMod \div 2 THEN v - ByteMod ELSE v

Alloc(g, n) == [g EXCEPT !.brk = @ + n + (n % W)]
PutWord(g, a, v) == [g EXCEPT !.mem = Put(@, a, v)]
PutWords(g, a, vs) ==
  [g EXCEPT !.mem = [x \in {a + (i - 1) * W : i \in DOMAIN vs} |-> vs[(x - a) \div W + 1]] @@ @]
PutBytes(g, a, vs) ==
  [g EXCEPT !.mem = [x \in a..a + Len(vs) - 1 |-> vs[x - a + 1]] @@ @]

\* New cells with vs at their start, n bytes of them: the heap and the address.
NewWords(g, vs, n) == [g |-> PutWords(Alloc(g, n), g.brk, vs), at |-> g.brk]
Makestring(g, p, n) == NewWords(g, <<p, n>>, 2 * W)
StringPtr(g, s) == IF s = 0 THEN 0 ELSE loadWord(g.mem, s)
StringLen(g, s) == IF s = 0 THEN 0 ELSE loadWord(g.mem, s + W)
Chars(g, s) == [i \in 1..StringLen(g, s) |-> loadWord(g.mem, StringPtr(g, s) + i - 1)]
NewString(g, cs) == Makestring(PutBytes(Alloc(g, Len(cs)), g.brk, cs), g.brk, Len(cs))
internString(g, cs) ==
  IF cs \in DOMAIN g.strs THEN [g |-> g, at |-> g.strs[cs]]
  ELSE LET n == NewString(g, cs) IN [n EXCEPT !.g.strs = Put(@, cs, n.at)]

\* A slice's header: data, length, capacity, size of an element.
Hdr(g, s) == IF s = 0 THEN <<0, 0, 0, 0>> ELSE [k \in 1..4 |-> loadWord(g.mem, s + (k - 1) * W)]
NewHdr(g, data, len, cap, esz) == NewWords(g, <<data, len, cap, esz>>, 4 * W)
Elems(g, x) == [i \in 1..x[2] |-> loadWord(g.mem, x[1] + (i - 1) * x[4])]
PutElems(g, a, esz, vs) ==
  IF esz = 1 THEN PutBytes(g, a, [i \in DOMAIN vs |-> vs[i] % ByteMod]) ELSE PutWords(g, a, vs)
SliceMakeCap(g, n, cap, esz) ==
  LET data == IF cap = 0 THEN 0 ELSE g.brk
      g1 == PutElems(Alloc(g, cap * esz), g.brk, esz, [i \in 1..cap |-> 0])
  IN  NewHdr(g1, data, n, cap, esz)

\* Appending vs in place to the slice at s; without room the data move to an
\* array of cap elements first.  A nil slice gets a header and an array.
Ensured(g, s, cap, esz) == IF s = 0 THEN SliceMakeCap(g, 0, cap, esz) ELSE [g |-> g, at |-> s]
Moved(g, s, cap) ==
  LET x == Hdr(g, s)
      g1 == PutElems(Alloc(g, cap * x[4]), g.brk, x[4], Elems(g, x))
  IN  PutWords(g1, s, <<g.brk, x[2], cap>>)
Appended(g, s, vs, cap) ==
  LET x == Hdr(g, s)
      n == x[2] + Len(vs)
      g1 == IF n > x[3] THEN Moved(g, s, cap) ELSE g
      g2 == PutElems(g1, loadWord(g1.mem, s) + x[2] * x[4], x[4], vs)
  IN  [g |-> PutWord(g2, s + W, n), at |-> s]
SliceAppend(g, s, v, esz) ==
  LET e == Ensured(g, s, 8, esz)
      cap == Hdr(e.g, e.at)[3]
  IN  Appended(e.g, e.at, <<v>>, IF cap = 0 THEN 8 ELSE 2 * cap)
SliceAppendSlice(g, s, src) ==
  LET y == Hdr(g, src)
      e == Ensured(g, s, y[2], y[4])
      x == Hdr(e.g, e.at)
      cap == IF 2 * x[3] < x[2] + y[2] THEN x[2] + y[2] ELSE 2 * x[3]
  IN  IF y[2] = 0 THEN [g |-> g, at |-> s] ELSE Appended(e.g, e.at, Elems(g, y), cap)
SliceReslice(g, s, low, high) ==
  LET x == Hdr(g, s)
  IN  IF s = 0 THEN [g |-> g, at |-> 0]
      ELSE NewHdr(g, x[1] + low * x[4], high - low, x[3] - low, x[4])
SliceCopy(g, d, s) ==
  LET x == Hdr(g, d)
      y == Hdr(g, s)
      n == IF x[2] < y[2] THEN x[2] ELSE y[2]
  IN  [g |-> PutElems(g, x[1], x[4], SubSeq(Elems(g, y), 1, n)), at |-> n]

\* The table of the map at m; keys of kind 1 are strings.
Table(g, m) == IF m = 0 THEN [kind |-> 0, entries |-> <<>>] ELSE g.tabs[m]
KeyOf(g, t, k) == IF t.kind = 1 THEN Chars(g, k) ELSE k
EntriesWith(g, t, k) == {i \in DOMAIN t.entries : KeyOf(g, t, t.entries[i][1]) = KeyOf(g, t, k)}
MapMake(g, kind) ==
  [g |-> [Alloc(g, 4 * W) EXCEPT !.tabs = Put(@, g.brk, [kind |-> kind, entries |-> <<>>])],
   at |-> g.brk]
MapSet(g0, m0, k, v) ==
  LET made == MapMake(g0, 0)
      g == IF m0 = 0 THEN made.g ELSE g0
      m == IF m0 = 0 THEN made.at ELSE m0
      at == EntriesWith(g, Table(g, m), k)
  IN  [g |-> [g EXCEPT !.tabs[m].entries =
                IF at = {} THEN Append(@, <<k, v>>) ELSE [@ EXCEPT ![CHOOSE i \in at : TRUE][2] = v]],
       at |-> m]
MapDelete(g, m, k) ==
  LET at == EntriesWith(g, Table(g, m), k)
  IN  IF m = 0 THEN g
      ELSE [g EXCEPT !.tabs[m].entries = IF at = {} THEN @ ELSE RemoveAt(@, CHOOSE i \in at : TRUE)]

\* What a runtime function does with the arguments args: the heap after it and
\* what it leaves on the stack.
Runtime(name, args, g) ==
  LET One(r) == [g |-> r.g, out |-> <<r.at>>]
      Just(v) == [g |-> g, out |-> <<v>>]
      t == Table(g, args[1])
      at == EntriesWith(g, t, args[2])
  IN  CASE name = "runtime.Alloc" -> [g |-> Alloc(g, args[1]), out |-> <<g.brk>>]
        [] name = "runtime.Memzero" ->
             [g |-> PutWords(g, args[1], [i \in 1..args[2] \div W |-> 0]), out |-> <<>>]
        [] name = "builtin.composite" ->
             IF args = <<>> THEN Just(0) ELSE One(NewWords(g, args, Len(args) * W))
        [] name = "runtime.StringConcat" -> One(NewString(g, Chars(g, args[1]) \o Chars(g, args[2])))
        [] name = "runtime.StringEqual" -> Just(IF Chars(g, args[1]) = Chars(g, args[2]) THEN 1 ELSE 0)
        [] name = "runtime.StringSlice" ->
             IF args[3] <= args[2] THEN One(Makestring(g, 0, 0))
             ELSE One(Makestring(g, StringPtr(g, args[1]) + args[2], args[3] - args[2]))
        [] name = "runtime.ByteToString" -> One(NewString(g, <<args[1] % ByteMod>>))
        [] name = "runtime.BytesToString" -> One(NewString(g, Chars(g, args[1])))
        [] name = "runtime.SliceMake" -> One(SliceMakeCap(g, args[1], args[1], args[2]))
        [] name = "runtime.SliceMakeCap" -> One(SliceMakeCap(g, args[1], args[2], args[3]))
        [] name = "runtime.SliceAppend" -> One(SliceAppend(g, args[1], args[2], args[3]))
        [] name = "runtime.SliceAppendSlice" -> One(SliceAppendSlice(g, args[1], args[2]))
        [] name = "runtime.SliceReslice" -> One(SliceReslice(g, args[1], args[2], args[3]))
        [] name = "runtime.SliceCopy" -> One(SliceCopy(g, args[1], args[2]))
        [] name = "runtime.MapMake" -> One(MapMake(g, args[1]))
        [] name = "runtime.MapSet" -> One(MapSet(g, args[1], args[2], args[3]))
        [] name = "runtime.MapDelete" -> [g |-> MapDelete(g, args[1], args[2]), out |-> <<>>]
        [] name = "runtime.MapLen" -> Just(Len(t.entries))
        [] name = "runtime.MapEntryKey" -> Just(t.entries[args[2] + 1][1])
        [] name = "runtime.MapEntryValue" -> Just(t.entries[args[2] + 1][2])
        [] name = "runtime.MapGet" ->
             [g |-> g, out |-> IF at = {} THEN <<0, 0>> ELSE <<t.entries[CHOOSE i \in at : TRUE][2], 1>>]

-----------------------------------------------------------------------------
(* The instruction that is next                                            *)

FuncsOf(t, p) == IF t = "vm" THEN p.vm ELSE p.wasm32.funcs
Funcs == FuncsOf(target, Programs[prog])
Top == calls[Len(calls)]
Raw == Funcs[Top.fn].code[Top.ip]
Instr == IF target = "vm" THEN Raw ELSE [Raw EXCEPT !.width = 0]
Running == status \in {"init", "run"}
Is(ops) == Running /\ Instr.op \in ops
Rest(k) == SubSeq(stk, 1, Len(stk) - k)
Peek(k) == stk[Len(stk) - k]
Args(k) == SubSeq(stk, Len(stk) - k + 1, Len(stk))

\* The temporary local after the instruction: the value or the address that
\* goes through it, the address of a new block, the receiver.
SavesValue == {"DUP", "LOCAL_SET", "GLOBAL_SET", "NEG", "IFACE_BOX"}
SavesAddress == {"LOAD", "STORE", "INDEX_ADDR", "LEN", "CAP"}
CompositeAt == IF Instr.arg = 0 THEN Top.temp ELSE h.brk
Receiver == loadWord(h.mem, Peek(Instr.arg) + W)
Temp == CASE Instr.op \in SavesValue \cup SavesAddress -> Peek(0)
          [] Instr.op = "IFACE_CALL" -> Receiver
          [] Instr.name = "builtin.composite" -> CompositeAt
          [] OTHER -> Top.temp
MovedTo(i) == [calls EXCEPT ![Len(calls)] =
             [@ EXCEPT !.ip = i, !.temp = IF target = "vm" THEN 0 ELSE Temp]]
Goto(i) == calls' = MovedTo(i)
Continue == Goto(Top.ip + 1)
LabelAt(code, l) == CHOOSE i \in DOMAIN code : code[i].op = "LABEL" /\ code[i].arg = l
labels(l) == LabelAt(Funcs[Top.fn].code, l)
LocalAt(i) == Top.locals + i * W

\* A frame for a call of f whose arguments are on top of the stack s; its
\* locals are cleared (not on wasm32), then the arguments stored in the first
\* of them.  The VM stops a program for whose frame there is no room; on wasm32
\* a dynamic call keeps the receiver and the arguments above the frame.
frameSize(f) == LET n == IF Funcs[f].slots > Funcs[f].params THEN Funcs[f].slots ELSE Funcs[f].params
                IN  IF n = 0 /\ target = "vm" THEN 1 ELSE n
Stored(f) == IF target = "vm" THEN frameSize(f) ELSE Funcs[f].params
NewCall(f, at, base, held) ==
  [fn |-> f, ip |-> 1, locals |-> at, base |-> base, ctrl |-> <<>>, temp |-> 0, held |-> held]
Held(n) == IF target = "wasm32" /\ Instr.op = "IFACE_CALL" THEN n ELSE 0
FrameFor(f, active, s, g) ==
  LET n == Funcs[f].params
      held == Held(n)
      at == frameStackTop - (frameSize(f) + held) * W
  IN  IF at < FrameBase /\ target = "vm"
      THEN status' = "overflow" /\ stk' = s /\ UNCHANGED <<calls, frameStackTop, h>>
      ELSE /\ frameStackTop' = at
           /\ calls' = Append(active, NewCall(f, at, Len(s) - n, held))
           /\ h' = PutWords(g, at, [i \in 1..Stored(f) |-> IF i <= n THEN s[Len(s) - n + i] ELSE 0])
           /\ stk' = SubSeq(s, 1, Len(s) - n)
           /\ status' = status
Returning == MovedTo(Top.ip + 1)

Died == status' = "died" /\ UNCHANGED <<calls, frameStackTop, h>>

-----------------------------------------------------------------------------
(* Instructions                                                            *)

Constant ==
  LET s == internString(h, Instr.name)
  IN  /\ Is({"CONST_I64", "CONST_BOOL", "CONST_NIL", "CONST_STR"})
      /\ IF Instr.op = "CONST_STR"
         THEN h' = s.g /\ stk' = Append(stk, s.at)
         ELSE h' = h /\ stk' = Append(stk, Instr.arg)
      /\ Continue
      /\ UNCHANGED <<picked, frameStackTop, tr, status>>

VariableAt == IF Instr.op \in {"LOCAL_GET", "LOCAL_SET", "LOCAL_ADDR"}
              THEN LocalAt(Instr.arg) ELSE GlobalsBase + (Instr.arg - 1) * W
Get ==
  /\ Is({"LOCAL_GET", "GLOBAL_GET", "LOCAL_ADDR", "GLOBAL_ADDR"})
  /\ stk' = Append(stk, IF Instr.op \in {"LOCAL_ADDR", "GLOBAL_ADDR"} THEN VariableAt
                        ELSE widthMask(loadWord(h.mem, VariableAt), Instr.width))
  /\ Continue
  /\ UNCHANGED <<picked, frameStackTop, h, tr, status>>
SetVariable ==
  /\ Is({"LOCAL_SET", "GLOBAL_SET"})
  /\ h' = PutWord(h, VariableAt, widthMask(Peek(0), Instr.width))
  /\ stk' = Rest(1)
  /\ Continue
  /\ UNCHANGED <<picked, frameStackTop, tr, status>>

DropOrDup ==
  /\ Is({"DROP", "DUP"})
  /\ stk' = IF Instr.op = "DROP" THEN Rest(1) ELSE Append(stk, Peek(0))
  /\ Continue
  /\ UNCHANGED <<picked, frameStackTop, h, tr, status>>

Bit(b) == IF b THEN 1 ELSE 0
DivTowardsZero(a, b) ==
  LET q == (IF a < 0 THEN -a ELSE a) \div (IF b < 0 THEN -b ELSE b)
  IN  IF (a < 0) = (b < 0) THEN q ELSE -q
Computed(i, c, a) ==
  LET sc == signExtendW(c, i.width)
      sa == signExtendW(a, i.width)
  IN  CASE i.op = "ADD" -> widthMask(c + a, i.width)
        [] i.op = "SUB" -> widthMask(c - a, i.width)
        [] i.op = "MUL" -> widthMask(sc * sa, i.width)
        [] i.op = "DIV" -> IF a = 0 THEN 0 ELSE widthMask(DivTowardsZero(sc, sa), i.width)
        [] i.op = "MOD" -> IF a = 0 THEN 0 ELSE widthMask(sc - sa * DivTowardsZero(sc, sa), i.width)
        [] i.op = "EQ" -> Bit(sc = sa)
        [] i.op = "NEQ" -> Bit(sc # sa)
        [] i.op = "LT" -> Bit(sc < sa)
        [] i.op = "GT" -> Bit(sc > sa)
        [] i.op = "LEQ" -> Bit(sc <= sa)
        [] i.op = "GEQ" -> Bit(sc >= sa)
        [] i.op = "AND" -> BitAnd(c, a)
        [] i.op = "OR" -> BitOr(c, a)
        [] i.op = "XOR" -> widthMask(BitXor(c, a), i.width)
        [] i.op = "SHL" -> widthMask(c * 2^a, i.width)
        [] i.op = "SHR" -> widthMask(c, i.width) \div 2^a
BinaryOp ==
  /\ Is(BinaryOps)
  /\ IF target = "wasm32" /\ Instr.op \in {"DIV", "MOD"} /\ Peek(0) = 0
     THEN Died /\ stk' = stk
     ELSE /\ stk' = Append(Rest(2), Computed(Instr, Peek(1), Peek(0)))
          /\ Continue
          /\ UNCHANGED <<frameStackTop, h, status>>
  /\ UNCHANGED <<picked, tr>>

UnaryOp ==
  LET a == Peek(0)
  IN  /\ Is({"NOT", "NEG", "LOAD", "OFFSET", "LEN", "CAP", "LABEL"})
      /\ stk' = CASE Instr.op = "LABEL" -> stk
                  [] Instr.op = "NOT" -> Append(Rest(1), Bit(a = 0))
                  [] Instr.op = "NEG" ->
                       Append(Rest(1), widthMask(- signExtendW(a, Instr.width), Instr.width))
                  [] Instr.op = "LOAD" -> Append(Rest(1), widthMask(loadWord(h.mem, a), Instr.arg))
                  [] Instr.op = "OFFSET" -> Append(Rest(1), a + Instr.arg)
                  [] Instr.op = "LEN" -> Append(Rest(1), IF a = 0 THEN 0 ELSE loadWord(h.mem, a + W))
                  [] Instr.op = "CAP" -> Append(Rest(1), IF a = 0 THEN 0 ELSE loadWord(h.mem, a + 2 * W))
      /\ Continue
      /\ UNCHANGED <<picked, frameStackTop, h, tr, status>>

Store ==
  /\ Is({"STORE"})
  /\ h' = PutWord(h, Peek(0), widthMask(Peek(1), Instr.arg))
  /\ stk' = Rest(2)
  /\ Continue
  /\ UNCHANGED <<picked, frameStackTop, tr, status>>

IndexAddr ==
  /\ Is({"INDEX_ADDR"})
  /\ stk' = Append(Rest(2), StringPtr(h, Peek(1)) + Peek(0) * Instr.arg)
  /\ Continue
  /\ UNCHANGED <<picked, frameStackTop, h, tr, status>>

Jump ==
  /\ Is({"JMP"})
  /\ Goto(labels(Instr.arg))
  /\ UNCHANGED <<picked, stk, frameStackTop, h, tr, status>>
JumpIf ==
  /\ Is({"JMP_IF", "JMP_IF_NOT"})
  /\ IF (Peek(0) # 0) = (Instr.op = "JMP_IF") THEN Goto(labels(Instr.arg)) ELSE Continue
  /\ stk' = Rest(1)
  /\ UNCHANGED <<picked, frameStackTop, h, tr, status>>

CallRuntime ==
  LET r == Runtime(Instr.name, Args(Instr.arg), h)
  IN  /\ Is({"CALL"}) /\ Instr.name \in DOMAIN RuntimeRets
      /\ stk' = Rest(Instr.arg) \o r.out
      /\ h' = r.g
      /\ Continue
      /\ UNCHANGED <<picked, frameStackTop, tr, status>>
CallFunc ==
  /\ Is({"CALL"}) /\ Instr.name \in DOMAIN Funcs
  /\ FrameFor(Instr.name, Returning, stk, h)
  /\ UNCHANGED <<picked, tr>>

\* The result is a slice's or a string's bytes, or a byte.
Converted(v, type) ==
  CASE type = "string" -> Runtime("runtime.BytesToString", <<v>>, h)
    [] type = "byte" -> [g |-> h, out |-> <<v % ByteMod>>]
    [] OTHER -> [g |-> h, out |-> <<v>>]
Convert ==
  LET r == Converted(Peek(0), Instr.name)
  IN  /\ Is({"CONVERT"})
      /\ stk' = Rest(1) \o r.out
      /\ h' = r.g
      /\ Continue
      /\ UNCHANGED <<picked, frameStackTop, tr, status>>

Boxed(typeID, v) == NewWords(h, <<typeID, v>>, 2 * W)
IfaceBox ==
  LET box == Boxed(Instr.arg, Peek(0))
  IN  /\ Is({"IFACE_BOX"})
      /\ stk' = Append(Rest(1), box.at)
      /\ h' = box.g
      /\ Continue
      /\ UNCHANGED <<picked, frameStackTop, tr, status>>

\* The function that implements method m for a type id.
findDispatch(typeID, m) == {d \in Programs[prog].dispatch : d[1] = typeID /\ d[2] = m}
IfaceCall ==
  LET n == Instr.arg
      box == Peek(n)
      found == findDispatch(loadWord(h.mem, box), Instr.name)
      s == [stk EXCEPT ![Len(stk) - n] = loadWord(h.mem, box + W)]
  IN  /\ Is({"IFACE_CALL"})
      /\ IF found # {}
         THEN FrameFor((CHOOSE d \in found : TRUE)[3], Returning, s, h)
         ELSE Died /\ UNCHANGED stk
      /\ UNCHANGED <<picked, tr>>

\* The bound of tr: what comes after one thing too many is not kept.
PutOut(what) == IF Len(tr) > Len(Programs[prog].means) THEN tr ELSE Append(tr, what)

\* The message is a string or a boxed one.
Message(v) == Chars(h, IF loadWord(h.mem, v) < 256 THEN loadWord(h.mem, v + W) ELSE v)
Panic ==
  /\ Is({"PANIC"})
  /\ tr' = PutOut(<<3>> \o Message(Peek(0)))
  /\ stk' = Rest(1)
  /\ Died
  /\ UNCHANGED picked

\* put, puts, putany and note put out their argument; note returns it, too.
CallIntrinsic ==
  LET v == loadWord(h.mem, LocalAt(0))
  IN  /\ Is({"CALL_INTRINSIC"})
      /\ tr' = PutOut(CASE Instr.name \in {"put", "note"} -> <<0, v>>
                          [] Instr.name = "puts" -> <<1>> \o Chars(h, v)
                          [] Instr.name = "putany" ->
                               CASE loadWord(h.mem, v) = 1 -> <<0, loadWord(h.mem, v + W)>>
                                 [] loadWord(h.mem, v) = 2 -> <<1>> \o Chars(h, loadWord(h.mem, v + W))
                                 [] OTHER -> <<2>>)
      /\ stk' = IF Instr.name = "note" THEN Append(stk, v) ELSE stk
      /\ Continue
      /\ UNCHANGED <<picked, frameStackTop, h, status>>

ReleasedWithOneMore(f) == frameStackTop + (frameSize(f) + Top.held + 1) * W  \* mutant of Released
ReleasedNever(f) == frameStackTop  \* mutant of Released
Released(f) == frameStackTop + (frameSize(f) + Top.held) * W

ResultsOnly == SubSeq(stk, 1, Top.base) \o Args(Funcs[Top.fn].rets)

\* The frame is given up.  On wasm32 return takes the results from the stack
\* and leaves nothing else.  When the initialisers are done main runs.
Return ==
  LET last == Len(calls) = 1
  IN  /\ Is({"RETURN"})
      /\ IF last /\ status = "init"
         THEN /\ frameStackTop' = FrameTop - frameSize("main") * W
              /\ calls' = <<NewCall("main", frameStackTop', 0, 0)>>
              /\ h' = PutWords(h, frameStackTop', [i \in 1..Stored("main") |-> 0])
              /\ status' = "run"
         ELSE /\ calls' = IF last THEN calls ELSE SubSeq(calls, 1, Len(calls) - 1)
              /\ frameStackTop' = Released(Top.fn)
              /\ status' = IF last THEN "exited" ELSE status
              /\ h' = h
      /\ stk' = IF target = "vm" THEN stk ELSE ResultsOnly
      /\ UNCHANGED <<picked, tr>>

\* The structured instructions of wasm32.
Match == Programs[prog].wasm32.ends[Top.fn]
GotoWith(i, open) == calls' = [calls EXCEPT ![Len(calls)] = [@ EXCEPT !.ip = i, !.ctrl = open]]
OpenBlock ==
  LET s == IF Instr.op = "IF" THEN Rest(1) ELSE stk
      skips == Instr.op = "IF" /\ Peek(0) = 0
  IN  /\ Is(Opening)
      /\ stk' = s
      /\ GotoWith(IF skips THEN Match.else[Top.ip] + 1 ELSE Top.ip + 1,
                  Append(Top.ctrl, [at |-> Top.ip, height |-> Len(s)]))
      /\ UNCHANGED <<picked, frameStackTop, h, tr, status>>
EndBlock ==
  /\ Is({"ELSE", "END"})
  /\ IF Instr.op = "END" THEN GotoWith(Top.ip + 1, Front(Top.ctrl))
     ELSE GotoWith(Match.end[Last(Top.ctrl).at], Top.ctrl)
  /\ UNCHANGED <<picked, stk, frameStackTop, h, tr, status>>

\* A jump out of a block goes on behind it, a jump to a loop at its start, and
\* what the code had pushed since the block began is gone.
Branch ==
  LET s == IF Instr.op = "BR_IF" THEN Rest(1) ELSE stk
      n == Len(Top.ctrl) - Instr.arg
      at == Top.ctrl[n].at
      isLoop == Funcs[Top.fn].code[at].op = "LOOP"
  IN  /\ Is({"BR", "BR_IF"})
      /\ IF Instr.op = "BR_IF" /\ Peek(0) = 0 THEN stk' = s /\ Continue
         ELSE /\ stk' = SubSeq(s, 1, Top.ctrl[n].height)
              /\ IF isLoop THEN GotoWith(at + 1, SubSeq(Top.ctrl, 1, n))
                 ELSE GotoWith(Match.end[at] + 1, SubSeq(Top.ctrl, 1, n - 1))
      /\ UNCHANGED <<picked, frameStackTop, h, tr, status>>
TempGet ==
  /\ Is({"TEMP_GET", "UNREACHABLE"})
  /\ IF Instr.op = "UNREACHABLE" THEN Died /\ UNCHANGED stk
     ELSE stk' = Append(stk, Top.temp) /\ Continue /\ UNCHANGED <<frameStackTop, h, status>>
  /\ UNCHANGED <<picked, tr>>

-----------------------------------------------------------------------------
Init ==
  /\ prog \in DOMAIN Programs
  /\ target \in {"vm"} \cup {t \in {"wasm32"} : Programs[prog].forWasm}
  /\ stk = <<>>
  /\ frameStackTop = FrameTop - frameSize("init$globals") * W
  /\ calls = <<NewCall("init$globals", frameStackTop, 0, 0)>>
  /\ h = [mem |-> <<>>, brk |-> HeapBase, tabs |-> <<>>, strs |-> <<>>]
  /\ tr = <<>>
  /\ status = "init"

Ended == ~Running /\ UNCHANGED vars

Next ==
  \/ Constant \/ Get \/ SetVariable \/ DropOrDup \/ BinaryOp \/ UnaryOp \/ Store \/ IndexAddr
  \/ Jump \/ JumpIf \/ CallRuntime \/ CallFunc \/ Convert \/ IfaceBox \/ IfaceCall \/ Panic
  \/ CallIntrinsic \/ Return \/ OpenBlock \/ EndBlock \/ Branch \/ TempGet \/ Ended

\* The program goes on: weak fairness of the instructions, put without ENABLED
\* (one of them can be executed for as long as the program runs, or TLC
\* reports a deadlock).
GoesOn == []<><<TRUE>>_vars \/ <>[](~Running)
Spec == Init /\ [][Next]_vars /\ GoesOn

-----------------------------------------------------------------------------
(* Properties                                                              *)

TypeOK ==
  /\ prog \in DOMAIN Programs
  /\ target \in {"vm", "wasm32"}
  /\ status \in {"init", "run", "exited", "died", "overflow"}
  /\ stk \in Seq(Int)
  /\ \A i \in DOMAIN calls : /\ calls[i].fn \in DOMAIN Funcs
                             /\ calls[i].ip \in 1..Len(Funcs[calls[i].fn].code) + 1
  /\ frameStackTop \in FrameBase..FrameTop
  /\ h.brk \in HeapBase..FrameBase

\* The text of a program, written with no parenthesis, type or semicolon that Go
\* lets one leave out, is read without an error as the program it is of
\* (Tokenize, ParseFile, compileTopDecl).
ParsesBack ==
  LET r == Programs[prog].read
      p == Programs[prog].source
  IN  /\ r.errors = 0
      /\ r.package.structs = p.structs /\ r.package.ifaces = p.ifaces
      /\ r.package.consts = p.consts /\ r.package.globals = p.globals
      /\ r.package.funcs = p.funcs

\* The compiled program puts out what the source says, in that order, and all
\* of it before it ends, unless the machine stops it for want of a frame
\* (compileStmt, compileExpr and all they call).
TraceIsOfSource ==
  /\ IsPrefix(tr, Programs[prog].means)
  /\ status \in {"exited", "died"} => tr = Programs[prog].means

\* The frame stack holds the frames of the active calls, each right below its
\* caller's or what a dynamic call keeps there, and nothing else, however calls
\* returned (execFunc restores the top that it saved, compileReturn of wasm32
\* adds the frame's size).
FramesOfActiveCalls ==
  Running => /\ frameStackTop = Top.locals
             /\ \A i \in DOMAIN calls :
                  calls[i].locals + (frameSize(calls[i].fn) + calls[i].held) * W =
                    IF i = 1 THEN FrameTop ELSE calls[i - 1].locals

\* The operand stack is as high as the compiler's static depth takes it to be
\* at that instruction, whichever way the program came there (compileIf,
\* compileSwitch and ShortCircuit set the depth where branches join; the blocks
\* of wasm32 lose operands that emitStructured pushes again), and a program that
\* ends leaves nothing on it.
StackIsAtStaticDepth ==
  /\ Running /\ Instr.op \notin Structural => Len(stk) - Top.base = Instr.depth
  /\ status = "exited" => stk = <<>>

\* An engine loads the module: in every function, on every path, blocks and arms
\* end with the operands their types say, no instruction takes operands that
\* are not there, and the code behind what never ends is marked so
\* (emitStructured, compileReturn, compileIfaceCall).
EngineAccepts == target = "wasm32" => Programs[prog].wasm32.accepted

\* Every program here ends: no loop that does is compiled to one that does not
\* (compileFor, compileForRange, compileBranch).
Ends == <>(~Running)
=============================================================================
