------------------------------ MODULE WasmCode ------------------------------
(***************************************************************************)
(* From labels and jumps to the structured code of WebAssembly (stackify   *)
(* of std/compiler/backend_wasm32.go), and the validator of an engine that *)
(* loads the module.                                                       *)
(*                                                                         *)
(* The instructions of Lowering stay; LABEL and the jumps become BLOCK,    *)
(* LOOP, IF, ELSE and END, BR and BR_IF (arg is the number of blocks to    *)
(* leave besides the innermost), UNREACHABLE, and TEMP_GET, which pushes   *)
(* the temporary local again.  Only an IF leaves a value.                  *)
(*                                                                         *)
(* The emitter's state, g: out the code, blockStack the open blocks        *)
(* (innermost last) with their labels and whether a jump that can happen   *)
(* leaves them, dead whether the code that follows cannot be reached, next *)
(* the first instruction not compiled yet.                                 *)
(***************************************************************************)
EXTENDS Lowering

Jumps == {"JMP", "JMP_IF", "JMP_IF_NOT"}
NoLabel == -1

IsLabel(code, i, l) == code[i].op = "LABEL" /\ code[i].arg = l
LabelIn(code, l, from, to) == {j \in from..to : IsLabel(code, j, l)}

-----------------------------------------------------------------------------
(* What the jumps are for                                                  *)

\* Where the right operand ends whose evaluation the jump at jumpPos skips:
\* jump to l, ..., jump to e, label l, constant, label e.
detectShortCircuit(code, jumpPos, end) ==
  {t - 1 : t \in {t \in LabelIn(code, code[jumpPos].arg, jumpPos + 1, end - 2) :
                    /\ code[jumpPos].op # "JMP"
                    /\ code[t + 1].op \in {"CONST_BOOL", "CONST_I64"}
                    /\ code[t + 2].op = "LABEL"
                    /\ code[t - 1].op = "JMP" /\ code[t - 1].arg = code[t + 2].arg}}

loopHeaders(code) ==
  {code[i].arg : i \in {i \in DOMAIN code : /\ code[i].op \in Jumps
                                            /\ LabelIn(code, code[i].arg, 1, i) # {}}}

\* The label right behind the last jump back to the loop.
findBreakLabel(code, loopStart, end, loopLabel) ==
  LET back == {j \in loopStart + 1..end : code[j].op = "JMP" /\ code[j].arg = loopLabel}
      after == Max(back) + 1
  IN  IF back # {} /\ after <= end /\ code[after].op = "LABEL" THEN code[after].arg ELSE NoLabel
\* The first instruction behind the loop.
LoopEnd(code, loopStart, end, loopLabel) ==
  LET at == LabelIn(code, findBreakLabel(code, loopStart, end, loopLabel), loopStart + 1, end)
  IN  IF at = {} THEN end + 1 ELSE Min(at)

-----------------------------------------------------------------------------
(* Emitting                                                                *)

Out(g, i) == [g EXCEPT !.out = Append(@, i)]
open(g, op, l, depth) ==
  [Out(g, [I0(op) EXCEPT !.depth = depth]) EXCEPT
     !.blockStack = Append(@, [labelID |-> l, hasLiveBreak |-> FALSE])]
close(g) == [Out(g, I0("END")) EXCEPT !.blockStack = Front(@)]

\* The code behind a block cannot be reached if neither its end can nor a
\* jump leaves it; the validator is told so.
closeBlock(g) ==
  IF g.dead /\ ~Last(g.blockStack).hasLiveBreak THEN Out(close(g), I0("UNREACHABLE"))
  ELSE [close(g) EXCEPT !.dead = FALSE]

BlocksOf(g, l) == {i \in DOMAIN g.blockStack : g.blockStack[i].labelID = l}
findBlockDepth(g, l) == Len(g.blockStack) - Max(BlocksOf(g, l))
markLiveBreak(g, l) == [g EXCEPT !.blockStack[Max(BlocksOf(g, l))].hasLiveBreak = TRUE]

\* A jump out of no open block is left out.
JumpTo(g, op, l) ==
  IF BlocksOf(g, l) = {} THEN g ELSE Out(markLiveBreak(g, l), I1(op, findBlockDepth(g, l)))

\* A value that the jump out of the block took off the stack is pushed again
\* for the DUP or DROP that needs it.
\* Mutant of Repush: the body of a case is forgotten.
RepushForDup(g, code, i, end) ==
  LET peek == {j \in i + 1..end : code[j].op # "LABEL"}
  IN  IF peek # {} /\ code[Min(peek)].op = "DUP" THEN Out(g, I0("TEMP_GET")) ELSE g
Repush(g, code, i, end) ==
  LET peek == {j \in i + 1..end : code[j].op # "LABEL"}
  IN  IF peek # {} /\ code[Min(peek)].op \in {"DUP", "DROP"} THEN Out(g, I0("TEMP_GET")) ELSE g

RECURSIVE emitStructured(_, _, _, _)
emitStructured(code, g0, start, end) ==
  LET loops == loopHeaders(code)
      IsLoop(i) == code[i].op = "LABEL" /\ code[i].arg \in loops
      \* Jumps at this level: not in a loop, and not those of && and ||.
      bodies == UNION {i..LoopEnd(code, i, end, code[i].arg) - 1 : i \in {i \in start..end : IsLoop(i)}}
      jumps == {i \in (start..end) \ bodies : code[i].op \in Jumps}
      excluded == UNION {{code[i].arg} \cup {code[e].arg : e \in detectShortCircuit(code, i, end)} :
                           i \in {i \in jumps : detectShortCircuit(code, i, end) # {}}}
      \* A block for each label ahead, opened here, the outermost for the furthest.
      targets == UNION {LabelIn(code, code[i].arg, i + 1, end) :
                          i \in {i \in jumps : code[i].arg \notin excluded \cup loops}}
      opened == Fold(LAMBDA g, j : IF j \in targets THEN open(g, "BLOCK", code[j].arg, code[start].depth) ELSE g,
                     g0, [k \in 1..end - start + 1 |-> end + 1 - k])
      Loop(g, i) ==
        LET l == code[i].arg
            to == LoopEnd(code, i, end, l)
            g1 == open(open(g, "BLOCK", findBreakLabel(code, i, end, l), code[i].depth), "LOOP", l, code[i].depth)
        IN  [closeBlock(close(emitStructured(code, g1, i + 1, to - 1))) EXCEPT !.next = to]
      Label(g, i) ==
        LET closed == closeBlock(g)
        IN  IF code[i].arg \in excluded \/ BlocksOf(g, code[i].arg) = {} THEN g
            ELSE IF closed.dead THEN closed ELSE Repush(closed, code, i, end)
      \* The operand that is skipped in one arm, the constant in the other.
      ShortCircuited(g, i, e) ==
        LET g1 == open(g, "IF", NoLabel, code[i].depth)
            const == code[e + 2]
            g2 == IF code[i].op = "JMP_IF"
                  THEN emitStructured(code, Out(Out(g1, const), I0("ELSE")), i + 1, e - 1)
                  ELSE Out(Out(emitStructured(code, g1, i + 1, e - 1), I0("ELSE")), const)
        IN  [close(g2) EXCEPT !.next = e + 4]
      One(g, i) ==
        LET inst == code[i]
        IN  CASE i < g.next -> g
              [] i >= g.next /\ inst.op = "LABEL" -> IF IsLoop(i) THEN Loop(g, i) ELSE Label(g, i)
              [] i >= g.next /\ inst.op # "LABEL" /\ g.dead -> g
              [] i >= g.next /\ ~g.dead /\ inst.op = "JMP" ->
                   [JumpTo(g, "BR", inst.arg) EXCEPT !.dead = BlocksOf(g, inst.arg) # {}]
              [] i >= g.next /\ ~g.dead /\ inst.op \in {"JMP_IF", "JMP_IF_NOT"} ->
                   LET sc == detectShortCircuit(code, i, end)
                   IN  IF sc # {} THEN ShortCircuited(g, i, CHOOSE e \in sc : TRUE)
                       ELSE IF inst.op = "JMP_IF" \/ BlocksOf(g, inst.arg) = {} THEN JumpTo(g, "BR_IF", inst.arg)
                       ELSE JumpTo(Out(g, [I0("NOT") EXCEPT !.depth = inst.depth]), "BR_IF", inst.arg)
              [] OTHER -> [Out(g, inst) EXCEPT !.dead = inst.op \in {"RETURN", "PANIC"}]
  IN  [Fold(One, opened, [k \in 1..end - start + 1 |-> start + k - 1]) EXCEPT !.next = end + 1]

stackify(code) ==
  emitStructured(code, [out |-> <<>>, blockStack |-> <<>>, dead |-> FALSE, next |-> 1], 1, Len(code)).out

-----------------------------------------------------------------------------
(* Structured code                                                         *)

\* Each BLOCK, LOOP and IF with its END, and an IF with its ELSE.
matches(code) ==
  Fold(LAMBDA s, i : CASE code[i].op \in Opening -> [s EXCEPT !.open = Append(@, i)]
                       [] code[i].op = "ELSE" -> [s EXCEPT !.else = Put(@, Last(s.open), i)]
                       [] code[i].op = "END" -> [s EXCEPT !.end = Put(@, Last(s.open), i), !.open = Front(@)]
                       [] OTHER -> s,
       [open |-> <<>>, else |-> <<>>, end |-> <<>>], [i \in DOMAIN code |-> i])

\* The results of the methods an interface call may reach.
DispatchRets(p, m) == {Len(f.rets) : f \in {f \in ToSet(p.funcs) : IsMethod(f) /\ f.meth = m}}

CallPops(funcs, i) == IF i.name \in DOMAIN funcs THEN funcs[i.name].params ELSE i.arg
Pops(funcs, f, i) ==
  CASE i.op \in {"LOCAL_SET", "GLOBAL_SET", "DROP", "DUP", "NOT", "NEG", "LOAD", "OFFSET", "LEN", "CAP",
                 "CONVERT", "IFACE_BOX", "PANIC", "IF", "BR_IF"} -> 1
    [] i.op \in BinaryOps \cup {"STORE", "INDEX_ADDR"} -> 2
    [] i.op = "CALL" -> CallPops(funcs, i)
    [] i.op = "IFACE_CALL" -> i.arg + 1
    [] i.op = "RETURN" -> funcs[f].rets
    [] OTHER -> 0
Pushes(p, funcs, f, i) ==
  CASE i.op \in {"LOCAL_SET", "GLOBAL_SET", "DROP", "STORE", "PANIC", "RETURN"} \cup (Structural \ {"TEMP_GET"}) -> 0
    [] i.op = "DUP" -> 2
    [] i.op = "CALL" -> funcRets(p, i.name)
    [] i.op = "CALL_INTRINSIC" -> funcs[f].rets
    [] i.op = "IFACE_CALL" -> Max({0} \cup DispatchRets(p, i.name))
    [] OTHER -> 1

\* The validator's state, v: h the operands, free whether they are any number
\* (behind code that is not left at its end), ctl the open blocks with the
\* operands below them, ok.
Popped(v, n) ==
  LET base == Last(v.ctl).base
      least == IF v.h - n < base THEN base ELSE v.h - n
  IN  [v EXCEPT !.h = least, !.ok = @ /\ (v.free \/ v.h - n >= base)]
\* An arm or a block ends with its result and nothing more.
ArmEnds(v, n) ==
  LET base == Last(v.ctl).base
  IN  [v EXCEPT !.ok = @ /\ (v.h = base + n \/ (v.free /\ v.h <= base + n))]
Unreachable(v) == [v EXCEPT !.h = Last(v.ctl).base, !.free = TRUE]

Valid(p, funcs, f) ==
  LET One(v, i) ==
        LET v1 == Popped(v, Pops(funcs, f, i))
            c == Last(v1.ctl)
            rets == IF i.op = "IFACE_CALL" THEN DispatchRets(p, i.name) ELSE {}
        IN  CASE i.op \in Opening ->
                   [v1 EXCEPT !.ctl = Append(@, [base |-> v1.h, rets |-> IF i.op = "IF" THEN 1 ELSE 0,
                                                 free |-> v1.free]), !.free = FALSE]
              [] i.op = "ELSE" -> [ArmEnds(v1, c.rets) EXCEPT !.h = c.base, !.free = FALSE]
              [] i.op = "END" -> [ArmEnds(v1, c.rets) EXCEPT !.h = c.base + c.rets, !.free = c.free, !.ctl = Front(@)]
              [] i.op \in {"BR", "UNREACHABLE", "RETURN", "PANIC"} -> Unreachable(v1)
              [] OTHER -> [v1 EXCEPT !.h = @ + Pushes(p, funcs, f, i),
                                     !.ok = @ /\ (rets \subseteq {0} \/ rets \subseteq {1})]
      whole == [base |-> 0, rets |-> funcs[f].rets, free |-> FALSE]
  IN  ArmEnds(Fold(One, [h |-> 0, free |-> FALSE, ctl |-> <<whole>>, ok |-> TRUE], funcs[f].code),
            funcs[f].rets).ok
=============================================================================
