----------------------------- MODULE StackMaps ------------------------------
(***************************************************************************)
(* Code whose operand stack is known without running it.  A stack map      *)
(* gives, for every instruction a run may come to, how many operands the   *)
(* function has there and which blocks are open; code verifies if its map  *)
(* is kept by each instruction and its neighbours alone: the compiler's    *)
(* own count (emit of std/compiler/ir.go) is right on every path, no       *)
(* instruction takes an operand that is not there, and each function       *)
(* leaves what its callers count on.                                       *)
(*                                                                         *)
(* A program p carries its maps: p.maps[t][f] is that of its function f    *)
(* for the target t.                                                       *)
(***************************************************************************)
EXTENDS CompiledRun

When(c, S) == IF c THEN S ELSE {}

-----------------------------------------------------------------------------
(* What an instruction takes and leaves, as pairs; the next one follows.   *)

Pushing == {"CONST_I64", "CONST_BOOL", "CONST_NIL", "CONST_STR", "LOCAL_GET", "GLOBAL_GET",
            "LOCAL_ADDR", "GLOBAL_ADDR", "TEMP_GET"}
Popping == {"LOCAL_SET", "GLOBAL_SET", "DROP", "JMP_IF", "JMP_IF_NOT", "BR_IF"}
Changing == {"NOT", "NEG", "LOAD", "OFFSET", "LEN", "CAP", "CONVERT", "IFACE_BOX"}

\* The functions a dynamic call may reach.
Methods(p, m) == {d[3] : d \in {d \in p.dispatch : d[2] = m}}

Effects(t, p, i) ==
  LET F == FuncsOf(t, p)
  IN  UNION {
    When(i.op \in Pushing, {<<0, 1>>}),
    When(i.op \in Popping, {<<1, 0>>}),
    When(i.op \in Changing, {<<1, 1>>}),
    When(i.op = "LABEL", {<<0, 0>>}),
    When(i.op = "DUP", {<<1, 2>>}),
    When(i.op = "STORE", {<<2, 0>>}),
    When(i.op \in BinaryOps \cup {"INDEX_ADDR"}, {<<2, 1>>}),
    When(i.op = "CALL" /\ i.name \in DOMAIN RuntimeRets, {<<i.arg, RuntimeRets[i.name]>>}),
    When(i.op = "CALL" /\ i.name \in DOMAIN F, {<<F[i.name].params, F[i.name].rets>>}),
    When(i.op = "CALL_INTRINSIC", {<<0, IF i.name = "note" THEN 1 ELSE 0>>}),
    When(i.op = "IFACE_CALL", {<<i.arg + 1, F[f].rets>> : f \in Methods(p, i.name)})}

\* What the instruction needs on the stack (an interface call: its arguments,
\* and the receiver below them).
Needs(t, p, f, i) ==
  LET rets == FuncsOf(t, p)[f].rets
  IN  UNION {{e[1] : e \in Effects(t, p, i)},
             When(i.op \in {"PANIC", "IF"}, {1}),
             When(i.op = "IFACE_CALL", {i.arg, i.arg + 1}),
             When(i.op = "RETURN", {rets})}

-----------------------------------------------------------------------------
(* Where a run goes from an instruction at place k, with what on the stack *)

Entry(at, height, nest) == [at |-> at, height |-> height, nest |-> nest]

\* A branch leaves what the block began with.
Branched(t, p, f, i, here) ==
  LET n == Len(here.nest) - i.arg
      b == here.nest[n]
  IN  IF FuncsOf(t, p)[f].code[b.at].op = "LOOP"
      THEN Entry(b.at + 1, b.height, SubSeq(here.nest, 1, n))
      ELSE Entry(p.wasm32.ends[f].end[b.at] + 1, b.height, SubSeq(here.nest, 1, n - 1))

Successors(t, p, f, k, here) ==
  LET code == FuncsOf(t, p)[f].code
      i == code[k]
      ends == p.wasm32.ends[f]
      opened == IF i.op = "IF" THEN here.height - 1 ELSE here.height
      nest == Append(here.nest, [at |-> k, height |-> opened])
  IN  UNION {
    {Entry(k + 1, here.height - e[1] + e[2], here.nest) : e \in Effects(t, p, i)},
    When(i.op = "JMP", {Entry(LabelAt(code, i.arg), here.height, here.nest)}),
    When(i.op \in {"JMP_IF", "JMP_IF_NOT"}, {Entry(LabelAt(code, i.arg), here.height - 1, here.nest)}),
    When(i.op \in Opening, {Entry(k + 1, opened, nest)}),
    When(i.op = "IF", {Entry(ends.else[k] + 1, opened, nest)}),
    When(i.op = "ELSE", {Entry(ends.end[Last(here.nest).at], here.height, here.nest)}),
    When(i.op = "END", {Entry(k + 1, here.height, Front(here.nest))}),
    When(i.op \in {"BR", "BR_IF"}, {Branched(t, p, f, i, here)})}

-----------------------------------------------------------------------------
(* Code that verifies                                                      *)

Reaches(m, s) == s.at \in DOMAIN m /\ m[s.at].height = s.height /\ m[s.at].nest = s.nest

\* The instruction at k of f keeps the map m; what lies below the open blocks
\* stays where it is.
KeepsMap(t, p, f, k, m) ==
  LET F == FuncsOf(t, p)
      i == F[f].code[k]
      here == m[k]
  IN  /\ DOMAIN i = DOMAIN I0("") /\ i.arg \in Int
      /\ i.op \notin Structural => i.depth = here.height
      /\ Needs(t, p, f, i) \subseteq 0..here.height
      /\ i.op = "RETURN" /\ t = "vm" => here.height = F[f].rets
      /\ i.op = "IFACE_CALL" =>
           \A g \in Methods(p, i.name) : g \in DOMAIN F /\ F[g].params = i.arg + 1
      /\ i.op \in {"BR", "BR_IF"} => Len(here.nest) - i.arg \in DOMAIN here.nest
      /\ i.op \in {"ELSE", "END"} => here.nest # <<>>
      /\ \A b \in DOMAIN here.nest : here.nest[b].height <= here.height
      /\ \A s \in Successors(t, p, f, k, here) : Reaches(m, s)

FunctionVerifies(t, p, f) ==
  LET fn == FuncsOf(t, p)[f]
      m == p.maps[t][f]
  IN  /\ {fn.params, fn.slots, fn.rets} \subseteq Nat
      /\ Reaches(m, Entry(1, 0, <<>>))
      /\ \A k \in DOMAIN m : /\ k \in DOMAIN fn.code
                             /\ m[k].height \in Nat
                             /\ m[k].nest \in Seq([at : Nat, height : Nat])
                             /\ KeepsMap(t, p, f, k, m)

Verifies(t, p) ==
  LET F == FuncsOf(t, p)
  IN  /\ {"init$globals", "main"} \subseteq DOMAIN F
      /\ F["init$globals"].rets = 0 /\ F["main"].rets = 0
      /\ \A f \in DOMAIN F : FunctionVerifies(t, p, f)

VerifiedCode ==
  LET all == Programs
  IN  {x \in {<<t, n>> : t \in {"vm", "wasm32"}, n \in DOMAIN all} :
         (x[1] = "wasm32" => all[x[2]].forWasm) /\ Verifies(x[1], all[x[2]])}

\* The code verifies: on every path of every function, whether a run takes it or
\* not, the compiler's count of operands is right wherever paths meet, and what
\* a function leaves is what each call of it, direct or by way of an interface,
\* goes on with (emit, compileIf, compileSwitch and compileReturn of ir.go).
CodeVerifies == <<target, prog>> \in VerifiedCode
=============================================================================
