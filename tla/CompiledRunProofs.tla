-------------------------- MODULE CompiledRunProofs --------------------------
(***************************************************************************)
(* Code that verifies runs as its stack maps say: for every program and    *)
(* both targets, whatever the code, the operand stack, the open blocks and *)
(* the stack of frames are at each instruction what the maps and the       *)
(* active calls make them.                                                 *)
(*                                                                         *)
(* Only lengths of stacks and positions are followed; what the operands    *)
(* and the memory hold is left open, so nothing here depends on the        *)
(* runtime's functions but the number of their results.                    *)
(***************************************************************************)
EXTENDS StackMaps, TLAPS

-----------------------------------------------------------------------------
(* Sequences of anything                                                   *)

IsSeq(s) == \E S : s \in Seq(S)

\* A sequence has a natural number of elements.
LEMMA SeqLength ==
  ASSUME NEW s, IsSeq(s)
  PROVE  Len(s) \in Nat /\ DOMAIN s = 1..Len(s)
BY DEF IsSeq

\* An element of a sequence over S is in S.
LEMMA ElementOfSeq ==
  ASSUME NEW S, NEW s \in Seq(S), NEW i \in 1..Len(s)
  PROVE  s[i] \in S
OBVIOUS

\* A tuple is a sequence as long as it has elements.
LEMMA TupleSeq ==
  /\ IsSeq(<<>>) /\ Len(<<>>) = 0
  /\ \A x : IsSeq(<<x>>) /\ Len(<<x>>) = 1
  /\ \A x, y : IsSeq(<<x, y>>) /\ Len(<<x, y>>) = 2
<1>1. <<>> \in Seq({}) /\ Len(<<>>) = 0
  OBVIOUS
<1>2. ASSUME NEW x PROVE <<x>> \in Seq({x}) /\ Len(<<x>>) = 1
  OBVIOUS
<1>3. ASSUME NEW x, NEW y PROVE <<x, y>> \in Seq({x, y}) /\ Len(<<x, y>>) = 2
  OBVIOUS
<1> QED
  BY <1>1, <1>2, <1>3 DEF IsSeq

\* Append puts one element behind the others.
LEMMA AppendSeq ==
  ASSUME NEW s, NEW x, IsSeq(s)
  PROVE  /\ IsSeq(Append(s, x)) /\ Len(Append(s, x)) = Len(s) + 1
         /\ \A i \in 1..Len(s) : Append(s, x)[i] = s[i]
         /\ Append(s, x)[Len(s) + 1] = x
<1>1. PICK S : s \in Seq(S)
  BY DEF IsSeq
<1> DEFINE T == S \cup {x}
<1>2. s \in Seq(T) /\ x \in T
  BY <1>1
<1> HIDE DEF T
<1>3. Append(s, x) \in Seq(T)
  BY <1>2
<1>4. /\ Len(Append(s, x)) = Len(s) + 1
      /\ \A i \in 1..Len(s) : Append(s, x)[i] = s[i]
      /\ Append(s, x)[Len(s) + 1] = x
  BY <1>2
<1> QED
  BY <1>3, <1>4 DEF IsSeq

\* The first n elements of a sequence.
LEMMA PrefixSeq ==
  ASSUME NEW s, NEW n \in Nat, IsSeq(s), n <= Len(s)
  PROVE  /\ IsSeq(SubSeq(s, 1, n)) /\ Len(SubSeq(s, 1, n)) = n
         /\ \A i \in 1..n : SubSeq(s, 1, n)[i] = s[i]
<1>1. PICK S : s \in Seq(S)
  BY DEF IsSeq
<1>2. SubSeq(s, 1, n) \in Seq(S)
  BY <1>1
<1>3. Len(SubSeq(s, 1, n)) = n /\ \A i \in 1..n : SubSeq(s, 1, n)[i] = s[i]
  BY <1>1
<1> QED
  BY <1>2, <1>3 DEF IsSeq

\* The last n elements of a sequence.
LEMMA SuffixSeq ==
  ASSUME NEW s, NEW n \in Nat, IsSeq(s), n <= Len(s)
  PROVE  IsSeq(SubSeq(s, Len(s) - n + 1, Len(s))) /\ Len(SubSeq(s, Len(s) - n + 1, Len(s))) = n
<1>1. PICK S : s \in Seq(S)
  BY DEF IsSeq
<1>2. Len(s) \in Nat
  BY <1>1
<1>3. SubSeq(s, Len(s) - n + 1, Len(s)) \in Seq(S)
  BY <1>1, <1>2
<1>4. Len(SubSeq(s, Len(s) - n + 1, Len(s))) = n
  BY <1>1, <1>2
<1> QED
  BY <1>3, <1>4 DEF IsSeq

\* Two sequences, one behind the other.
LEMMA ConcatSeq ==
  ASSUME NEW s, NEW u, IsSeq(s), IsSeq(u)
  PROVE  IsSeq(s \o u) /\ Len(s \o u) = Len(s) + Len(u)
<1>1. PICK S : s \in Seq(S)
  BY DEF IsSeq
<1>2. PICK U : u \in Seq(U)
  BY DEF IsSeq
<1> DEFINE T == S \cup U
<1>3. s \in Seq(T) /\ u \in Seq(T)
  BY <1>1, <1>2
<1> HIDE DEF T
<1>4. s \o u \in Seq(T) /\ Len(s \o u) = Len(s) + Len(u)
  BY <1>3
<1> QED
  BY <1>4 DEF IsSeq

\* r is s but for x at k.
Changes(s, r, k, x) ==
  /\ IsSeq(r) /\ Len(r) = Len(s)
  /\ \A i \in 1..Len(s) : i # k => r[i] = s[i]
  /\ r[k] = x

\* An element put in the place of another.
LEMMA PutInSeq ==
  ASSUME NEW S, NEW s \in Seq(S), NEW k \in 1..Len(s), NEW x \in S, NEW r, r = [s EXCEPT ![k] = x]
  PROVE  Changes(s, r, k, x)
<1>1. r \in Seq(S) /\ Len(r) = Len(s)
  OBVIOUS
<1>2. IsSeq(r)
  BY <1>1 DEF IsSeq
<1>3. \A i \in 1..Len(s) : i # k => r[i] = s[i]
  OBVIOUS
<1>4. r[k] = x
  OBVIOUS
<1> QED
  BY <1>1, <1>2, <1>3, <1>4 DEF Changes

\* The same, for a sequence of anything.
LEMMA PutSeq ==
  ASSUME NEW s, NEW k, NEW x, IsSeq(s), k \in 1..Len(s), NEW r, r = [s EXCEPT ![k] = x]
  PROVE  Changes(s, r, k, x)
<1>1. PICK S : s \in Seq(S)
  BY DEF IsSeq
<1> DEFINE T == S \cup {x}
<1>2. s \in Seq(T) /\ x \in T
  BY <1>1
<1> HIDE DEF T
<1> QED
  BY <1>2, PutInSeq

-----------------------------------------------------------------------------
(* The active calls as the maps have them.  t is the target, p the         *)
(* program.                                                                *)

MapOf(t, p, c) == p.maps[t][c.fn]
HeightAt(t, p, c) == MapOf(t, p, c)[c.ip].height
Size(t, p, f) ==
  LET F == FuncsOf(t, p)
      n == IF F[f].slots > F[f].params THEN F[f].slots ELSE F[f].params
  IN  IF n = 0 /\ t = "vm" THEN 1 ELSE n

\* The open blocks of a map, for a call whose operands begin above base.
Shifted(nest, base) ==
  [j \in 1..Len(nest) |-> [at |-> nest[j].at, height |-> base + nest[j].height]]

\* A call is where its function's map has been, with the blocks open there.
CallOK(t, p, c) ==
  /\ DOMAIN c = {"fn", "ip", "locals", "base", "ctrl", "temp", "held"}
  /\ c.fn \in DOMAIN FuncsOf(t, p)
  /\ c.ip \in DOMAIN MapOf(t, p, c)
  /\ c.locals \in Int /\ c.base \in Nat /\ c.held \in Nat
  /\ c.ctrl = Shifted(MapOf(t, p, c)[c.ip].nest, c.base)

\* The space of d, from its locals to those of its caller.
Above(t, p, d) == d.locals + (Size(t, p, d.fn) + d.held) * W

\* The first call is of the initialisers or of main.
Bottom(t, p, c) ==
  c.base = 0 /\ c.fn \in {"init$globals", "main"} /\ Above(t, p, c) = FrameTop

\* c called d: with d's results it has what its map says for where it goes on.
Between(t, p, c, d) ==
  /\ d.base + FuncsOf(t, p)[d.fn].rets = c.base + HeightAt(t, p, c)
  /\ Above(t, p, d) = c.locals

CallsOK(t, p, cs) ==
  /\ IsSeq(cs) /\ Len(cs) > 0
  /\ \A k \in 1..Len(cs) : CallOK(t, p, cs[k])
  /\ Bottom(t, p, cs[1])
  /\ \A k \in 1..Len(cs) - 1 : Between(t, p, cs[k], cs[k + 1])

StackOK(t, p, c, s, top) ==
  IsSeq(s) /\ Len(s) = c.base + HeightAt(t, p, c) /\ top = c.locals

\* A machine that runs: its calls, its operands and its frames.
RunsOK(t, p, cs, s, top) == CallsOK(t, p, cs) /\ StackOK(t, p, cs[Len(cs)], s, top)

\* What the maps say, whenever verified code runs, and the end of it.
AsMapped ==
  /\ <<target, prog>> \in VerifiedCode
  /\ Running => RunsOK(target, Programs[prog], calls, stk, frameStackTop)
  /\ status = "exited" => stk = <<>>

\* d goes on with the work of c: same function, same place of operands and frame.
SameFrame(c, d) == d.fn = c.fn /\ d.base = c.base /\ d.locals = c.locals /\ d.held = c.held

-----------------------------------------------------------------------------
(* Calls replaced, pushed and popped                                       *)

\* r is cs with d, which goes on with its work, for the last call.
Replaces(t, p, cs, d, r) ==
  /\ CallsOK(t, p, cs) /\ CallOK(t, p, d) /\ SameFrame(cs[Len(cs)], d)
  /\ r = [cs EXCEPT ![Len(cs)] = d]

\* The calls r, and d the last of them.
EndsWith(t, p, r, d) == CallsOK(t, p, r) /\ r[Len(r)] = d

\* A call that goes on with its work leaves the calls in order.
LEMMA CallsReplaced ==
  ASSUME NEW t, NEW p, NEW cs, NEW d, NEW r, Replaces(t, p, cs, d, r)
  PROVE  EndsWith(t, p, r, d)
<1> DEFINE n == Len(cs)
<1>0. /\ CallsOK(t, p, cs) /\ CallOK(t, p, d) /\ SameFrame(cs[n], d)
      /\ r = [cs EXCEPT ![n] = d]
  BY DEF Replaces
<1>1. n \in 1..n /\ IsSeq(cs)
  BY <1>0, SeqLength DEF CallsOK
<1>2. Changes(cs, r, n, d)
  BY <1>0, <1>1, PutSeq
<1>3. /\ IsSeq(r) /\ Len(r) = n
      /\ \A i \in 1..n : i # n => r[i] = cs[i]
      /\ r[n] = d
  BY <1>2 DEF Changes
<1>4. Above(t, p, d) = Above(t, p, cs[n])
  BY <1>0 DEF SameFrame, Above
<1>5. ASSUME NEW k \in 1..n PROVE CallOK(t, p, r[k])
  BY <1>0, <1>1, <1>3 DEF CallsOK
<1>6. Bottom(t, p, r[1])
  <2>1. Bottom(t, p, cs[1])
    BY <1>0 DEF CallsOK
  <2>2. CASE n = 1
    <3>1. r[1] = d /\ cs[n] = cs[1]
      BY <1>1, <1>3, <2>2
    <3> QED
      BY <1>0, <1>4, <2>1, <3>1 DEF Bottom, SameFrame
  <2>3. CASE n # 1
    <3>1. 1 \in 1..n
      BY <1>1
    <3>2. r[1] = cs[1]
      BY <1>3, <2>3, <3>1
    <3> QED
      BY <2>1, <3>2
  <2> QED
    BY <2>2, <2>3
<1>7. ASSUME NEW k \in 1..n - 1 PROVE Between(t, p, r[k], r[k + 1])
  <2>1. Between(t, p, cs[k], cs[k + 1]) /\ k \in 1..n /\ k # n /\ k + 1 \in 1..n
    BY <1>0, <1>1 DEF CallsOK
  <2>2. r[k] = cs[k]
    BY <1>3, <2>1
  <2>3. CASE k + 1 = n
    BY <1>0, <1>3, <1>4, <2>1, <2>2, <2>3 DEF Between, SameFrame
  <2>4. CASE k + 1 # n
    BY <1>3, <2>1, <2>2, <2>4
  <2> QED
    BY <2>3, <2>4
<1> QED
  BY <1>1, <1>3, <1>5, <1>6, <1>7 DEF CallsOK, EndsWith

\* r is cs and a call d that the last of them has made.
Pushes(t, p, cs, d, r) ==
  CallsOK(t, p, cs) /\ CallOK(t, p, d) /\ Between(t, p, cs[Len(cs)], d) /\ r = Append(cs, d)

\* A call made leaves the calls in order.
LEMMA CallsPushed ==
  ASSUME NEW t, NEW p, NEW cs, NEW d, NEW r, Pushes(t, p, cs, d, r)
  PROVE  EndsWith(t, p, r, d)
<1> DEFINE n == Len(cs)
<1>0. CallsOK(t, p, cs) /\ CallOK(t, p, d) /\ Between(t, p, cs[n], d) /\ r = Append(cs, d)
  BY DEF Pushes
<1>1. n \in Nat /\ n > 0 /\ IsSeq(cs)
  BY <1>0, SeqLength DEF CallsOK
<1>2. /\ IsSeq(r) /\ Len(r) = n + 1
      /\ \A i \in 1..n : r[i] = cs[i]
      /\ r[n + 1] = d
  BY <1>0, <1>1, AppendSeq
<1>3. ASSUME NEW k \in 1..n + 1 PROVE CallOK(t, p, r[k])
  <2>1. CASE k = n + 1
    BY <1>0, <1>2, <2>1
  <2>2. CASE k # n + 1
    <3>1. k \in 1..n
      BY <1>1, <2>2
    <3> QED
      BY <1>0, <1>2, <3>1 DEF CallsOK
  <2> QED
    BY <2>1, <2>2
<1>4. Bottom(t, p, r[1])
  BY <1>0, <1>1, <1>2 DEF CallsOK
<1>5. ASSUME NEW k \in 1..n PROVE Between(t, p, r[k], r[k + 1])
  <2>1. CASE k = n
    BY <1>0, <1>2, <2>1
  <2>2. CASE k # n
    <3>1. k \in 1..n - 1 /\ k + 1 \in 1..n
      BY <1>1, <2>2
    <3> QED
      BY <1>0, <1>2, <3>1 DEF CallsOK
  <2> QED
    BY <2>1, <2>2
<1> QED
  BY <1>1, <1>2, <1>3, <1>4, <1>5 DEF CallsOK, EndsWith

\* A call that returns leaves the calls in order.
LEMMA CallsPopped ==
  ASSUME NEW t, NEW p, NEW cs, NEW r, r = SubSeq(cs, 1, Len(cs) - 1),
         CallsOK(t, p, cs), Len(cs) # 1
  PROVE  /\ CallsOK(t, p, r) /\ Len(r) = Len(cs) - 1
         /\ Between(t, p, r[Len(r)], cs[Len(cs)])
<1> DEFINE n == Len(cs) - 1
<1>0. IsSeq(cs) /\ Len(cs) > 0 /\ Len(cs) \in Nat
  BY SeqLength DEF CallsOK
<1>1. n \in Nat /\ n > 0 /\ n + 1 = Len(cs) /\ n <= Len(cs)
  <2>1. \A l \in Nat : l > 0 /\ l # 1 => l - 1 \in Nat /\ l - 1 > 0 /\ l - 1 + 1 = l /\ l - 1 <= l
    OBVIOUS
  <2> QED
    BY <1>0, <2>1
<1> HIDE DEF n
<1>2. IsSeq(r) /\ Len(r) = n /\ \A i \in 1..n : r[i] = cs[i]
  <2>1. r = SubSeq(cs, 1, n)
    BY DEF n
  <2> QED
    BY <1>0, <1>1, <2>1, PrefixSeq
<1>3. ASSUME NEW k \in 1..n PROVE CallOK(t, p, r[k])
  <2>1. k \in 1..Len(cs)
    BY <1>1
  <2> QED
    BY <1>2, <2>1 DEF CallsOK
<1>4. Bottom(t, p, r[1])
  BY <1>0, <1>1, <1>2 DEF CallsOK
<1>5. ASSUME NEW k \in 1..n - 1 PROVE Between(t, p, r[k], r[k + 1])
  <2>1. k \in 1..n /\ k + 1 \in 1..n /\ k \in 1..Len(cs) - 1
    BY <1>1
  <2> QED
    BY <1>2, <2>1 DEF CallsOK
<1>6. Between(t, p, cs[n], cs[n + 1])
  BY <1>1 DEF CallsOK
<1>7. r[n] = cs[n]
  BY <1>1, <1>2
<1>8. Len(r) = Len(cs) - 1 /\ Len(cs) = n + 1
  BY <1>1, <1>2 DEF n
<1> QED
  BY <1>1, <1>2, <1>3, <1>4, <1>5, <1>6, <1>7, <1>8 DEF CallsOK

-----------------------------------------------------------------------------
(* What verified code promises where a call is                             *)

\* Where the call c is, by the map of its function.
Place(t, p, c) == MapOf(t, p, c)[c.ip]

\* A place of a map: operands, open blocks, and an instruction that keeps the map.
PlaceOK(t, p, c) ==
  /\ c.ip \in DOMAIN FuncsOf(t, p)[c.fn].code
  /\ Place(t, p, c).height \in Nat
  /\ Place(t, p, c).nest \in Seq([at : Nat, height : Nat])
  /\ KeepsMap(t, p, c.fn, c.ip, MapOf(t, p, c))

\* In verified code every call is at such a place.
LEMMA VerifiedPlace ==
  ASSUME NEW t, NEW p, Verifies(t, p), NEW c, CallOK(t, p, c)
  PROVE  PlaceOK(t, p, c)
<1>1. FunctionVerifies(t, p, c.fn)
  BY DEF Verifies, CallOK
<1>2. c.ip \in DOMAIN MapOf(t, p, c)
  BY DEF CallOK
<1> QED
  BY <1>1, <1>2 DEF FunctionVerifies, PlaceOK, Place, MapOf

\* The counts of a function are natural numbers, and so is the size of its frame.
LEMMA CountsAreNat ==
  ASSUME NEW t, NEW p, Verifies(t, p), NEW f \in DOMAIN FuncsOf(t, p)
  PROVE  /\ FuncsOf(t, p)[f].params \in Nat /\ FuncsOf(t, p)[f].rets \in Nat
         /\ Size(t, p, f) \in Nat
<1>1. FunctionVerifies(t, p, f)
  BY DEF Verifies
<1>2. /\ FuncsOf(t, p)[f].params \in Nat /\ FuncsOf(t, p)[f].rets \in Nat
      /\ FuncsOf(t, p)[f].slots \in Nat
  BY <1>1 DEF FunctionVerifies
<1> QED
  BY <1>2 DEF Size

\* No block is open where a function begins.
LEMMA NothingShifted ==
  ASSUME NEW b
  PROVE  Shifted(<<>>, b) = <<>>
BY DEF Shifted

\* A call that begins.
Fresh(t, p, c) ==
  /\ DOMAIN c = {"fn", "ip", "locals", "base", "ctrl", "temp", "held"}
  /\ c.fn \in DOMAIN FuncsOf(t, p) /\ c.ip = 1 /\ c.ctrl = <<>>
  /\ c.locals \in Int /\ c.base \in Nat /\ c.held \in Nat

\* A call begins where the map of its function does.
LEMMA FreshCall ==
  ASSUME NEW t, NEW p, Verifies(t, p), NEW c, Fresh(t, p, c)
  PROVE  CallOK(t, p, c) /\ HeightAt(t, p, c) = 0
<1>1. FunctionVerifies(t, p, c.fn)
  BY DEF Verifies, Fresh
<1>2. 1 \in DOMAIN MapOf(t, p, c) /\ MapOf(t, p, c)[1].height = 0 /\ MapOf(t, p, c)[1].nest = <<>>
  BY <1>1 DEF FunctionVerifies, Reaches, Entry, MapOf
<1>3. c.ctrl = Shifted(MapOf(t, p, c)[c.ip].nest, c.base)
  BY <1>2, NothingShifted DEF Fresh
<1> QED
  BY <1>2, <1>3 DEF CallOK, HeightAt, Fresh

\* d is c moved to where the successor s of its instruction is.
MovedBy(c, d, s) ==
  /\ DOMAIN d = {"fn", "ip", "locals", "base", "ctrl", "temp", "held"}
  /\ SameFrame(c, d)
  /\ d.ip = s.at /\ d.ctrl = Shifted(s.nest, c.base)

SuccessorsOf(t, p, c) == Successors(t, p, c.fn, c.ip, Place(t, p, c))

\* Where an instruction leads, the map goes on.
LEMMA MovedCall ==
  ASSUME NEW t, NEW p, Verifies(t, p), NEW c, CallOK(t, p, c),
         NEW s, s \in SuccessorsOf(t, p, c), NEW d, MovedBy(c, d, s)
  PROVE  CallOK(t, p, d) /\ HeightAt(t, p, d) = s.height
<1>1. KeepsMap(t, p, c.fn, c.ip, MapOf(t, p, c))
  BY VerifiedPlace DEF PlaceOK
<1>2. Reaches(MapOf(t, p, c), s)
  BY <1>1 DEF KeepsMap, SuccessorsOf, Place
<1>3. MapOf(t, p, d) = MapOf(t, p, c)
  BY DEF MapOf, MovedBy, SameFrame
<1>4. /\ d.ip \in DOMAIN MapOf(t, p, d) /\ MapOf(t, p, d)[d.ip].height = s.height
      /\ MapOf(t, p, d)[d.ip].nest = s.nest
  BY <1>2, <1>3 DEF Reaches, MovedBy
<1>5. d.ctrl = Shifted(MapOf(t, p, d)[d.ip].nest, d.base)
  BY <1>4 DEF MovedBy, SameFrame
<1> QED
  BY <1>4, <1>5 DEF CallOK, HeightAt, MovedBy, SameFrame

-----------------------------------------------------------------------------
(* Where the machine is                                                    *)

Program == Programs[prog]
Here == Place(target, Program, Top)

\* The machine executes the instruction of the code; on wasm32 it has no width.
InstrOfCode ==
  /\ Instr.op = Raw.op /\ Instr.arg = Raw.arg /\ Instr.name = Raw.name /\ Instr.depth = Raw.depth
  /\ Instr.arg \in Int

\* What the invariant says of a machine that runs: its code verifies, its calls
\* and operands are in order, and the last call is at a place of its map.
LEMMA RunsHere ==
  ASSUME AsMapped, Running
  PROVE  /\ Verifies(target, Program)
         /\ CallsOK(target, Program, calls) /\ StackOK(target, Program, Top, stk, frameStackTop)
         /\ CallOK(target, Program, Top) /\ PlaceOK(target, Program, Top)
<1>1. Verifies(target, Program)
  BY DEF AsMapped, VerifiedCode, Program
<1>2. CallsOK(target, Program, calls) /\ StackOK(target, Program, Top, stk, frameStackTop)
  BY DEF AsMapped, RunsOK, Program, Top
<1>3. Len(calls) \in 1..Len(calls)
  BY <1>2, SeqLength DEF CallsOK
<1>4. CallOK(target, Program, Top)
  BY <1>2, <1>3 DEF CallsOK, Top
<1> QED
  BY <1>1, <1>2, <1>4, VerifiedPlace

\* Verified code has instructions.
LEMMA CodeIsRun ==
  ASSUME AsMapped, Running
  PROVE  InstrOfCode
<1>1. KeepsMap(target, Program, Top.fn, Top.ip, MapOf(target, Program, Top))
  BY RunsHere DEF PlaceOK
<1>2. DOMAIN Raw = {"op", "arg", "name", "width", "depth"} /\ Raw.arg \in Int
  BY <1>1 DEF KeepsMap, Raw, Funcs, Program, I0, Inst
<1> QED
  BY <1>2 DEF InstrOfCode, Instr

\* Operands: there is a natural number of them, those of the call at its place
\* above those of its callers.
LEMMA OperandsHere ==
  ASSUME AsMapped, Running
  PROVE  /\ IsSeq(stk) /\ Len(stk) \in Nat /\ Len(stk) = Top.base + Here.height
         /\ Top.base \in Nat /\ Here.height \in Nat
<1>1. IsSeq(stk) /\ Len(stk) = Top.base + Here.height
  BY RunsHere DEF StackOK, HeightAt, Here, Place
<1>2. Top.base \in Nat /\ Here.height \in Nat
  BY RunsHere DEF CallOK, PlaceOK, Here
<1> QED
  BY <1>1, <1>2

-----------------------------------------------------------------------------
(* Steps within a function                                                 *)

\* A step of the last call to a successor of its instruction.
LEMMA StepInFunction ==
  ASSUME AsMapped, Running,
         NEW s, s \in SuccessorsOf(target, Program, Top),
         NEW d, MovedBy(Top, d, s), calls' = [calls EXCEPT ![Len(calls)] = d],
         IsSeq(stk'), Len(stk') = Top.base + s.height,
         UNCHANGED <<picked, frameStackTop, status>>
  PROVE  AsMapped'
<1>1. CallOK(target, Program, d) /\ HeightAt(target, Program, d) = s.height
  BY RunsHere, MovedCall
<1>2. SameFrame(calls[Len(calls)], d)
  BY DEF MovedBy, Top
<1>3. CallsOK(target, Program, calls') /\ calls'[Len(calls')] = d
  <2>1. CallsOK(target, Program, calls)
    BY RunsHere
  <2>2. Replaces(target, Program, calls, d, calls')
    BY <1>1, <1>2, <2>1 DEF Replaces
  <2>3. EndsWith(target, Program, calls', d)
    BY <2>2, CallsReplaced
  <2> QED
    BY <2>3 DEF EndsWith
<1>4. frameStackTop = Top.locals
  BY RunsHere DEF StackOK
<1>5. StackOK(target, Program, d, stk', frameStackTop)
  BY <1>1, <1>4 DEF StackOK, MovedBy, SameFrame
<1>6. RunsOK(target, Program, calls', stk', frameStackTop)
  BY <1>3, <1>5 DEF RunsOK
<1>7. target' = target /\ prog' = prog /\ status' = status /\ frameStackTop' = frameStackTop
  BY DEF picked
<1>8. <<target, prog>> \in VerifiedCode
  BY DEF AsMapped
<1>9. RunsOK(target', Programs[prog'], calls', stk', frameStackTop')
  BY <1>6, <1>7 DEF Program
<1>10. status' # "exited"
  BY <1>7 DEF Running
<1>11. (<<target, prog>> \in VerifiedCode)'
  BY <1>7, <1>8
<1> QED
  BY <1>9, <1>10, <1>11 DEF AsMapped

\* The call Top with the next instruction at i.
TopAt(i) == [Top EXCEPT !.ip = i, !.temp = IF target = "vm" THEN 0 ELSE Temp]

\* Moving on changes neither the frame nor the open blocks.
LEMMA MovedTop ==
  ASSUME AsMapped, Running, NEW i
  PROVE  /\ MovedTo(i) = [calls EXCEPT ![Len(calls)] = TopAt(i)]
         /\ DOMAIN TopAt(i) = {"fn", "ip", "locals", "base", "ctrl", "temp", "held"}
         /\ SameFrame(Top, TopAt(i))
         /\ TopAt(i).ip = i /\ TopAt(i).ctrl = Shifted(Here.nest, Top.base)
<1>1. /\ DOMAIN Top = {"fn", "ip", "locals", "base", "ctrl", "temp", "held"}
      /\ Top.ctrl = Shifted(Here.nest, Top.base)
  BY RunsHere DEF CallOK, Here, Place
<1>2. MovedTo(i) = [calls EXCEPT ![Len(calls)] = TopAt(i)]
  BY DEF MovedTo, TopAt, Top
<1>3. SameFrame(Top, TopAt(i))
  BY <1>1 DEF SameFrame, TopAt
<1> QED
  BY <1>1, <1>2, <1>3 DEF TopAt

\* A step to a successor that leaves the blocks as they are.
LEMMA StepGoes ==
  ASSUME AsMapped, Running,
         NEW s, s \in SuccessorsOf(target, Program, Top), s.nest = Here.nest,
         Goto(s.at), IsSeq(stk'), Len(stk') = Top.base + s.height,
         UNCHANGED <<picked, frameStackTop, status>>
  PROVE  AsMapped'
<1> DEFINE d == TopAt(s.at)
<1>1. MovedBy(Top, d, s)
  BY MovedTop DEF MovedBy
<1>2. calls' = [calls EXCEPT ![Len(calls)] = d]
  BY MovedTop DEF Goto
<1> HIDE DEF d
<1> QED
  BY <1>1, <1>2, StepInFunction

EffectsHere == Effects(target, Program, Raw)

\* What an instruction takes is there, and the map goes on with what it leaves.
LEMMA EffectHere ==
  ASSUME AsMapped, Running, NEW e, e \in EffectsHere
  PROVE  /\ e[1] \in Nat /\ e[1] <= Here.height
         /\ Entry(Top.ip + 1, Here.height - e[1] + e[2], Here.nest) \in SuccessorsOf(target, Program, Top)
<1>1. KeepsMap(target, Program, Top.fn, Top.ip, MapOf(target, Program, Top))
  BY RunsHere DEF PlaceOK
<1>2. Raw = FuncsOf(target, Program)[Top.fn].code[Top.ip]
  BY DEF Raw, Funcs, Program
<1>3. e[1] \in Needs(target, Program, Top.fn, Raw)
  BY DEF Needs, EffectsHere
<1>4. e[1] \in 0..Here.height
  BY <1>1, <1>2, <1>3 DEF KeepsMap, Here, Place
<1>5. Entry(Top.ip + 1, Here.height - e[1] + e[2], Here.nest) \in SuccessorsOf(target, Program, Top)
  BY <1>2 DEF SuccessorsOf, Successors, EffectsHere, Here
<1> QED
  BY <1>4, <1>5, OperandsHere

\* A step to the next instruction that takes and leaves what the map says.
LEMMA StepByEffect ==
  ASSUME AsMapped, Running, NEW e, e \in EffectsHere, e[2] \in Int,
         Continue, IsSeq(stk'), Len(stk') = Len(stk) - e[1] + e[2],
         UNCHANGED <<picked, frameStackTop, status>>
  PROVE  AsMapped'
<1> DEFINE s == Entry(Top.ip + 1, Here.height - e[1] + e[2], Here.nest)
<1>1. s \in SuccessorsOf(target, Program, Top)
  BY EffectHere
<1>2. s.nest = Here.nest /\ s.at = Top.ip + 1 /\ s.height = Here.height - e[1] + e[2]
  BY DEF Entry
<1> HIDE DEF s
<1>3. Goto(s.at)
  BY <1>2 DEF Continue
<1>4. Len(stk') = Top.base + s.height
  BY <1>2, OperandsHere, EffectHere
<1> QED
  BY <1>1, <1>2, <1>3, <1>4, StepGoes

\* The effects of the instructions.
LEMMA EffectsOf ==
  ASSUME NEW t, NEW p, NEW i
  PROVE  /\ i.op \in Pushing => <<0, 1>> \in Effects(t, p, i)
         /\ i.op \in Popping => <<1, 0>> \in Effects(t, p, i)
         /\ i.op \in Changing => <<1, 1>> \in Effects(t, p, i)
         /\ i.op = "LABEL" => <<0, 0>> \in Effects(t, p, i)
         /\ i.op = "DUP" => <<1, 2>> \in Effects(t, p, i)
         /\ i.op = "STORE" => <<2, 0>> \in Effects(t, p, i)
         /\ i.op \in BinaryOps \cup {"INDEX_ADDR"} => <<2, 1>> \in Effects(t, p, i)
         /\ i.op = "CALL" /\ i.name \in DOMAIN RuntimeRets =>
              <<i.arg, RuntimeRets[i.name]>> \in Effects(t, p, i)
         /\ i.op = "CALL" /\ i.name \in DOMAIN FuncsOf(t, p) =>
              <<FuncsOf(t, p)[i.name].params, FuncsOf(t, p)[i.name].rets>> \in Effects(t, p, i)
         /\ i.op = "CALL_INTRINSIC" => <<0, IF i.name = "note" THEN 1 ELSE 0>> \in Effects(t, p, i)
         /\ i.op = "IFACE_CALL" =>
              \A f \in Methods(p, i.name) : <<i.arg + 1, FuncsOf(t, p)[f].rets>> \in Effects(t, p, i)
BY DEF Effects, When

\* k operands are there to be taken.
Enough(k) == k \in Nat /\ k <= Here.height

\* What is taken, and what is left when it is.
LEMMA Takes ==
  ASSUME AsMapped, Running, NEW k, Enough(k)
  PROVE  /\ IsSeq(Rest(k)) /\ Len(Rest(k)) = Len(stk) - k
         /\ IsSeq(Args(k)) /\ Len(Args(k)) = k
<1>1. k \in Nat /\ k <= Len(stk) /\ Len(stk) - k \in Nat /\ Len(stk) - k <= Len(stk)
  BY OperandsHere DEF Enough
<1>2. IsSeq(stk)
  BY OperandsHere
<1>3. IsSeq(Rest(k)) /\ Len(Rest(k)) = Len(stk) - k
  BY <1>1, <1>2, PrefixSeq DEF Rest
<1>4. IsSeq(Args(k)) /\ Len(Args(k)) = k
  BY <1>1, <1>2, SuffixSeq DEF Args
<1> QED
  BY <1>3, <1>4

\* The four ways in which an instruction that is not a call or a block uses operands.
LEMMA StepPushes ==
  ASSUME AsMapped, Running, <<0, 1>> \in EffectsHere,
         Continue, NEW x, stk' = Append(stk, x), UNCHANGED <<picked, frameStackTop, status>>
  PROVE  AsMapped'
<1>1. IsSeq(stk') /\ Len(stk') = Len(stk) - 0 + 1
  BY OperandsHere, AppendSeq
<1> DEFINE e == <<0, 1>>
<1>2. e \in EffectsHere /\ e[2] \in Int /\ Len(stk') = Len(stk) - e[1] + e[2]
  BY <1>1
<1> HIDE DEF e
<1> QED
  BY <1>1, <1>2, StepByEffect

LEMMA StepPops ==
  ASSUME AsMapped, Running, NEW k, <<k, 0>> \in EffectsHere,
         Continue, stk' = Rest(k), UNCHANGED <<picked, frameStackTop, status>>
  PROVE  AsMapped'
<1> DEFINE e == <<k, 0>>
<1>1. e \in EffectsHere /\ e[1] = k /\ e[2] = 0
  OBVIOUS
<1> HIDE DEF e
<1>2. Enough(k)
  BY <1>1, EffectHere DEF Enough
<1>3. IsSeq(stk') /\ Len(stk') = Len(stk) - e[1] + e[2]
  <2>1. Len(stk) \in Nat /\ k \in Nat
    BY <1>2, OperandsHere DEF Enough
  <2> QED
    BY <1>1, <1>2, <2>1, Takes
<1> QED
  BY <1>1, <1>3, StepByEffect

LEMMA StepReplaces ==
  ASSUME AsMapped, Running, NEW k, <<k, 1>> \in EffectsHere,
         Continue, NEW x, stk' = Append(Rest(k), x), UNCHANGED <<picked, frameStackTop, status>>
  PROVE  AsMapped'
<1> DEFINE e == <<k, 1>>
<1>1. e \in EffectsHere /\ e[1] = k /\ e[2] = 1
  OBVIOUS
<1> HIDE DEF e
<1>2. Enough(k)
  BY <1>1, EffectHere DEF Enough
<1>3. IsSeq(stk') /\ Len(stk') = Len(stk) - e[1] + e[2]
  <2>1. Len(stk) \in Nat /\ k \in Nat
    BY <1>2, OperandsHere DEF Enough
  <2>2. IsSeq(Rest(k)) /\ Len(Rest(k)) = Len(stk) - k
    BY <1>2, Takes
  <2>3. IsSeq(stk') /\ Len(stk') = Len(Rest(k)) + 1
    BY <2>2, AppendSeq
  <2> QED
    BY <1>1, <2>1, <2>2, <2>3
<1> QED
  BY <1>1, <1>3, StepByEffect

LEMMA StepGives ==
  ASSUME AsMapped, Running, NEW k, NEW n \in Nat, <<k, n>> \in EffectsHere,
         Continue, NEW out, IsSeq(out), Len(out) = n, stk' = Rest(k) \o out,
         UNCHANGED <<picked, frameStackTop, status>>
  PROVE  AsMapped'
<1> DEFINE e == <<k, n>>
<1>1. e \in EffectsHere /\ e[1] = k /\ e[2] = n
  OBVIOUS
<1> HIDE DEF e
<1>2. Enough(k)
  BY <1>1, EffectHere DEF Enough
<1>3. IsSeq(stk') /\ Len(stk') = Len(stk) - e[1] + e[2]
  <2>1. Len(stk) \in Nat /\ k \in Nat
    BY <1>2, OperandsHere DEF Enough
  <2>2. IsSeq(Rest(k)) /\ Len(Rest(k)) = Len(stk) - k
    BY <1>2, Takes
  <2>3. IsSeq(stk') /\ Len(stk') = Len(Rest(k)) + n
    BY <2>2, ConcatSeq
  <2> QED
    BY <1>1, <2>1, <2>2, <2>3
<1> QED
  BY <1>1, <1>3, StepByEffect

\* What the instruction that is next does to the operands.
LEMMA EffectsNow ==
  ASSUME AsMapped, Running
  PROVE  /\ Instr.op \in Pushing => <<0, 1>> \in EffectsHere
         /\ Instr.op \in Popping => <<1, 0>> \in EffectsHere
         /\ Instr.op \in Changing => <<1, 1>> \in EffectsHere
         /\ Instr.op = "LABEL" => <<0, 0>> \in EffectsHere
         /\ Instr.op = "DUP" => <<1, 2>> \in EffectsHere
         /\ Instr.op = "STORE" => <<2, 0>> \in EffectsHere
         /\ Instr.op \in BinaryOps \cup {"INDEX_ADDR"} => <<2, 1>> \in EffectsHere
         /\ Instr.op = "CALL" /\ Instr.name \in DOMAIN RuntimeRets =>
              <<Instr.arg, RuntimeRets[Instr.name]>> \in EffectsHere
         /\ Instr.op = "CALL" /\ Instr.name \in DOMAIN Funcs =>
              <<Funcs[Instr.name].params, Funcs[Instr.name].rets>> \in EffectsHere
         /\ Instr.op = "CALL_INTRINSIC" => <<0, IF Instr.name = "note" THEN 1 ELSE 0>> \in EffectsHere
         /\ Instr.op = "IFACE_CALL" =>
              \A f \in Methods(Program, Instr.name) : <<Instr.arg + 1, Funcs[f].rets>> \in EffectsHere
<1>1. Instr.op = Raw.op /\ Instr.arg = Raw.arg /\ Instr.name = Raw.name
  BY CodeIsRun DEF InstrOfCode
<1>2. Funcs = FuncsOf(target, Program)
  BY DEF Funcs, Program
<1> QED
  BY <1>1, <1>2, EffectsOf DEF EffectsHere

\* A runtime function leaves as many results as RuntimeRets says.
LEMMA RuntimeGives ==
  ASSUME NEW name \in DOMAIN RuntimeRets, NEW args, NEW g
  PROVE  IsSeq(Runtime(name, args, g).out) /\ Len(Runtime(name, args, g).out) = RuntimeRets[name]
<1> DEFINE out == Runtime(name, args, g).out
<1>1. CASE name \in NoResult
  <2>1. out = <<>> /\ RuntimeRets[name] = 0
    BY <1>1 DEF Runtime, RuntimeRets, NoResult
  <2> QED
    BY <2>1, TupleSeq
<1>2. CASE name \in OneResult
  <2>1. \E x : out = <<x>>
    BY <1>2 DEF Runtime, OneResult
  <2>2. RuntimeRets[name] = 1
    BY <1>2 DEF RuntimeRets, NoResult, OneResult
  <2> QED
    BY <2>1, <2>2, TupleSeq
<1>3. CASE name = "runtime.MapGet"
  <2>1. \E x, y : out = <<x, y>>
    BY <1>3 DEF Runtime
  <2>2. RuntimeRets[name] = 2
    BY <1>3 DEF RuntimeRets, NoResult
  <2> QED
    BY <2>1, <2>2, TupleSeq
<1>4. name \in NoResult \cup OneResult \cup {"runtime.MapGet"}
  BY DEF RuntimeRets
<1> QED
  BY <1>1, <1>2, <1>3, <1>4

-----------------------------------------------------------------------------
(* The actions, one by one                                                 *)

\* A constant is pushed.
LEMMA ConstantKeeps ==
  ASSUME AsMapped, Constant
  PROVE  AsMapped'
<1>1. Running /\ Instr.op \in Pushing /\ Continue /\ UNCHANGED <<picked, frameStackTop, status>>
  BY DEF Constant, Is, Pushing
<1>2. PICK x : stk' = Append(stk, x)
  BY DEF Constant
<1> QED
  BY <1>1, <1>2, EffectsNow, StepPushes

LEMMA GetKeeps ==
  ASSUME AsMapped, Get
  PROVE  AsMapped'
<1>1. Running /\ Instr.op \in Pushing /\ Continue /\ UNCHANGED <<picked, frameStackTop, status>>
  BY DEF Get, Is, Pushing
<1>2. PICK x : stk' = Append(stk, x)
  BY DEF Get
<1> QED
  BY <1>1, <1>2, EffectsNow, StepPushes

LEMMA SetVariableKeeps ==
  ASSUME AsMapped, SetVariable
  PROVE  AsMapped'
<1>1. /\ Running /\ Instr.op \in Popping /\ Continue /\ UNCHANGED <<picked, frameStackTop, status>>
      /\ stk' = Rest(1)
  BY DEF SetVariable, Is, Popping
<1> QED
  BY <1>1, EffectsNow, StepPops

LEMMA DropOrDupKeeps ==
  ASSUME AsMapped, DropOrDup
  PROVE  AsMapped'
<1>1. Running /\ Continue /\ UNCHANGED <<picked, frameStackTop, status>>
  BY DEF DropOrDup, Is
<1>2. CASE Instr.op = "DROP"
  <2>1. Instr.op \in Popping /\ stk' = Rest(1)
    BY <1>2 DEF DropOrDup, Popping
  <2> QED
    BY <1>1, <2>1, EffectsNow, StepPops
<1>3. CASE Instr.op = "DUP"
  <2>1. stk' = Append(stk, Peek(0)) /\ <<1, 2>> \in EffectsHere
    BY <1>1, <1>3, EffectsNow DEF DropOrDup
  <2>2. IsSeq(stk') /\ Len(stk') = Len(stk) - 1 + 2
    BY <1>1, <2>1, OperandsHere, AppendSeq
  <2> DEFINE e == <<1, 2>>
  <2>3. e \in EffectsHere /\ e[2] \in Int /\ Len(stk') = Len(stk) - e[1] + e[2]
    BY <2>1, <2>2
  <2> HIDE DEF e
  <2> QED
    BY <1>1, <2>2, <2>3, StepByEffect
<1>4. Instr.op \in {"DROP", "DUP"}
  BY DEF DropOrDup, Is
<1> QED
  BY <1>2, <1>3, <1>4

\* A program that is no longer running is where it was.
LEMMA StopKeeps ==
  ASSUME AsMapped, UNCHANGED picked, status' \in {"died", "overflow"}
  PROVE  AsMapped'
<1>1. (<<target, prog>> \in VerifiedCode)'
  BY DEF AsMapped, picked
<1> QED
  BY <1>1 DEF AsMapped, Running

LEMMA BinaryOpKeeps ==
  ASSUME AsMapped, BinaryOp
  PROVE  AsMapped'
<1>1. Running /\ Instr.op \in BinaryOps /\ UNCHANGED picked
  BY DEF BinaryOp, Is
<1>2. CASE Died
  BY <1>1, <1>2, StopKeeps DEF Died
<1>3. CASE /\ stk' = Append(Rest(2), Computed(Instr, Peek(1), Peek(0)))
           /\ Continue /\ UNCHANGED <<frameStackTop, h, status>>
  <2>1. <<2, 1>> \in EffectsHere
    BY <1>1, EffectsNow
  <2> QED
    BY <1>1, <1>3, <2>1, StepReplaces
<1> QED
  BY <1>2, <1>3 DEF BinaryOp

LEMMA UnaryOpKeeps ==
  ASSUME AsMapped, UnaryOp
  PROVE  AsMapped'
<1>1. /\ Running /\ Continue /\ UNCHANGED <<picked, frameStackTop, status>>
      /\ Instr.op \in {"NOT", "NEG", "LOAD", "OFFSET", "LEN", "CAP", "LABEL"}
  BY DEF UnaryOp, Is
<1>2. CASE Instr.op = "LABEL"
  <2>1. stk' = stk /\ <<0, 0>> \in EffectsHere
    BY <1>1, <1>2, EffectsNow DEF UnaryOp
  <2> DEFINE e == <<0, 0>>
  <2>2. e \in EffectsHere /\ e[2] \in Int /\ Len(stk') = Len(stk) - e[1] + e[2] /\ IsSeq(stk')
    BY <1>1, <2>1, OperandsHere
  <2> HIDE DEF e
  <2> QED
    BY <1>1, <2>2, StepByEffect
<1>3. CASE Instr.op # "LABEL"
  <2>1. <<1, 1>> \in EffectsHere
    BY <1>1, <1>3, EffectsNow DEF Changing
  <2>2. PICK x : stk' = Append(Rest(1), x)
    BY <1>1, <1>3 DEF UnaryOp
  <2> QED
    BY <1>1, <2>1, <2>2, StepReplaces
<1> QED
  BY <1>2, <1>3

LEMMA StoreKeeps ==
  ASSUME AsMapped, Store
  PROVE  AsMapped'
<1>1. /\ Running /\ Instr.op = "STORE" /\ Continue /\ UNCHANGED <<picked, frameStackTop, status>>
      /\ stk' = Rest(2)
  BY DEF Store, Is
<1> QED
  BY <1>1, EffectsNow, StepPops

LEMMA IndexAddrKeeps ==
  ASSUME AsMapped, IndexAddr
  PROVE  AsMapped'
<1>1. /\ Running /\ Instr.op = "INDEX_ADDR" /\ Continue /\ UNCHANGED <<picked, frameStackTop, status>>
      /\ stk' = Append(Rest(2), StringPtr(h, Peek(1)) + Peek(0) * Instr.arg)
  BY DEF IndexAddr, Is
<1>2. <<2, 1>> \in EffectsHere
  BY <1>1, EffectsNow
<1> QED
  BY <1>1, <1>2, StepReplaces

LEMMA CallRuntimeKeeps ==
  ASSUME AsMapped, CallRuntime
  PROVE  AsMapped'
<1> DEFINE out == Runtime(Instr.name, Args(Instr.arg), h).out
           n == RuntimeRets[Instr.name]
<1>1. /\ Running /\ Instr.op = "CALL" /\ Instr.name \in DOMAIN RuntimeRets
      /\ Continue /\ UNCHANGED <<picked, frameStackTop, status>>
      /\ stk' = Rest(Instr.arg) \o out
  BY DEF CallRuntime, Is
<1>2. IsSeq(out) /\ Len(out) = n
  BY <1>1, RuntimeGives
<1>3. n \in Nat
  BY <1>1 DEF RuntimeRets
<1>4. <<Instr.arg, n>> \in EffectsHere
  BY <1>1, EffectsNow
<1> HIDE DEF out, n
<1> QED
  BY <1>1, <1>2, <1>3, <1>4, StepGives

LEMMA ConvertKeeps ==
  ASSUME AsMapped, Convert
  PROVE  AsMapped'
<1> DEFINE out == Converted(Peek(0), Instr.name).out
<1>1. /\ Running /\ Instr.op = "CONVERT"
      /\ Continue /\ UNCHANGED <<picked, frameStackTop, status>>
      /\ stk' = Rest(1) \o out
  BY DEF Convert, Is
<1>2. IsSeq(out) /\ Len(out) = 1
  <2>1. CASE Instr.name = "string"
    <3>1. \E x : out = <<x>>
      BY <2>1 DEF Converted, Runtime
    <3> QED
      BY <3>1, TupleSeq
  <2>2. CASE Instr.name # "string"
    <3>1. CASE Instr.name = "byte"
      BY <3>1, TupleSeq DEF Converted
    <3>2. CASE Instr.name # "byte"
      BY <2>2, <3>2, TupleSeq DEF Converted
    <3> QED
      BY <3>1, <3>2
  <2> QED
    BY <2>1, <2>2
<1>3. <<1, 1>> \in EffectsHere
  BY <1>1, EffectsNow DEF Changing
<1> HIDE DEF out
<1> QED
  BY <1>1, <1>2, <1>3, StepGives

LEMMA IfaceBoxKeeps ==
  ASSUME AsMapped, IfaceBox
  PROVE  AsMapped'
<1>1. /\ Running /\ Instr.op = "IFACE_BOX" /\ Continue /\ UNCHANGED <<picked, frameStackTop, status>>
      /\ stk' = Append(Rest(1), Boxed(Instr.arg, Peek(0)).at)
  BY DEF IfaceBox, Is
<1>2. <<1, 1>> \in EffectsHere
  BY <1>1, EffectsNow DEF Changing
<1> QED
  BY <1>1, <1>2, StepReplaces

LEMMA CallIntrinsicKeeps ==
  ASSUME AsMapped, CallIntrinsic
  PROVE  AsMapped'
<1>1. Running /\ Instr.op = "CALL_INTRINSIC" /\ Continue /\ UNCHANGED <<picked, frameStackTop, status>>
  BY DEF CallIntrinsic, Is
<1>2. CASE Instr.name = "note"
  <2>1. <<0, 1>> \in EffectsHere
    BY <1>1, <1>2, EffectsNow
  <2>2. PICK x : stk' = Append(stk, x)
    BY <1>2 DEF CallIntrinsic
  <2> QED
    BY <1>1, <2>1, <2>2, StepPushes
<1>3. CASE Instr.name # "note"
  <2>1. stk' = stk /\ <<0, 0>> \in EffectsHere
    BY <1>1, <1>3, EffectsNow DEF CallIntrinsic
  <2> DEFINE e == <<0, 0>>
  <2>2. e \in EffectsHere /\ e[2] \in Int /\ Len(stk') = Len(stk) - e[1] + e[2] /\ IsSeq(stk')
    BY <1>1, <2>1, OperandsHere
  <2> HIDE DEF e
  <2> QED
    BY <1>1, <2>2, StepByEffect
<1> QED
  BY <1>2, <1>3

LEMMA TempGetKeeps ==
  ASSUME AsMapped, TempGet
  PROVE  AsMapped'
<1>1. Running /\ Instr.op \in {"TEMP_GET", "UNREACHABLE"} /\ UNCHANGED picked
  BY DEF TempGet, Is
<1>2. CASE Instr.op = "UNREACHABLE"
  BY <1>1, <1>2, StopKeeps DEF TempGet, Died
<1>3. CASE Instr.op = "TEMP_GET"
  <2>1. stk' = Append(stk, Top.temp) /\ Continue /\ UNCHANGED <<frameStackTop, status>>
    BY <1>3 DEF TempGet
  <2>2. <<0, 1>> \in EffectsHere
    BY <1>1, <1>3, EffectsNow DEF Pushing
  <2> QED
    BY <1>1, <2>1, <2>2, StepPushes
<1> QED
  BY <1>1, <1>2, <1>3

LEMMA PanicKeeps ==
  ASSUME AsMapped, Panic
  PROVE  AsMapped'
BY StopKeeps DEF Panic, Died

\* Where a jump leads.
LEMMA JumpsHere ==
  ASSUME AsMapped, Running
  PROVE  /\ Instr.op = "JMP" =>
              Entry(labels(Instr.arg), Here.height, Here.nest) \in SuccessorsOf(target, Program, Top)
         /\ Instr.op \in {"JMP_IF", "JMP_IF_NOT"} =>
              Entry(labels(Instr.arg), Here.height - 1, Here.nest) \in SuccessorsOf(target, Program, Top)
<1>1. Instr.op = Raw.op /\ Instr.arg = Raw.arg
  BY CodeIsRun DEF InstrOfCode
<1>2. Raw = FuncsOf(target, Program)[Top.fn].code[Top.ip]
  BY DEF Raw, Funcs, Program
<1>3. labels(Instr.arg) = LabelAt(FuncsOf(target, Program)[Top.fn].code, Raw.arg)
  BY <1>1 DEF labels, Funcs, Program
<1> QED
  BY <1>1, <1>2, <1>3 DEF SuccessorsOf, Successors, Here, When

LEMMA JumpKeeps ==
  ASSUME AsMapped, Jump
  PROVE  AsMapped'
<1> DEFINE s == Entry(labels(Instr.arg), Here.height, Here.nest)
<1>1. /\ Running /\ Instr.op = "JMP" /\ Goto(labels(Instr.arg))
      /\ UNCHANGED <<picked, frameStackTop, status>> /\ stk' = stk
  BY DEF Jump, Is
<1>2. s \in SuccessorsOf(target, Program, Top)
  BY <1>1, JumpsHere
<1>3. s.nest = Here.nest /\ s.at = labels(Instr.arg) /\ s.height = Here.height
  BY DEF Entry
<1> HIDE DEF s
<1>4. Goto(s.at) /\ IsSeq(stk') /\ Len(stk') = Top.base + s.height
  BY <1>1, <1>3, OperandsHere
<1> QED
  BY <1>1, <1>2, <1>3, <1>4, StepGoes

LEMMA JumpIfKeeps ==
  ASSUME AsMapped, JumpIf
  PROVE  AsMapped'
<1>1. /\ Running /\ Instr.op \in {"JMP_IF", "JMP_IF_NOT"}
      /\ UNCHANGED <<picked, frameStackTop, status>> /\ stk' = Rest(1)
  BY DEF JumpIf, Is
<1>2. <<1, 0>> \in EffectsHere
  BY <1>1, EffectsNow DEF Popping
<1>3. CASE Continue
  BY <1>1, <1>2, <1>3, StepPops
<1>4. CASE Goto(labels(Instr.arg))
  <2> DEFINE s == Entry(labels(Instr.arg), Here.height - 1, Here.nest)
  <2>1. s \in SuccessorsOf(target, Program, Top)
    BY <1>1, JumpsHere
  <2>2. s.nest = Here.nest /\ s.at = labels(Instr.arg) /\ s.height = Here.height - 1
    BY DEF Entry
  <2> HIDE DEF s
  <2>3. Enough(1)
    <3> DEFINE e == <<1, 0>>
    <3>1. e \in EffectsHere /\ e[1] = 1
      BY <1>2
    <3> HIDE DEF e
    <3> QED
      BY <1>1, <3>1, EffectHere DEF Enough
  <2>4. IsSeq(stk') /\ Len(stk') = Len(stk) - 1
    BY <1>1, <2>3, Takes
  <2>5. Goto(s.at) /\ Len(stk') = Top.base + s.height
    BY <1>1, <1>4, <2>2, <2>4, OperandsHere
  <2> QED
    BY <1>1, <2>1, <2>2, <2>4, <2>5, StepGoes
<1> QED
  BY <1>3, <1>4 DEF JumpIf

-----------------------------------------------------------------------------
(* Calls and returns                                                       *)

\* The machine makes frames of that size.
LEMMA SizeOfFrame ==
  ASSUME NEW f
  PROVE  frameSize(f) = Size(target, Program, f)
BY DEF frameSize, Size, Funcs, Program

\* The machine runs on with the calls cs, d the last of them.
LEMMA RunsOn ==
  ASSUME AsMapped, NEW d, EndsWith(target, Program, calls', d),
         StackOK(target, Program, d, stk', frameStackTop'),
         UNCHANGED picked, status' \in {"init", "run"}
  PROVE  AsMapped'
<1>1. RunsOK(target, Program, calls', stk', frameStackTop')
  BY DEF RunsOK, EndsWith
<1>2. target' = target /\ prog' = prog
  BY DEF picked
<1>3. RunsOK(target', Programs[prog'], calls', stk', frameStackTop')
  BY <1>1, <1>2 DEF Program
<1>4. (<<target, prog>> \in VerifiedCode)'
  BY <1>2 DEF AsMapped
<1> QED
  BY <1>3, <1>4 DEF AsMapped

\* A call of f whose effect is one of the instruction's.
LEMMA CallKeeps ==
  ASSUME AsMapped, Running, NEW f \in DOMAIN Funcs,
         <<Funcs[f].params, Funcs[f].rets>> \in EffectsHere,
         NEW s, IsSeq(s), Len(s) = Len(stk), NEW g,
         FrameFor(f, Returning, s, g), UNCHANGED picked
  PROVE  AsMapped'
<1> DEFINE n == Funcs[f].params
           rets == Funcs[f].rets
           held == Held(n)
           at == frameStackTop - (frameSize(f) + held) * W
           d == NewCall(f, at, Len(s) - n, held)
           c == TopAt(Top.ip + 1)
           u == Entry(Top.ip + 1, Here.height - n + rets, Here.nest)
<1>1. Funcs = FuncsOf(target, Program) /\ f \in DOMAIN FuncsOf(target, Program)
  BY DEF Funcs, Program
<1>2. n \in Nat /\ rets \in Nat /\ frameSize(f) \in Nat /\ held \in Nat
  BY <1>1, RunsHere, CountsAreNat, SizeOfFrame DEF Held
<1>3. n <= Here.height /\ u \in SuccessorsOf(target, Program, Top)
  <2> DEFINE e == <<n, rets>>
  <2>1. e \in EffectsHere /\ e[1] = n /\ e[2] = rets
    OBVIOUS
  <2> HIDE DEF e, n, rets
  <2> QED
    BY <2>1, EffectHere
<1>4. u.at = Top.ip + 1 /\ u.nest = Here.nest /\ u.height = Here.height - n + rets
  BY DEF Entry
<1> HIDE DEF n, rets, held, u
<1>5. Len(s) \in Nat /\ Len(s) = Top.base + Here.height /\ Top.base \in Nat /\ Here.height \in Nat
  BY OperandsHere
<1>6. frameStackTop = Top.locals /\ Top.locals \in Int
  BY RunsHere DEF StackOK, CallOK
<1>7. at \in Int /\ Len(s) - n \in Nat /\ Len(s) - n <= Len(s)
  BY <1>2, <1>3, <1>5, <1>6 DEF W
<1>8. at + (frameSize(f) + held) * W = Top.locals
  BY <1>2, <1>6 DEF W
<1> HIDE DEF at
<1>9. /\ CallOK(target, Program, d) /\ HeightAt(target, Program, d) = 0
      /\ d.fn = f /\ d.locals = at /\ d.base = Len(s) - n /\ d.held = held
  <2>1. /\ d.fn = f /\ d.locals = at /\ d.base = Len(s) - n /\ d.held = held
        /\ d.ip = 1 /\ d.ctrl = <<>>
        /\ DOMAIN d = {"fn", "ip", "locals", "base", "ctrl", "temp", "held"}
    BY DEF NewCall
  <2> HIDE DEF d
  <2>2. Fresh(target, Program, d)
    BY <1>1, <1>2, <1>7, <2>1 DEF Fresh
  <2> QED
    BY <2>1, <2>2, RunsHere, FreshCall
<1>10. CASE status' = "overflow"
  BY <1>10, StopKeeps
<1>11. CASE /\ frameStackTop' = at /\ calls' = Append(Returning, d)
            /\ stk' = SubSeq(s, 1, Len(s) - n) /\ status' = status
  <2> HIDE DEF d, c
  <2>1. MovedBy(Top, c, u) /\ Returning = [calls EXCEPT ![Len(calls)] = c]
    BY <1>4, MovedTop DEF MovedBy, Returning, c
  <2>2. /\ CallOK(target, Program, c) /\ HeightAt(target, Program, c) = Here.height - n + rets
        /\ SameFrame(Top, c)
    BY <1>3, <1>4, <2>1, RunsHere, MovedCall DEF MovedBy
  <2>3. EndsWith(target, Program, Returning, c)
    <3>1. Replaces(target, Program, calls, c, Returning)
      BY <2>1, <2>2, RunsHere DEF Replaces, Top
    <3> QED
      BY <3>1, CallsReplaced
  <2>4. Between(target, Program, c, d)
    <3>1. Above(target, Program, d) = c.locals
      BY <1>8, <1>9, <2>2, SizeOfFrame DEF Above, SameFrame
    <3>2. FuncsOf(target, Program)[d.fn].rets = rets
      BY <1>1, <1>9 DEF rets
    <3>3. d.base + rets = c.base + HeightAt(target, Program, c)
      BY <1>2, <1>5, <1>9, <2>2 DEF SameFrame
    <3> QED
      BY <3>1, <3>2, <3>3 DEF Between
  <2>5. EndsWith(target, Program, calls', d)
    <3>1. Pushes(target, Program, Returning, d, calls')
      BY <1>9, <1>11, <2>3, <2>4 DEF Pushes, EndsWith
    <3> QED
      BY <3>1, CallsPushed
  <2>6. StackOK(target, Program, d, stk', frameStackTop')
    <3>1. IsSeq(stk') /\ Len(stk') = Len(s) - n
      BY <1>7, <1>11, PrefixSeq
    <3> QED
      BY <1>7, <1>9, <1>11, <3>1 DEF StackOK
  <2> QED
    BY <1>11, <2>5, <2>6, RunsOn DEF Running
<1> QED
  BY <1>10, <1>11 DEF FrameFor, n, held, at

\* A direct call.
LEMMA CallFuncKeeps ==
  ASSUME AsMapped, CallFunc
  PROVE  AsMapped'
<1>1. /\ Running /\ Instr.op = "CALL" /\ Instr.name \in DOMAIN Funcs
      /\ FrameFor(Instr.name, Returning, stk, h) /\ UNCHANGED picked
  BY DEF CallFunc, Is
<1>2. <<Funcs[Instr.name].params, Funcs[Instr.name].rets>> \in EffectsHere
  BY <1>1, EffectsNow
<1>3. IsSeq(stk)
  BY <1>1, OperandsHere
<1> QED
  BY <1>1, <1>2, <1>3, CallKeeps

\* A dynamic call: of a function that the dispatch gives, or of none.
LEMMA IfaceCallKeeps ==
  ASSUME AsMapped, IfaceCall
  PROVE  AsMapped'
<1> DEFINE n == Instr.arg
           found == findDispatch(loadWord(h.mem, Peek(n)), Instr.name)
           s == [stk EXCEPT ![Len(stk) - n] = loadWord(h.mem, Peek(n) + W)]
           f == (CHOOSE d \in found : TRUE)[3]
<1>1. Running /\ Instr.op = "IFACE_CALL" /\ UNCHANGED picked
  BY DEF IfaceCall, Is
<1>2. CASE found = {}
  BY <1>1, <1>2, StopKeeps DEF IfaceCall, Died
<1>3. CASE found # {}
  <2>1. FrameFor(f, Returning, s, h)
    BY <1>3 DEF IfaceCall
  <2>2. Instr.op = Raw.op /\ Instr.arg = Raw.arg /\ Instr.name = Raw.name /\ Instr.arg \in Int
    BY <1>1, CodeIsRun DEF InstrOfCode
  <2>3. f \in Methods(Program, Instr.name)
    <3>1. PICK x : x = (CHOOSE d \in found : TRUE)
      OBVIOUS
    <3>2. x \in found
      BY <1>3, <3>1
    <3>3. x \in Program.dispatch /\ x[2] = Instr.name
      BY <3>2 DEF findDispatch, Program
    <3> QED
      BY <3>1, <3>3 DEF Methods
  <2>4. KeepsMap(target, Program, Top.fn, Top.ip, MapOf(target, Program, Top))
    BY <1>1, RunsHere DEF PlaceOK
  <2>5. Raw = FuncsOf(target, Program)[Top.fn].code[Top.ip] /\ Funcs = FuncsOf(target, Program)
    BY DEF Raw, Funcs, Program
  <2> HIDE DEF f, found
  <2>6. f \in DOMAIN Funcs /\ Funcs[f].params = n + 1
    BY <1>1, <2>2, <2>3, <2>4, <2>5 DEF KeepsMap
  <2>7. <<Funcs[f].params, Funcs[f].rets>> \in EffectsHere
    BY <1>1, <2>3, <2>6, EffectsNow
  <2>8. n + 1 \in Nat /\ n + 1 <= Here.height
    <3> DEFINE e == <<Funcs[f].params, Funcs[f].rets>>
    <3>1. e \in EffectsHere /\ e[1] = n + 1
      BY <2>6, <2>7
    <3> HIDE DEF e, n
    <3> QED
      BY <1>1, <3>1, EffectHere
  <2>9. IsSeq(s) /\ Len(s) = Len(stk)
    <3>0. n \in Nat
      <4>1. Raw.arg \in Needs(target, Program, Top.fn, Raw)
        BY <1>1, <2>2 DEF Needs, When
      <4>2. Raw.arg \in 0..Here.height
        BY <2>4, <2>5, <4>1 DEF KeepsMap, Here, Place
      <4> QED
        BY <2>2, <4>2
    <3>1. Len(stk) - n \in 1..Len(stk)
      BY <1>1, <2>8, <3>0, OperandsHere
    <3>2. Changes(stk, s, Len(stk) - n, loadWord(h.mem, Peek(n) + W))
      BY <1>1, <3>1, OperandsHere, PutSeq
    <3> QED
      BY <3>2 DEF Changes
  <2> HIDE DEF s
  <2> QED
    BY <1>1, <2>1, <2>6, <2>7, <2>9, CallKeeps
<1> QED
  BY <1>2, <1>3

\* What a return leaves: the operands of the callers and the results.
LEMMA ReturnLeaves ==
  ASSUME AsMapped, Running, Instr.op = "RETURN", stk' = IF target = "vm" THEN stk ELSE ResultsOnly
  PROVE  IsSeq(stk') /\ Len(stk') = Top.base + Funcs[Top.fn].rets
<1> DEFINE rets == Funcs[Top.fn].rets
<1>1. KeepsMap(target, Program, Top.fn, Top.ip, MapOf(target, Program, Top))
  BY RunsHere DEF PlaceOK
<1>2. Raw = FuncsOf(target, Program)[Top.fn].code[Top.ip] /\ Funcs = FuncsOf(target, Program)
  BY DEF Raw, Funcs, Program
<1>3. Raw.op = "RETURN"
  BY CodeIsRun DEF InstrOfCode
<1>4. rets \in Needs(target, Program, Top.fn, Raw)
  BY <1>2, <1>3 DEF Needs, When
<1>5. rets \in 0..Here.height
  BY <1>1, <1>2, <1>4 DEF KeepsMap, Here, Place
<1>6. CASE target = "vm"
  <2>1. Here.height = rets
    BY <1>1, <1>2, <1>3, <1>6 DEF KeepsMap, Here, Place
  <2> QED
    BY <1>6, <2>1, OperandsHere
<1>7. CASE target # "vm"
  <2>1. Enough(rets) /\ rets \in Nat
    BY <1>5, OperandsHere DEF Enough
  <2>2. IsSeq(Args(rets)) /\ Len(Args(rets)) = rets
    BY <2>1, Takes
  <2>3. Top.base \in Nat /\ Top.base <= Len(stk) /\ IsSeq(stk)
    BY OperandsHere
  <2>4. IsSeq(SubSeq(stk, 1, Top.base)) /\ Len(SubSeq(stk, 1, Top.base)) = Top.base
    BY <2>3, PrefixSeq
  <2>5. stk' = SubSeq(stk, 1, Top.base) \o Args(rets)
    BY <1>7 DEF ResultsOnly
  <2> QED
    BY <2>2, <2>4, <2>5, ConcatSeq
<1> QED
  BY <1>6, <1>7

\* An empty sequence is the empty one.
LEMMA EmptySeq ==
  ASSUME NEW s, IsSeq(s), Len(s) = 0
  PROVE  s = <<>>
<1>1. PICK S : s \in Seq(S)
  BY DEF IsSeq
<1> QED
  BY <1>1

\* The only call is the first, and it has no results.
LEMMA OnlyCall ==
  ASSUME AsMapped, Running, Len(calls) = 1
  PROVE  Top.base = 0 /\ Funcs[Top.fn].rets = 0
<1>1. Bottom(target, Program, Top)
  BY RunsHere DEF CallsOK, Top
<1>2. Top.base = 0 /\ Top.fn \in {"init$globals", "main"}
  BY <1>1 DEF Bottom
<1>3. Funcs["init$globals"].rets = 0 /\ Funcs["main"].rets = 0
  BY RunsHere DEF Verifies, Funcs, Program
<1> QED
  BY <1>2, <1>3

\* The first call, of a function f that has no caller.
LEMMA FirstCall ==
  ASSUME NEW t, NEW p, Verifies(t, p), NEW f \in {"init$globals", "main"},
         NEW at, at = FrameTop - Size(t, p, f) * W, NEW c, c = NewCall(f, at, 0, 0)
  PROVE  /\ EndsWith(t, p, <<c>>, c)
         /\ c.base = 0 /\ HeightAt(t, p, c) = 0 /\ c.locals = at
<1>1. f \in DOMAIN FuncsOf(t, p)
  BY DEF Verifies
<1>2. Size(t, p, f) \in Nat /\ FrameTop \in Nat
  BY <1>1, CountsAreNat, RegionsInOrder
<1>3. at \in Int /\ at + (Size(t, p, f) + 0) * W = FrameTop
  BY <1>2 DEF W
<1>4. /\ c.fn = f /\ c.locals = at /\ c.base = 0 /\ c.held = 0 /\ c.ip = 1 /\ c.ctrl = <<>>
      /\ DOMAIN c = {"fn", "ip", "locals", "base", "ctrl", "temp", "held"}
  BY DEF NewCall
<1>5. Fresh(t, p, c)
  BY <1>1, <1>3, <1>4 DEF Fresh
<1>6. CallOK(t, p, c) /\ HeightAt(t, p, c) = 0
  BY <1>5, FreshCall
<1>7. Bottom(t, p, c)
  BY <1>3, <1>4 DEF Bottom, Above
<1>8. IsSeq(<<c>>) /\ Len(<<c>>) = 1 /\ <<c>>[1] = c
  BY TupleSeq
<1>9. CallsOK(t, p, <<c>>)
  BY <1>6, <1>7, <1>8 DEF CallsOK
<1> QED
  BY <1>4, <1>6, <1>8, <1>9 DEF EndsWith

\* A return, to the caller, to main, or the end.
LEMMA ReturnKeeps ==
  ASSUME AsMapped, Return
  PROVE  AsMapped'
<1>1. /\ Running /\ Instr.op = "RETURN" /\ UNCHANGED picked
      /\ stk' = IF target = "vm" THEN stk ELSE ResultsOnly
  BY DEF Return, Is
<1>2. IsSeq(stk') /\ Len(stk') = Top.base + Funcs[Top.fn].rets
  BY <1>1, ReturnLeaves
<1>3. CASE Len(calls) = 1 /\ status = "init"
  <2> DEFINE at == FrameTop - frameSize("main") * W
             c == NewCall("main", at, 0, 0)
  <2>1. frameStackTop' = at /\ calls' = <<c>> /\ status' = "run"
    BY <1>3 DEF Return
  <2>2. at = FrameTop - Size(target, Program, "main") * W
    BY SizeOfFrame
  <2>3. c = NewCall("main", at, 0, 0)
    OBVIOUS
  <2> HIDE DEF at, c
  <2>4. /\ EndsWith(target, Program, <<c>>, c)
        /\ c.base = 0 /\ HeightAt(target, Program, c) = 0 /\ c.locals = at
    BY <1>1, <2>2, <2>3, RunsHere, FirstCall
  <2>5. Len(stk') = 0
    BY <1>1, <1>2, <1>3, OnlyCall
  <2>6. StackOK(target, Program, c, stk', frameStackTop')
    BY <1>2, <2>1, <2>4, <2>5 DEF StackOK
  <2> QED
    BY <1>1, <2>1, <2>4, <2>6, RunsOn
<1>4. CASE Len(calls) = 1 /\ status # "init"
  <2>1. status' = "exited"
    BY <1>4 DEF Return
  <2>2. stk' = <<>>
    BY <1>1, <1>2, <1>4, OnlyCall, EmptySeq
  <2>3. (<<target, prog>> \in VerifiedCode)'
    BY <1>1 DEF AsMapped, picked
  <2> QED
    BY <2>1, <2>2, <2>3 DEF AsMapped, Running
<1>5. CASE Len(calls) # 1
  <2> DEFINE c == calls'[Len(calls')]
  <2>1. /\ calls' = SubSeq(calls, 1, Len(calls) - 1) /\ frameStackTop' = Released(Top.fn)
        /\ status' = status
    BY <1>5 DEF Return
  <2>2. CallsOK(target, Program, calls') /\ Between(target, Program, c, Top)
    BY <1>1, <1>5, <2>1, RunsHere, CallsPopped DEF Top
  <2>3. EndsWith(target, Program, calls', c)
    BY <2>2 DEF EndsWith
  <2> HIDE DEF c
  <2>4. Funcs = FuncsOf(target, Program)
    BY DEF Funcs, Program
  <2>5. frameStackTop' = c.locals
    <3>1. frameStackTop = Top.locals
      BY <1>1, RunsHere DEF StackOK
    <3> QED
      BY <2>1, <2>2, <3>1, SizeOfFrame DEF Released, Between, Above
  <2>6. StackOK(target, Program, c, stk', frameStackTop')
    BY <1>2, <2>2, <2>4, <2>5 DEF StackOK, Between
  <2> QED
    BY <1>1, <2>1, <2>3, <2>6, RunsOn DEF Running
<1> QED
  BY <1>3, <1>4, <1>5

-----------------------------------------------------------------------------
(* Blocks                                                                  *)

\* Sequences with the same elements are the same.
LEMMA SameSeq ==
  ASSUME NEW s, NEW u, IsSeq(s), IsSeq(u), Len(s) = Len(u), \A i \in 1..Len(s) : s[i] = u[i]
  PROVE  s = u
<1>1. PICK S : s \in Seq(S)
  BY DEF IsSeq
<1>2. PICK U : u \in Seq(U)
  BY DEF IsSeq
<1> QED
  BY <1>1, <1>2

\* The blocks of a map are as many for a call, each higher by the call's base.
LEMMA ShiftedSeq ==
  ASSUME NEW nest, NEW b, IsSeq(nest)
  PROVE  /\ IsSeq(Shifted(nest, b)) /\ Len(Shifted(nest, b)) = Len(nest)
         /\ \A j \in 1..Len(nest) : Shifted(nest, b)[j] = [at |-> nest[j].at, height |-> b + nest[j].height]
<1> DEFINE n == Len(nest)
           r == Shifted(nest, b)
           S == {r[j] : j \in 1..n}
<1>1. n \in Nat
  BY SeqLength
<1>2. DOMAIN r = 1..n /\ r = [j \in 1..n |-> r[j]]
  BY DEF Shifted
<1>3. \A j \in 1..n : r[j] = [at |-> nest[j].at, height |-> b + nest[j].height]
  BY DEF Shifted
<1> HIDE DEF r, n
<1>4. \A j \in 1..n : r[j] \in S
  OBVIOUS
<1> HIDE DEF S
<1>5. r \in [1..n -> S]
  BY <1>2, <1>4
<1>6. r \in Seq(S) /\ Len(r) = n
  BY <1>1, <1>5
<1>7. IsSeq(r)
  BY <1>6 DEF IsSeq
<1> QED
  BY <1>3, <1>6, <1>7 DEF r, n

\* A block opened in a call is one opened in its map.
LEMMA ShiftedAppend ==
  ASSUME NEW nest, IsSeq(nest), NEW b, NEW k, NEW x
  PROVE  Append(Shifted(nest, b), [at |-> k, height |-> b + x]) =
           Shifted(Append(nest, [at |-> k, height |-> x]), b)
<1> DEFINE y == [at |-> k, height |-> x]
           z == [at |-> k, height |-> b + x]
           longer == Append(nest, y)
           left == Append(Shifted(nest, b), z)
           right == Shifted(longer, b)
           n == Len(nest)
<1>1. /\ IsSeq(longer) /\ Len(longer) = n + 1
      /\ (\A i \in 1..n : longer[i] = nest[i]) /\ longer[n + 1] = y
  BY AppendSeq
<1>2. n \in Nat
  BY SeqLength
<1>3. y.at = k /\ y.height = x
  OBVIOUS
<1>4. z = [at |-> y.at, height |-> b + y.height]
  OBVIOUS
<1> HIDE DEF y, z, longer
<1>5. /\ IsSeq(Shifted(nest, b)) /\ Len(Shifted(nest, b)) = n
      /\ \A j \in 1..n : Shifted(nest, b)[j] = [at |-> nest[j].at, height |-> b + nest[j].height]
  BY ShiftedSeq
<1>6. /\ IsSeq(right) /\ Len(right) = n + 1
      /\ \A j \in 1..n + 1 : right[j] = [at |-> longer[j].at, height |-> b + longer[j].height]
  BY <1>1, ShiftedSeq
<1>7. /\ IsSeq(left) /\ Len(left) = n + 1
      /\ (\A i \in 1..n : left[i] = Shifted(nest, b)[i]) /\ left[n + 1] = z
  BY <1>5, AppendSeq
<1> HIDE DEF left, right, n
<1>8. ASSUME NEW i \in 1..n + 1 PROVE left[i] = right[i]
  <2>1. CASE i = n + 1
    BY <1>1, <1>4, <1>6, <1>7, <2>1
  <2>2. CASE i # n + 1
    <3>1. i \in 1..n
      BY <1>2, <2>2
    <3>2. left[i] = [at |-> nest[i].at, height |-> b + nest[i].height]
      BY <1>5, <1>7, <3>1
    <3>3. right[i] = [at |-> nest[i].at, height |-> b + nest[i].height]
      BY <1>1, <1>6, <3>1
    <3> QED
      BY <3>2, <3>3
  <2> QED
    BY <2>1, <2>2
<1>9. left = right
  BY <1>6, <1>7, <1>8, SameSeq
<1> QED
  BY <1>9 DEF left, right, longer, y, z

\* Blocks closed in a call are closed in its map.
LEMMA ShiftedPrefix ==
  ASSUME NEW nest, IsSeq(nest), NEW b, NEW k \in Nat, k <= Len(nest)
  PROVE  SubSeq(Shifted(nest, b), 1, k) = Shifted(SubSeq(nest, 1, k), b)
<1> DEFINE shorter == SubSeq(nest, 1, k)
           left == SubSeq(Shifted(nest, b), 1, k)
           right == Shifted(shorter, b)
           n == Len(nest)
<1>1. IsSeq(shorter) /\ Len(shorter) = k /\ \A i \in 1..k : shorter[i] = nest[i]
  BY PrefixSeq
<1>2. n \in Nat
  BY SeqLength
<1> HIDE DEF shorter
<1>3. /\ IsSeq(Shifted(nest, b)) /\ Len(Shifted(nest, b)) = n
      /\ \A j \in 1..n : Shifted(nest, b)[j] = [at |-> nest[j].at, height |-> b + nest[j].height]
  BY ShiftedSeq
<1>4. /\ IsSeq(right) /\ Len(right) = k
      /\ \A j \in 1..k : right[j] = [at |-> shorter[j].at, height |-> b + shorter[j].height]
  BY <1>1, ShiftedSeq
<1>5. IsSeq(left) /\ Len(left) = k /\ \A i \in 1..k : left[i] = Shifted(nest, b)[i]
  BY <1>3, PrefixSeq
<1> HIDE DEF left, right
<1>6. ASSUME NEW i \in 1..k PROVE left[i] = right[i]
  <2>1. i \in 1..n
    BY <1>2
  <2>2. left[i] = [at |-> nest[i].at, height |-> b + nest[i].height]
    BY <1>3, <1>5, <2>1
  <2>3. right[i] = [at |-> nest[i].at, height |-> b + nest[i].height]
    BY <1>1, <1>4
  <2> QED
    BY <2>2, <2>3
<1>7. left = right
  BY <1>4, <1>5, <1>6, SameSeq
<1> QED
  BY <1>7 DEF left, right, shorter

\* A call at the place i with the blocks c open.
Blocks(i, c) == [Top EXCEPT !.ip = i, !.ctrl = c]

\* A step to a successor that opens or closes blocks.
LEMMA StepOfBlocks ==
  ASSUME AsMapped, Running,
         NEW s, s \in SuccessorsOf(target, Program, Top),
         NEW c, c = Shifted(s.nest, Top.base),
         GotoWith(s.at, c), IsSeq(stk'), Len(stk') = Top.base + s.height,
         UNCHANGED <<picked, frameStackTop, status>>
  PROVE  AsMapped'
<1> DEFINE d == Blocks(s.at, c)
<1>1. DOMAIN Top = {"fn", "ip", "locals", "base", "ctrl", "temp", "held"}
  BY RunsHere DEF CallOK
<1>2. DOMAIN d = {"fn", "ip", "locals", "base", "ctrl", "temp", "held"} /\ SameFrame(Top, d)
  BY <1>1 DEF Blocks, SameFrame
<1>3. d.ip = s.at /\ d.ctrl = c
  BY <1>1 DEF Blocks
<1>4. MovedBy(Top, d, s)
  BY <1>2, <1>3 DEF MovedBy
<1>5. calls' = [calls EXCEPT ![Len(calls)] = d]
  BY DEF GotoWith, Blocks, Top
<1> HIDE DEF d
<1> QED
  BY <1>4, <1>5, StepInFunction

\* What the operands of the block that the instruction opens begin above.
OpenedAt == IF Instr.op = "IF" THEN Here.height - 1 ELSE Here.height
OpenedNest == Append(Here.nest, [at |-> Top.ip, height |-> OpenedAt])

\* Where the instructions of blocks lead.
LEMMA BlocksHere ==
  ASSUME AsMapped, Running
  PROVE  /\ Instr.op \in Opening =>
              Entry(Top.ip + 1, OpenedAt, OpenedNest) \in SuccessorsOf(target, Program, Top)
         /\ Instr.op = "IF" =>
              Entry(Match.else[Top.ip] + 1, OpenedAt, OpenedNest) \in SuccessorsOf(target, Program, Top)
         /\ Instr.op = "ELSE" =>
              Entry(Match.end[Last(Here.nest).at], Here.height, Here.nest) \in SuccessorsOf(target, Program, Top)
         /\ Instr.op = "END" =>
              Entry(Top.ip + 1, Here.height, Front(Here.nest)) \in SuccessorsOf(target, Program, Top)
         /\ Instr.op \in {"BR", "BR_IF"} =>
              Branched(target, Program, Top.fn, Raw, Here) \in SuccessorsOf(target, Program, Top)
<1>1. Instr.op = Raw.op /\ Instr.arg = Raw.arg
  BY CodeIsRun DEF InstrOfCode
<1>2. Raw = FuncsOf(target, Program)[Top.fn].code[Top.ip]
  BY DEF Raw, Funcs, Program
<1>3. Match = Program.wasm32.ends[Top.fn]
  BY DEF Match, Program
<1>4. Instr.op \in Opening => Entry(Top.ip + 1, OpenedAt, OpenedNest) \in SuccessorsOf(target, Program, Top)
  BY <1>1, <1>2 DEF SuccessorsOf, Successors, Here, When, OpenedAt, OpenedNest
<1>5. Instr.op = "IF" =>
        Entry(Match.else[Top.ip] + 1, OpenedAt, OpenedNest) \in SuccessorsOf(target, Program, Top)
  BY <1>1, <1>2, <1>3 DEF SuccessorsOf, Successors, Here, When, OpenedAt, OpenedNest
<1>6. Instr.op = "ELSE" =>
        Entry(Match.end[Last(Here.nest).at], Here.height, Here.nest) \in SuccessorsOf(target, Program, Top)
  BY <1>1, <1>2, <1>3 DEF SuccessorsOf, Successors, Here, When
<1>7. Instr.op = "END" =>
        Entry(Top.ip + 1, Here.height, Front(Here.nest)) \in SuccessorsOf(target, Program, Top)
  BY <1>1, <1>2 DEF SuccessorsOf, Successors, Here, When
<1>8. Instr.op \in {"BR", "BR_IF"} =>
        Branched(target, Program, Top.fn, Raw, Here) \in SuccessorsOf(target, Program, Top)
  BY <1>1, <1>2 DEF SuccessorsOf, Successors, Here, When
<1> QED
  BY <1>4, <1>5, <1>6, <1>7, <1>8

\* What verified code says of the blocks at an instruction.
LEMMA NestHere ==
  ASSUME AsMapped, Running
  PROVE  /\ Here.nest \in Seq([at : Nat, height : Nat]) /\ IsSeq(Here.nest)
         /\ Top.ctrl = Shifted(Here.nest, Top.base)
         /\ Len(Top.ctrl) = Len(Here.nest)
         /\ \A j \in 1..Len(Here.nest) :
              Top.ctrl[j] = [at |-> Here.nest[j].at, height |-> Top.base + Here.nest[j].height]
         /\ Instr.op = "IF" => Here.height >= 1
         /\ Instr.op \in {"ELSE", "END"} => Here.nest # <<>>
         /\ Instr.op \in {"BR", "BR_IF"} => Len(Here.nest) - Instr.arg \in 1..Len(Here.nest)
         /\ \A b \in 1..Len(Here.nest) : Here.nest[b].height <= Here.height
<1>1. Here.nest \in Seq([at : Nat, height : Nat]) /\ Top.ctrl = Shifted(Here.nest, Top.base)
  BY RunsHere DEF PlaceOK, CallOK, Here, Place
<1>2. IsSeq(Here.nest)
  BY <1>1 DEF IsSeq
<1>3. DOMAIN Here.nest = 1..Len(Here.nest)
  BY <1>1
<1>4. KeepsMap(target, Program, Top.fn, Top.ip, MapOf(target, Program, Top))
  BY RunsHere DEF PlaceOK
<1>5. Raw = FuncsOf(target, Program)[Top.fn].code[Top.ip]
  BY DEF Raw, Funcs, Program
<1>6. Instr.op = Raw.op /\ Instr.arg = Raw.arg
  BY CodeIsRun DEF InstrOfCode
<1>7. Instr.op = "IF" => Here.height >= 1
  <2>1. Instr.op = "IF" => 1 \in Needs(target, Program, Top.fn, Raw)
    BY <1>6 DEF Needs, When
  <2>2. Instr.op = "IF" => 1 \in 0..Here.height
    BY <1>4, <1>5, <2>1 DEF KeepsMap, Here, Place
  <2> QED
    BY <2>2, OperandsHere
<1>8. /\ Instr.op \in {"ELSE", "END"} => Here.nest # <<>>
      /\ Instr.op \in {"BR", "BR_IF"} => Len(Here.nest) - Instr.arg \in DOMAIN Here.nest
      /\ \A b \in DOMAIN Here.nest : Here.nest[b].height <= Here.height
  BY <1>4, <1>5, <1>6 DEF KeepsMap, Here, Place
<1>9. /\ Len(Shifted(Here.nest, Top.base)) = Len(Here.nest)
      /\ \A j \in 1..Len(Here.nest) : Shifted(Here.nest, Top.base)[j] =
           [at |-> Here.nest[j].at, height |-> Top.base + Here.nest[j].height]
  BY <1>2, ShiftedSeq
<1> QED
  BY <1>1, <1>2, <1>3, <1>7, <1>8, <1>9

\* A block, a loop or an arm begins.
LEMMA OpenBlockKeeps ==
  ASSUME AsMapped, OpenBlock
  PROVE  AsMapped'
<1> DEFINE u == IF Instr.op = "IF" THEN Rest(1) ELSE stk
           c == Append(Top.ctrl, [at |-> Top.ip, height |-> Len(u)])
<1>1. Running /\ Instr.op \in Opening /\ UNCHANGED <<picked, frameStackTop, status>> /\ stk' = u
  BY DEF OpenBlock, Is
<1>2. (Instr.op = "IF" /\ GotoWith(Match.else[Top.ip] + 1, c)) \/ GotoWith(Top.ip + 1, c)
  BY DEF OpenBlock
<1>3. IsSeq(u) /\ Len(u) = Top.base + OpenedAt
  <2>1. CASE Instr.op = "IF"
    <3>1. Enough(1)
      BY <1>1, <2>1, NestHere, OperandsHere DEF Enough
    <3>2. IsSeq(Rest(1)) /\ Len(Rest(1)) = Len(stk) - 1
      BY <1>1, <3>1, Takes
    <3> QED
      BY <1>1, <2>1, <3>2, OperandsHere DEF OpenedAt
  <2>2. CASE Instr.op # "IF"
    BY <1>1, <2>2, OperandsHere DEF OpenedAt
  <2> QED
    BY <2>1, <2>2
<1>4. c = Shifted(OpenedNest, Top.base)
  BY <1>1, <1>3, NestHere, ShiftedAppend DEF OpenedNest
<1> HIDE DEF u, c
<1>5. ASSUME NEW i, Entry(i, OpenedAt, OpenedNest) \in SuccessorsOf(target, Program, Top),
             GotoWith(i, c)
      PROVE  AsMapped'
  <2> DEFINE s == Entry(i, OpenedAt, OpenedNest)
  <2>1. /\ s \in SuccessorsOf(target, Program, Top)
        /\ s.at = i /\ s.height = OpenedAt /\ s.nest = OpenedNest
    BY <1>5 DEF Entry
  <2> HIDE DEF s
  <2> QED
    BY <1>1, <1>3, <1>4, <1>5, <2>1, StepOfBlocks
<1> QED
  BY <1>1, <1>2, <1>5, BlocksHere

\* A block or an arm ends.
LEMMA EndBlockKeeps ==
  ASSUME AsMapped, EndBlock
  PROVE  AsMapped'
<1>1. /\ Running /\ Instr.op \in {"ELSE", "END"} /\ UNCHANGED <<picked, frameStackTop, status>>
      /\ stk' = stk
  BY DEF EndBlock, Is
<1>2. IsSeq(stk') /\ Len(stk') = Top.base + Here.height
  BY <1>1, OperandsHere
<1> DEFINE n == Len(Here.nest)
<1>3. /\ IsSeq(Here.nest) /\ n \in Nat /\ n >= 1 /\ n - 1 \in Nat /\ n - 1 <= n
      /\ Len(Top.ctrl) = n /\ Top.ctrl = Shifted(Here.nest, Top.base)
      /\ Top.ctrl[n] = [at |-> Here.nest[n].at, height |-> Top.base + Here.nest[n].height]
  <2>1. Here.nest # <<>> /\ IsSeq(Here.nest)
    BY <1>1, NestHere
  <2>2. n \in Nat /\ n # 0
    BY <2>1, SeqLength, EmptySeq
  <2>3. n \in 1..n
    BY <2>2
  <2> QED
    BY <1>1, <2>1, <2>2, <2>3, NestHere
<1>4. CASE Instr.op = "END"
  <2> DEFINE s == Entry(Top.ip + 1, Here.height, Front(Here.nest))
             c == Front(Top.ctrl)
  <2>1. GotoWith(Top.ip + 1, c)
    BY <1>4 DEF EndBlock
  <2>2. c = Shifted(Front(Here.nest), Top.base)
    BY <1>3, ShiftedPrefix DEF Front
  <2>3. s \in SuccessorsOf(target, Program, Top)
    BY <1>1, <1>4, BlocksHere
  <2>4. s.at = Top.ip + 1 /\ s.height = Here.height /\ s.nest = Front(Here.nest)
    BY DEF Entry
  <2> HIDE DEF s, c
  <2> QED
    BY <1>1, <1>2, <2>1, <2>2, <2>3, <2>4, StepOfBlocks
<1>5. CASE Instr.op = "ELSE"
  <2> DEFINE s == Entry(Match.end[Last(Here.nest).at], Here.height, Here.nest)
             c == Top.ctrl
  <2>1. Last(Top.ctrl).at = Last(Here.nest).at
    BY <1>3 DEF Last
  <2>2. GotoWith(s.at, c)
    <3>1. GotoWith(Match.end[Last(Top.ctrl).at], c)
      BY <1>5 DEF EndBlock
    <3>2. s.at = Match.end[Last(Top.ctrl).at]
      BY <2>1 DEF Entry
    <3> HIDE DEF s, c
    <3> QED
      BY <3>1, <3>2
  <2>3. s \in SuccessorsOf(target, Program, Top)
    BY <1>1, <1>5, BlocksHere
  <2>4. s.height = Here.height /\ s.nest = Here.nest
    BY DEF Entry
  <2>5. c = Shifted(s.nest, Top.base)
    BY <1>3, <2>4
  <2> HIDE DEF s, c
  <2> QED
    BY <1>1, <1>2, <2>2, <2>3, <2>4, <2>5, StepOfBlocks
<1> QED
  BY <1>1, <1>4, <1>5

\* A branch that is not taken keeps the blocks; so they begin below its condition.
LEMMA BelowCondition ==
  ASSUME AsMapped, Running, Instr.op = "BR_IF"
  PROVE  Here.height >= 1 /\ \A b \in 1..Len(Here.nest) : Here.nest[b].height <= Here.height - 1
<1> DEFINE m == MapOf(target, Program, Top)
           s == Entry(Top.ip + 1, Here.height - 1, Here.nest)
<1>1. <<1, 0>> \in EffectsHere
  BY EffectsNow DEF Popping
<1>2. 1 <= Here.height /\ s \in SuccessorsOf(target, Program, Top)
  <2> DEFINE e == <<1, 0>>
  <2>1. e \in EffectsHere /\ e[1] = 1 /\ e[2] = 0
    BY <1>1
  <2> HIDE DEF e
  <2>2. Here.height - e[1] + e[2] = Here.height - 1
    BY <2>1, OperandsHere
  <2> QED
    BY <2>1, <2>2, EffectHere
<1>3. s.at = Top.ip + 1 /\ s.height = Here.height - 1 /\ s.nest = Here.nest
  BY DEF Entry
<1> HIDE DEF s, m
<1>4. KeepsMap(target, Program, Top.fn, Top.ip, m)
  BY RunsHere DEF PlaceOK, m
<1>5. Reaches(m, s)
  BY <1>2, <1>4 DEF KeepsMap, SuccessorsOf, Place, m
<1>6. FunctionVerifies(target, Program, Top.fn)
  BY RunsHere DEF Verifies, CallOK
<1>7. KeepsMap(target, Program, Top.fn, s.at, m)
  BY <1>5, <1>6 DEF FunctionVerifies, Reaches, m, MapOf
<1>8. \A b \in DOMAIN m[s.at].nest : m[s.at].nest[b].height <= m[s.at].height
  BY <1>7 DEF KeepsMap
<1>9. m[s.at].nest = Here.nest /\ m[s.at].height = Here.height - 1
  BY <1>3, <1>5 DEF Reaches
<1>10. DOMAIN Here.nest = 1..Len(Here.nest)
  BY NestHere, SeqLength
<1> QED
  BY <1>2, <1>8, <1>9, <1>10, OperandsHere

\* A branch leaves the blocks outside the one it goes to and what lies below it.
LEMMA BranchLeaves ==
  ASSUME AsMapped, Running, Instr.op \in {"BR", "BR_IF"},
         NEW n, n = Len(Top.ctrl) - Instr.arg
  PROVE  /\ n \in Nat /\ n >= 1 /\ n <= Len(Here.nest)
         /\ Top.ctrl[n].at = Here.nest[n].at
         /\ Top.ctrl[n].height = Top.base + Here.nest[n].height
         /\ Here.nest[n].height \in Nat /\ Here.nest[n].height <= Here.height
         /\ \A k \in 0..n : SubSeq(Top.ctrl, 1, k) = Shifted(SubSeq(Here.nest, 1, k), Top.base)
<1>1. n \in 1..Len(Here.nest)
  BY NestHere
<1>2. Len(Here.nest) \in Nat
  BY NestHere, SeqLength
<1>3. n \in Nat /\ n >= 1 /\ n <= Len(Here.nest)
  BY <1>1, <1>2
<1>4. Top.ctrl[n] = [at |-> Here.nest[n].at, height |-> Top.base + Here.nest[n].height]
  BY <1>1, NestHere
<1>5. Here.nest[n].height \in Nat /\ Here.nest[n].height <= Here.height
  <2>1. Here.nest \in Seq([at : Nat, height : Nat])
    BY NestHere
  <2>2. Here.nest[n] \in [at : Nat, height : Nat]
    BY <1>1, <2>1, ElementOfSeq
  <2>3. Here.nest[n].height \in Nat
    BY <2>2
  <2>4. Here.nest[n].height <= Here.height
    BY <1>1, NestHere
  <2> QED
    BY <2>3, <2>4
<1>6. ASSUME NEW k \in 0..n PROVE SubSeq(Top.ctrl, 1, k) = Shifted(SubSeq(Here.nest, 1, k), Top.base)
  <2>1. k \in Nat /\ k <= Len(Here.nest)
    BY <1>2, <1>3
  <2>2. IsSeq(Here.nest) /\ Top.ctrl = Shifted(Here.nest, Top.base)
    BY NestHere
  <2> QED
    BY <2>1, <2>2, ShiftedPrefix
<1> QED
  BY <1>3, <1>4, <1>5, <1>6

\* A branch is taken or not.
LEMMA BranchKeeps ==
  ASSUME AsMapped, Branch
  PROVE  AsMapped'
<1> DEFINE u == IF Instr.op = "BR_IF" THEN Rest(1) ELSE stk
           n == Len(Top.ctrl) - Instr.arg
           b == Here.nest[n]
           loop == Funcs[Top.fn].code[b.at].op = "LOOP"
           s == Branched(target, Program, Top.fn, Raw, Here)
           c == SubSeq(Top.ctrl, 1, IF loop THEN n ELSE n - 1)
<1>1. Running /\ Instr.op \in {"BR", "BR_IF"} /\ UNCHANGED <<picked, frameStackTop, status>>
  BY DEF Branch, Is
<1>2. /\ n \in Nat /\ n >= 1 /\ n <= Len(Here.nest)
      /\ Top.ctrl[n].at = b.at /\ Top.ctrl[n].height = Top.base + b.height
      /\ b.height \in Nat /\ b.height <= Here.height
      /\ \A k \in 0..n : SubSeq(Top.ctrl, 1, k) = Shifted(SubSeq(Here.nest, 1, k), Top.base)
  BY <1>1, BranchLeaves
<1>3. CASE Instr.op = "BR_IF" /\ stk' = Rest(1) /\ Continue
  <2>1. <<1, 0>> \in EffectsHere
    BY <1>1, <1>3, EffectsNow DEF Popping
  <2> QED
    BY <1>1, <1>3, <2>1, StepPops
<1>4. CASE /\ stk' = SubSeq(u, 1, Top.ctrl[n].height)
           /\ GotoWith(IF loop THEN b.at + 1 ELSE Match.end[b.at] + 1, c)
  <2>1. IsSeq(u) /\ Len(u) \in Nat /\ Top.base + b.height <= Len(u)
    <3>1. CASE Instr.op = "BR_IF"
      <4>1. Here.height >= 1 /\ b.height <= Here.height - 1
        <5>1. n \in 1..Len(Here.nest)
          BY <1>2, NestHere, SeqLength
        <5> QED
          BY <1>1, <3>1, <5>1, BelowCondition
      <4>2. IsSeq(Rest(1)) /\ Len(Rest(1)) = Len(stk) - 1
        BY <1>1, <4>1, Takes DEF Enough
      <4> QED
        BY <1>1, <1>2, <3>1, <4>1, <4>2, OperandsHere
    <3>2. CASE Instr.op # "BR_IF"
      BY <1>1, <1>2, <3>2, OperandsHere
    <3> QED
      BY <3>1, <3>2
  <2>2. Top.base + b.height \in Nat
    BY <1>1, <1>2, OperandsHere
  <2> HIDE DEF u
  <2>3. IsSeq(stk') /\ Len(stk') = Top.base + b.height
    BY <1>2, <1>4, <2>1, <2>2, PrefixSeq
  <2>4. s \in SuccessorsOf(target, Program, Top)
    BY <1>1, BlocksHere
  <2>5. Raw.arg = Instr.arg /\ Len(Top.ctrl) = Len(Here.nest)
    BY <1>1, CodeIsRun, NestHere DEF InstrOfCode
  <2>6. Funcs = FuncsOf(target, Program) /\ Match = Program.wasm32.ends[Top.fn]
    BY DEF Funcs, Match, Program
  <2>7. /\ s.at = IF loop THEN b.at + 1 ELSE Match.end[b.at] + 1
        /\ s.height = b.height
        /\ s.nest = SubSeq(Here.nest, 1, IF loop THEN n ELSE n - 1)
    BY <2>5, <2>6 DEF Branched, Entry
  <2>8. n \in 0..n /\ n - 1 \in 0..n
    BY <1>2
  <2>9. c = Shifted(s.nest, Top.base)
    BY <1>2, <2>7, <2>8
  <2>10. GotoWith(s.at, c)
    BY <1>4, <2>7
  <2>11. Len(stk') = Top.base + s.height
    BY <2>3, <2>7
  <2> HIDE DEF s, c
  <2> QED
    BY <1>1, <2>3, <2>4, <2>9, <2>10, <2>11, StepOfBlocks
<1>5. \/ Instr.op = "BR_IF" /\ stk' = u /\ Continue
      \/ /\ stk' = SubSeq(u, 1, Top.ctrl[n].height)
         /\ GotoWith(IF loop THEN b.at + 1 ELSE Match.end[b.at] + 1, c)
  <2>1. Top.ctrl[n].at = b.at
    BY <1>2
  <2> QED
    BY <2>1 DEF Branch
<1> QED
  BY <1>3, <1>4, <1>5

-----------------------------------------------------------------------------
(* The machine from its start                                              *)

\* The initialisers begin with no operand, in the frame at the top.
LEMMA InitAsMapped ==
  ASSUME Init, CodeVerifies
  PROVE  AsMapped
<1> DEFINE c == NewCall("init$globals", frameStackTop, 0, 0)
<1>1. /\ stk = <<>> /\ calls = <<c>> /\ status = "init"
      /\ frameStackTop = FrameTop - frameSize("init$globals") * W
  BY DEF Init
<1>2. <<target, prog>> \in VerifiedCode
  BY DEF CodeVerifies
<1>3. Verifies(target, Program)
  BY <1>2 DEF VerifiedCode, Program
<1>4. frameStackTop = FrameTop - Size(target, Program, "init$globals") * W
  BY <1>1, SizeOfFrame
<1>5. c = NewCall("init$globals", frameStackTop, 0, 0)
  OBVIOUS
<1> HIDE DEF c
<1>6. /\ EndsWith(target, Program, <<c>>, c)
      /\ c.base = 0 /\ HeightAt(target, Program, c) = 0 /\ c.locals = frameStackTop
  BY <1>3, <1>4, <1>5, FirstCall
<1>7. StackOK(target, Program, c, stk, frameStackTop)
  BY <1>1, <1>6, TupleSeq DEF StackOK
<1>8. RunsOK(target, Program, calls, stk, frameStackTop)
  BY <1>1, <1>6, <1>7 DEF RunsOK, EndsWith
<1> QED
  BY <1>1, <1>2, <1>8 DEF AsMapped, Program

\* Every instruction keeps to the maps.
LEMMA NextKeeps ==
  ASSUME AsMapped, [Next]_vars
  PROVE  AsMapped'
<1>1. CASE UNCHANGED vars
  <2>1. UNCHANGED <<target, prog, stk, calls, frameStackTop, status>>
    BY <1>1 DEF vars, picked
  <2> QED
    BY <2>1 DEF AsMapped, Running
<1>2. CASE Next
  BY <1>1, <1>2, ConstantKeeps, GetKeeps, SetVariableKeeps, DropOrDupKeeps, BinaryOpKeeps,
     UnaryOpKeeps, StoreKeeps, IndexAddrKeeps, JumpKeeps, JumpIfKeeps, CallRuntimeKeeps,
     CallFuncKeeps, ConvertKeeps, IfaceBoxKeeps, IfaceCallKeeps, PanicKeeps,
     CallIntrinsicKeeps, ReturnKeeps, OpenBlockKeeps, EndBlockKeeps, BranchKeeps, TempGetKeeps
     DEF Next, Ended
<1> QED
  BY <1>1, <1>2

\* Verified code runs as its maps say: wherever a run is, its calls, operands,
\* open blocks and frames are those that the maps of the active functions give.
THEOREM RunsAsMapped == Spec /\ CodeVerifies => []AsMapped
<1>1. Init /\ CodeVerifies => AsMapped
  BY InitAsMapped
<1>2. AsMapped /\ [Next]_vars => AsMapped'
  BY NextKeeps
<1> QED
  BY <1>1, <1>2, PTL DEF Spec

-----------------------------------------------------------------------------
(* What follows for every run                                              *)

\* The frames of the active calls fill the frame stack.
LEMMA MappedFrames ==
  ASSUME AsMapped
  PROVE  FramesOfActiveCalls
<1> SUFFICES ASSUME Running
             PROVE  /\ frameStackTop = Top.locals
                    /\ \A i \in DOMAIN calls :
                         calls[i].locals + (frameSize(calls[i].fn) + calls[i].held) * W =
                           IF i = 1 THEN FrameTop ELSE calls[i - 1].locals
  BY DEF FramesOfActiveCalls
<1>1. CallsOK(target, Program, calls) /\ frameStackTop = Top.locals
  BY RunsHere DEF StackOK
<1>2. Len(calls) \in Nat /\ DOMAIN calls = 1..Len(calls)
  BY <1>1, SeqLength DEF CallsOK
<1>3. ASSUME NEW i \in DOMAIN calls
      PROVE  Above(target, Program, calls[i]) = IF i = 1 THEN FrameTop ELSE calls[i - 1].locals
  <2>1. CASE i = 1
    BY <1>1, <2>1 DEF CallsOK, Bottom
  <2>2. CASE i # 1
    <3>1. i - 1 \in 1..Len(calls) - 1 /\ (i - 1) + 1 = i
      BY <1>2, <2>2
    <3>2. Between(target, Program, calls[i - 1], calls[(i - 1) + 1])
      BY <1>1, <3>1 DEF CallsOK
    <3> QED
      BY <2>2, <3>1, <3>2 DEF Between
  <2> QED
    BY <2>1, <2>2
<1>4. ASSUME NEW i \in DOMAIN calls
      PROVE  calls[i].locals + (frameSize(calls[i].fn) + calls[i].held) * W =
               Above(target, Program, calls[i])
  BY SizeOfFrame DEF Above
<1> QED
  BY <1>1, <1>3, <1>4

\* The operands are as many as the compiler counted.
LEMMA MappedDepth ==
  ASSUME AsMapped
  PROVE  StackIsAtStaticDepth
<1>1. ASSUME Running, Instr.op \notin Structural PROVE Len(stk) - Top.base = Instr.depth
  <2>1. KeepsMap(target, Program, Top.fn, Top.ip, MapOf(target, Program, Top))
    BY <1>1, RunsHere DEF PlaceOK
  <2>2. Raw = FuncsOf(target, Program)[Top.fn].code[Top.ip]
    BY DEF Raw, Funcs, Program
  <2>3. Instr.op = Raw.op /\ Instr.depth = Raw.depth
    BY <1>1, CodeIsRun DEF InstrOfCode
  <2>4. Instr.depth = Here.height
    BY <1>1, <2>1, <2>2, <2>3 DEF KeepsMap, Here, Place
  <2> QED
    BY <1>1, <2>4, OperandsHere
<1>2. status = "exited" => stk = <<>>
  BY DEF AsMapped
<1> QED
  BY <1>1, <1>2 DEF StackIsAtStaticDepth

\* For every program whose code verifies, on both targets, whatever it computes:
\* the frame stack holds the frames of the active calls and nothing else, however
\* deep it calls and however calls return (execFunc, compileReturn).
THEOREM FramesAreOfCalls == Spec /\ CodeVerifies => []FramesOfActiveCalls
BY RunsAsMapped, MappedFrames, PTL

\* For every program whose code verifies, on both targets, whatever it computes
\* and whichever way it takes: the operand stack is as high as the compiler's
\* static depth at every instruction, and empty when the program ends (emit,
\* compileIf, compileSwitch, compileReturn).
THEOREM DepthIsStatic == Spec /\ CodeVerifies => []StackIsAtStaticDepth
BY RunsAsMapped, MappedDepth, PTL
=============================================================================
