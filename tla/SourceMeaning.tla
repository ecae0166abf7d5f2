---------------------------- MODULE SourceMeaning ----------------------------
(***************************************************************************)
(* What a source program means: the sequence of its outputs, by structural *)
(* evaluation of the syntax trees of Lowering, with Go's rules for scopes, *)
(* order of evaluation, loops, switches, deferred calls and methods.  No   *)
(* stack, slots, labels or addresses.                                      *)
(*                                                                         *)
(* A value is <<"i", n, w>> (w = 1 for a byte), <<"S", chars>>,            *)
(* <<"L", elems>>, <<"M", entries>>, <<"P", loc>> for a struct or a        *)
(* pointer to one, <<"V", loc>> for a pointer to a variable, or <<"nil">>. *)
(* Slices and maps are values here: programs do not share them.            *)
(*                                                                         *)
(* The state, s: st the store, env the scopes of the running function      *)
(* (innermost last), globals, tr the outputs, ctl how the last statement   *)
(* ended, vs the values of the last expression, pl the last place, defers. *)
(***************************************************************************)
EXTENDS Lowering, Bitwise

Num0 == <<"i", 0, 0>>
Bool(b) == IF b THEN <<"i", 1, 0>> ELSE Num0
Wrapped(n, w) == IF w = 1 THEN n % ByteMod ELSE n
IntV(n, w) == <<"i", Wrapped(n, w), w>>
IsTrue(v) == v[2] # 0

Zero(t) == CASE t = <<"string">> -> <<"S", <<>>>> [] t = <<"int">> -> Num0
             [] t = <<"byte">> -> <<"i", 0, 1>> [] t[1] = "slice" -> <<"L", <<>>>>
             [] t[1] = "map" -> <<"M", <<>>>> [] OTHER -> <<"nil">>
Typed(v, t) == IF t = <<"byte">> THEN IntV(v[2], 1)
               ELSE IF v[1] = "nil" THEN Zero(t) ELSE v

Yield(s, v) == [s EXCEPT !.vs = <<v>>]
The(s) == s.vs[1]
Going(s) == s.ctl = "go"
Output(s, e) == [s EXCEPT !.tr = Append(@, e)]

Bind(s, name, v) ==
  [s EXCEPT !.st = Append(@, v), !.env[Len(s.env)] = Put(@, name, Len(s.st) + 1)]
ScopeOf(s, name) == {i \in DOMAIN s.env : name \in DOMAIN s.env[i]}
Loc(s, name) ==
  IF ScopeOf(s, name) = {} THEN s.globals[name]
  ELSE s.env[CHOOSE i \in ScopeOf(s, name) : \A j \in ScopeOf(s, name) : j <= i][name]

KeyAt(m, k) == {i \in DOMAIN m : m[i][1] = k}
MapPut(m, k, v) ==
  IF KeyAt(m, k) = {} THEN Append(m, <<k, v>>)
  ELSE [m EXCEPT ![CHOOSE i \in KeyAt(m, k) : TRUE] = <<k, v>>]

\* What is at a place, and a state with it changed.
RECURSIVE ReadPlace(_, _)
ReadPlace(s, pl) ==
  CASE pl[1] = "var" -> s.st[pl[2]]
    [] pl[1] = "fld" -> s.st[pl[2]].f[pl[3]]
    [] pl[1] = "idx" ->
         LET c == ReadPlace(s, pl[2])
         IN  IF c[1] = "L" THEN c[2][pl[3][2] + 1]
             ELSE IF KeyAt(c[2], pl[3]) = {} THEN Num0
             ELSE c[2][CHOOSE i \in KeyAt(c[2], pl[3]) : TRUE][2]
RECURSIVE WritePlace(_, _, _)
WritePlace(s, pl, v) ==
  CASE pl[1] = "none" -> s
    [] pl[1] = "var" ->
         LET old == s.st[pl[2]]
         IN  [s EXCEPT !.st[pl[2]] = IF old[1] = "i" /\ old[3] = 1 THEN IntV(v[2], 1) ELSE v]
    [] pl[1] = "fld" -> [s EXCEPT !.st[pl[2]].f[pl[3]] = v]
    [] pl[1] = "idx" ->
         LET c == ReadPlace(s, pl[2])
         IN  WritePlace(s, pl[2], IF c[1] = "L" THEN <<"L", [c[2] EXCEPT ![pl[3][2] + 1] = v]>>
                                  ELSE <<"M", MapPut(c[2], pl[3], v)>>)

Operate(op, a, b) ==
  LET w == IF a[1] = "i" /\ b[1] = "i" THEN IF a[3] > b[3] THEN a[3] ELSE b[3] ELSE 0
      Abs(n) == IF n < 0 THEN -n ELSE n
      q == Abs(a[2]) \div Abs(b[2])
      Quotient == IF (a[2] < 0) = (b[2] < 0) THEN q ELSE -q
  IN  CASE op = "+" -> IF a[1] = "S" THEN <<"S", a[2] \o b[2]>> ELSE IntV(a[2] + b[2], w)
        [] op = "-" -> IntV(a[2] - b[2], w)
        [] op = "*" -> IntV(a[2] * b[2], w)
        [] op = "/" -> IntV(Quotient, w)
        [] op = "%" -> IntV(a[2] - Quotient * b[2], w)
        [] op = "==" -> Bool(a = b \/ (a[1] = "i" /\ b[1] = "i" /\ a[2] = b[2]))
        [] op = "!=" -> Bool(~(a = b \/ (a[1] = "i" /\ b[1] = "i" /\ a[2] = b[2])))
        [] op = "<" -> Bool(a[2] < b[2])
        [] op = ">" -> Bool(a[2] > b[2])
        [] op = "<=" -> Bool(a[2] <= b[2])
        [] op = ">=" -> Bool(a[2] >= b[2])
        [] op = "&" -> IntV(a[2] & b[2], w)
        [] op = "|" -> IntV(a[2] | b[2], w)
        [] op = "^" -> IntV(a[2] ^^ b[2], w)
        [] op = "<<" -> IntV(a[2] * 2^b[2], w)
        [] op = ">>" -> IntV(a[2] \div 2^b[2], w)

New(s, t, fs) == [s EXCEPT !.st = Append(@, [t |-> t, f |-> fs]), !.vs = <<<<"P", Len(s.st) + 1>>>>]
SliceOf(c, lo, hi) == <<c[1], SubSeq(c[2], lo + 1, hi)>>

RECURSIVE Ev(_, _), Ex(_, _), PlaceOf(_, _)
\* Several expressions from left to right; vs holds all their values.
EvAll(s, ns) ==
  LET One(s1, n) == LET s2 == Ev(s1, n) IN [s2 EXCEPT !.vs = s1.vs \o s2.vs]
  IN  Fold(One, [s EXCEPT !.vs = <<>>], ns)

Block(s, stmts) ==
  LET s1 == Fold(Ex, [s EXCEPT !.env = Append(@, <<>>)], stmts)
  IN  [s1 EXCEPT !.env = Front(@)]

Intrinsic(s, name, args) ==
  LET v == args[1]
      e == CASE v[1] = "i" -> <<0, v[2]>> [] v[1] = "S" -> <<1>> \o v[2] [] OTHER -> <<2>>
  IN  [Output(s, e) EXCEPT !.vs = IF name = "note" THEN <<v>> ELSE <<>>]

RECURSIVE Call(_, _, _)
\* A call of f with the values args.  Deferred calls run after the results are known, the last first.
RECURSIVE RunDefers(_, _)
RunDefers(s, ds) ==
  IF ds = <<>> THEN s
  ELSE RunDefers([Call(s, Last(ds).f, Last(ds).args) EXCEPT !.vs = s.vs], Front(ds))
Call(s, f, args) ==
  IF f.intrinsic # "" THEN Intrinsic(s, f.intrinsic, args)
  ELSE LET n == Len(f.params)
           off == IF IsMethod(f) THEN 1 ELSE 0
           Arg(i) == IF ~f.variadic \/ i < n THEN Typed(args[i + off], f.params[i][2])
                     ELSE <<"L", SubSeq(args, n + off, Len(args))>>
           s0 == [s EXCEPT !.env = << <<>> >>, !.defers = <<>>, !.vs = <<>>]
           s1 == IF IsMethod(f) THEN Bind(s0, f.recv[1], args[1]) ELSE s0
           s2 == Fold(LAMBDA z, i : Bind(z, f.params[i][1], Arg(i)), s1, [i \in 1..n |-> i])
           s3 == Block(s2, f.body)
           s4 == [s3 EXCEPT !.ctl = IF @ = "return" THEN "go" ELSE @,
                            !.vs = IF s3.ctl = "return" THEN @ ELSE <<>>]
           s5 == IF Going(s4) THEN RunDefers(s4, s4.defers) ELSE s4
       IN  [s5 EXCEPT !.env = s.env, !.defers = s.defers]

\* The function a call means, and the values of its arguments, receiver
\* first: methods are chosen by the struct the receiver is.
Method(s, v, m) ==
  CHOOSE f \in ToSet(s.p.funcs) :
    IsMethod(f) /\ f.meth = m /\ <<"struct", s.st[v[2]].t>> \in {f.recv[2], f.recv[2][Len(f.recv[2])]}
Spread(args) == Front(args) \o Last(args)[2]
Callee(s, n) ==
  LET s1 == IF n[2][1] = "Sel" THEN Ev(s, n[2][2]) ELSE s
      s2 == EvAll(s1, n[3])
      f == IF n[2][1] = "Sel" THEN Method(s1, The(s1), n[2][3]) ELSE Fn(s.p, n[2][2])
      args == IF n[4] THEN Spread(s2.vs) ELSE s2.vs
  IN  [s |-> s2, f |-> f, args |-> IF n[2][1] = "Sel" THEN <<The(s1)>> \o args ELSE args]

BuiltinCall(s, name, args, spread) ==
  LET s1 == EvAll(s, args)
      v == s1.vs
  IN  CASE name \in {"len", "cap"} -> Yield(s1, IntV(Len(v[1][2]), 0))
        [] name = "append" ->
             Yield(s1, <<"L", v[1][2] \o IF spread THEN v[2][2] ELSE Tail(v)>>)
        [] name = "make" ->
             LET t == args[1][2]
                 s2 == EvAll(s, Tail(args))
             IN  Yield(s2, IF t[1] = "map" THEN <<"M", <<>>>>
                           ELSE <<"L", [i \in 1..s2.vs[1][2] |-> Zero(t[2])]>>)
        [] name = "delete" ->
             LET s2 == PlaceOf(s1, args[1])
             IN  WritePlace([s2 EXCEPT !.vs = <<>>], s2.pl,
                            <<"M", SelectSeq(v[1][2], LAMBDA e : e[1] # v[2])>>)
        [] name = "copy" ->
             LET s2 == PlaceOf(s1, args[1])
                 n == IF Len(v[1][2]) < Len(v[2][2]) THEN Len(v[1][2]) ELSE Len(v[2][2])
             IN  WritePlace(Yield(s2, IntV(n, 0)), s2.pl,
                            <<"L", SubSeq(v[2][2], 1, n) \o SubSeq(v[1][2], n + 1, Len(v[1][2]))>>)
        [] name = "panic" -> [Output(s1, <<3>> \o v[1][2]) EXCEPT !.ctl = "panic"]
        [] name = "int" -> Yield(s1, IntV(v[1][2], 0))
        [] name = "byte" -> Yield(s1, IntV(v[1][2], 1))
        [] name = "string" ->
             Yield(s1, <<"S", CASE v[1][1] = "i" -> <<v[1][2]>>
                                [] v[1][1] = "L" -> [i \in DOMAIN v[1][2] |-> v[1][2][i][2]]
                                [] OTHER -> v[1][2]>>)

PlaceOf(s, n) ==
  CASE n = <<"Ident", "_">> -> [s EXCEPT !.pl = <<"none">>]
    [] n[1] = "Ident" -> [s EXCEPT !.pl = <<"var", Loc(s, n[2])>>]
    [] n[1] = "Sel" ->
         LET s1 == Ev(s, n[2])
             loc == The(s1)[2]
             fields == s.p.structs[s1.st[loc].t]
         IN  [s1 EXCEPT !.pl = <<"fld", loc, CHOOSE i \in DOMAIN fields : fields[i][1] = n[3]>>]
    [] n[1] = "Index" ->
         LET s1 == PlaceOf(s, n[2])
             s2 == Ev(s1, n[3])
         IN  [s2 EXCEPT !.pl = <<"idx", s1.pl, The(s2)>>]
    [] n[1] = "Un" -> LET s1 == Ev(s, n[3]) IN [s1 EXCEPT !.pl = <<"var", The(s1)[2]>>]

StructLit(s, t, elems) ==
  LET fields == s.p.structs[t]
      named == elems # <<>> /\ elems[1][1] = "KV"
      s1 == EvAll(s, IF named THEN [i \in DOMAIN elems |-> elems[i][3]] ELSE elems)
      Given(k) == IF named THEN {i \in DOMAIN elems : elems[i][2][2] = fields[k][1]}
                  ELSE {i \in DOMAIN elems : i = k}
  IN  New(s1, t, [k \in DOMAIN fields |->
                    IF Given(k) = {} THEN Zero(fields[k][2])
                    ELSE s1.vs[CHOOSE i \in Given(k) : TRUE]])

Ev(s, n) ==
  CASE ~Going(s) -> s
    [] n[1] = "Int" -> Yield(s, IntV(n[2], 0))
    [] n[1] = "Str" -> Yield(s, <<"S", n[2]>>)
    [] n[1] = "Type" -> s
    [] n[1] = "Basic" -> Yield(s, IF n[2] = "nil" THEN <<"nil">> ELSE Bool(n[2] = "true"))
    [] n[1] = "Ident" ->
         IF n[2] \in DOMAIN s.consts THEN Yield(s, IntV(s.consts[n[2]], 0))
         ELSE Yield(s, s.st[Loc(s, n[2])])
    [] n[1] = "Bin" ->
         IF n[2] \in {"&&", "||"}
         THEN LET s1 == Ev(s, n[3])
              IN  IF ~Going(s1) \/ IsTrue(The(s1)) = (n[2] = "||") THEN s1 ELSE Ev(s1, n[4])
         ELSE LET s1 == EvAll(s, <<n[3], n[4]>>)
              IN  IF Going(s1) THEN Yield(s1, Operate(n[2], s1.vs[1], s1.vs[2])) ELSE s1
    [] n[1] = "Un" ->
         (CASE n[2] = "!" -> LET s1 == Ev(s, n[3]) IN Yield(s1, Bool(~IsTrue(The(s1))))
            [] n[2] = "-" -> LET s1 == Ev(s, n[3]) IN Yield(s1, IntV(- The(s1)[2], The(s1)[3]))
            [] n[2] = "&" -> IF n[3][1] = "Lit" \/ s.st[Loc(s, n[3][2])][1] = "P" THEN Ev(s, n[3])
                             ELSE Yield(s, <<"V", Loc(s, n[3][2])>>)
            [] n[2] = "*" -> LET s1 == Ev(s, n[3]) IN Yield(s1, s1.st[The(s1)[2]]))
    [] n[1] = "Call" ->
         IF IsIdent(n[2]) /\ n[2][2] \in Builtins THEN BuiltinCall(s, n[2][2], n[3], n[4])
         ELSE IF IsIdent(n[2]) /\ n[2][2] \in s.p.named THEN Ev(s, n[3][1])
         ELSE LET c == Callee(s, n)
              IN  IF Going(c.s) THEN Call(c.s, c.f, c.args) ELSE c.s
    [] n[1] = "Sel" -> LET s1 == PlaceOf(s, n) IN Yield(s1, ReadPlace(s1, s1.pl))
    [] n[1] = "Index" ->
         LET s1 == EvAll(s, <<n[2], n[3]>>)
             c == s1.vs[1]
             i == s1.vs[2]
         IN  Yield(s1, CASE c[1] = "L" -> c[2][i[2] + 1] [] c[1] = "S" -> IntV(c[2][i[2] + 1], 1)
                         [] c[1] = "M" -> IF KeyAt(c[2], i) = {} THEN Num0
                                          ELSE c[2][CHOOSE j \in KeyAt(c[2], i) : TRUE][2])
    [] n[1] = "Slice" ->
         LET s1 == EvAll(s, IF n[4] = None THEN <<n[2], n[3]>> ELSE <<n[2], n[3], n[4]>>)
             hi == IF n[4] = None THEN Len(s1.vs[1][2]) ELSE s1.vs[3][2]
         IN  Yield(s1, SliceOf(s1.vs[1], s1.vs[2][2], hi))
    [] n[1] = "Lit" ->
         CASE n[2][1] = "struct" -> StructLit(s, n[2][2], n[3])
           [] n[2][1] = "slice" -> LET s1 == EvAll(s, n[3]) IN Yield(s1, <<"L", s1.vs>>)
           [] n[2][1] = "map" ->
                LET Add(z, e) == LET z1 == EvAll(z, <<e[2], e[3]>>)
                                 IN  Yield(z1, <<"M", MapPut(The(z)[2], z1.vs[1], z1.vs[2])>>)
                IN  Fold(Add, Yield(s, <<"M", <<>>>>), n[3])

Places(s, ns) ==
  Fold(LAMBDA z, n : LET z1 == PlaceOf(z.s, n) IN [s |-> z1, pls |-> Append(z.pls, z1.pl)],
           [s |-> s, pls |-> <<>>], ns)
\* The comma-ok form of a map index.
EvCommaOk(s, x) ==
  LET s1 == EvAll(s, <<x[2], x[3]>>)
      found == KeyAt(s1.vs[1][2], s1.vs[2])
  IN  [s1 EXCEPT !.vs = IF found = {} THEN <<Num0, Bool(FALSE)>>
                        ELSE <<s1.vs[1][2][CHOOSE i \in found : TRUE][2], Bool(TRUE)>>]
Assign(s, op, left, right) ==
  LET two == Len(left) > 1 /\ Len(right) = 1 /\ right[1][1] = "Index"
      Values(z) == IF two THEN EvCommaOk(z, right[1]) ELSE EvAll(z, right)
      defined == Values(s)
      at == Places(s, left)
      r == Values(at.s)
      old == ReadPlace(at.s, at.pls[1])
  IN  CASE op = ":=" ->
             IF ~Going(defined) THEN defined
             ELSE Fold(LAMBDA z, i : Bind(z, left[i][2], defined.vs[i]), defined,
                           [i \in DOMAIN left |-> i])
        [] op = "=" ->
             IF ~Going(r) THEN r
             ELSE Fold(LAMBDA z, i : WritePlace(z, at.pls[i], r.vs[i]), r, [i \in DOMAIN left |-> i])
        [] OTHER ->
             IF ~Going(r) THEN r ELSE WritePlace(r, at.pls[1], Operate(OpOfAssign[op], old, r.vs[1]))

Stopped(s) == s.ctl \in {"break", "return", "panic"}
RECURSIVE Loop(_, _, _, _)
Loop(s, cond, post, body) ==
  LET s1 == IF cond = None THEN s ELSE Ev(s, cond)
      s2 == Block(s1, body)
      s3 == [s2 EXCEPT !.ctl = IF @ = "continue" THEN "go" ELSE @]
      s4 == IF post = None THEN s3 ELSE Ex(s3, post)
  IN  IF ~Going(s1) THEN s1
      ELSE IF cond # None /\ ~IsTrue(The(s1)) THEN s1
      ELSE IF Stopped(s3) THEN [s3 EXCEPT !.ctl = IF @ = "break" THEN "go" ELSE @]
      ELSE Loop(s4, cond, post, body)

\* The length is looked at again in every round, the elements are those of
\* the start.
RangeLoop(s, key, value, x, body) ==
  LET s1 == Ev(s, x)
      c == The(s1)
      Pair(i) == IF c[1] = "M" THEN c[2][i] ELSE <<IntV(i - 1, 0), c[2][i]>>
      Opt(z, name, v) == IF name = "" THEN z ELSE Bind(z, name, v)
      Round(z, i) ==
        IF ~Going(z) THEN z
        ELSE LET z1 == Opt(Opt([z EXCEPT !.env = Append(@, <<>>)], key, Pair(i)[1]), value, Pair(i)[2])
                 z2 == Block(z1, body)
             IN  [z2 EXCEPT !.env = Front(@), !.ctl = IF @ = "continue" THEN "go" ELSE @]
      end == Fold(Round, s1, [i \in DOMAIN c[2] |-> i])
  IN  IF ~Going(s1) THEN s1 ELSE [end EXCEPT !.ctl = IF @ = "break" THEN "go" ELSE @]

\* The first case with a value equal to the tag (or true), else the default.
RECURSIVE Matches(_, _, _)
Matches(s, tag, vals) ==
  IF vals = <<>> THEN [s |-> s, yes |-> FALSE]
  ELSE LET s1 == Ev(s, vals[1])
           hit == IF tag = None THEN IsTrue(The(s1)) ELSE IsTrue(Operate("==", tag, The(s1)))
       IN  IF hit THEN [s |-> s1, yes |-> TRUE] ELSE Matches(s1, tag, Tail(vals))
RECURSIVE Choose(_, _, _)
Choose(s, tag, cases) ==
  IF cases = <<>> THEN [s |-> s, yes |-> FALSE, body |-> <<>>]
  ELSE LET m == Matches(s, tag, cases[1].vals)
       IN  IF m.yes THEN [s |-> m.s, yes |-> TRUE, body |-> cases[1].body]
           ELSE Choose(m.s, tag, Tail(cases))
Switch(s, tag, cases) ==
  LET s1 == IF tag = None THEN s ELSE Ev(s, tag)
      t == IF tag = None THEN None ELSE The(s1)
      c == Choose(s1, t, SelectSeq(cases, LAMBDA x : ~x.default))
      d == SelectSeq(cases, LAMBDA x : x.default)
      end == IF c.yes THEN Block(c.s, c.body) ELSE IF d = <<>> THEN c.s ELSE Block(c.s, d[1].body)
  IN  [end EXCEPT !.ctl = IF @ = "break" THEN "go" ELSE @]

Ex(s, n) ==
  CASE ~Going(s) -> s
    [] n[1] = "Var" ->
         IF n[4] # None
         THEN LET s1 == Ev(s, n[4]) IN Bind(s1, n[2], IF n[3] = None THEN The(s1) ELSE Typed(The(s1), n[3]))
         ELSE IF n[3][1] = "struct"
         THEN LET s1 == StructLit(s, n[3][2], <<>>) IN Bind(s1, n[2], The(s1))
         ELSE Bind(s, n[2], Zero(n[3]))
    [] n[1] = "Assign" -> Assign(s, n[2], n[3], n[4])
    [] n[1] = "Return" ->
         LET s1 == EvAll(s, n[2]) IN IF Going(s1) THEN [s1 EXCEPT !.ctl = "return"] ELSE s1
    [] n[1] = "If" ->
         LET s0 == [s EXCEPT !.env = Append(@, <<>>)]
             s1 == IF n[2] = None THEN s0 ELSE Ex(s0, n[2])
             s2 == Ev(s1, n[3])
             s3 == IF ~Going(s2) THEN s2
                   ELSE IF IsTrue(The(s2)) THEN Block(s2, n[4])
                   ELSE IF n[5] = None THEN s2 ELSE Ex(s2, n[5])
         IN  [s3 EXCEPT !.env = Front(@)]
    [] n[1] = "For" ->
         LET s0 == [s EXCEPT !.env = Append(@, <<>>)]
             s1 == IF n[2] = None THEN s0 ELSE Ex(s0, n[2])
         IN  [Loop(s1, n[3], n[4], n[5]) EXCEPT !.env = s.env]
    [] n[1] = "Range" -> RangeLoop(s, n[2], n[3], n[4], n[5])
    [] n[1] = "Switch" -> Switch(s, n[2], n[3])
    [] n[1] = "Expr" -> Ev(s, n[2])
    [] n[1] = "Inc" -> LET s1 == PlaceOf(s, n[2])
                       IN  WritePlace(s1, s1.pl, Operate("+", ReadPlace(s1, s1.pl), IntV(1, 0)))
    [] n[1] = "Branch" -> [s EXCEPT !.ctl = n[2]]
    [] n[1] = "Defer" ->
         LET c == Callee(s, n[2])
         IN  [c.s EXCEPT !.defers = Append(@, [f |-> c.f, args |-> c.args])]
    [] n[1] = "Block" -> Block(s, n[2])

\* The globals are set in their order, then main runs.
Meaning(p) ==
  LET s0 == [p |-> p, st |-> [i \in DOMAIN p.globals |-> Zero(p.globals[i].type)],
             env |-> << <<>> >>, tr |-> <<>>, ctl |-> "go", vs |-> <<>>, pl |-> <<"none">>,
             globals |-> [g \in {p.globals[i].name : i \in DOMAIN p.globals} |->
                            CHOOSE i \in DOMAIN p.globals : p.globals[i].name = g],
             consts |-> p.constants, defers |-> <<>>]
      Set(s, i) == IF p.globals[i].init = None THEN s
                   ELSE LET s1 == Ev(s, p.globals[i].init) IN WritePlace(s1, <<"var", i>>, The(s1))
      s1 == Fold(Set, s0, [i \in DOMAIN p.globals |-> i])
  IN  Call(s1, Fn(p, "main"), <<>>).tr
=============================================================================
