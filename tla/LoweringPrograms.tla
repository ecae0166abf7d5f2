-------------------------- MODULE LoweringPrograms --------------------------
(* The programs on which the lowering is checked.  Nested are all nestings  *)
(* of two compound statements around a statement; the others each go        *)
(* through one part of the language.                                        *)
EXTENDS Integers, Sequences, TLC

N(k) == IF k < 0 THEN <<"Un", "-", <<"Int", -k>>>> ELSE <<"Int", k>>
S(cs) == <<"Str", cs>>
Id(x) == <<"Ident", x>>
Bin(op, x, y) == <<"Bin", op, x, y>>
Un(op, x) == <<"Un", op, x>>
CallN(f, args) == <<"Call", Id(f), args, FALSE>>
Method(x, m, args) == <<"Call", <<"Sel", x, m>>, args, FALSE>>
Spread(f, args) == <<"Call", Id(f), args, TRUE>>
Sel(x, f) == <<"Sel", x, f>>
At(x, i) == <<"Index", x, i>>
Cut(x, lo, hi) == <<"Slice", x, lo, hi>>
Lit(t, es) == <<"Lit", t, es>>
KV(k, v) == <<"KV", k, v>>
T(t) == <<"Type", t>>
Nil == <<"Basic", "nil">>
True == <<"Basic", "true">>
None == <<"None">>

Do(x) == <<"Expr", x>>
Put(x) == Do(CallN("put", <<x>>))
Puts(x) == Do(CallN("puts", <<x>>))
Note(k) == CallN("note", <<k>>)
Set(l, r) == <<"Assign", "=", <<l>>, <<r>>>>
SetOp(op, l, r) == <<"Assign", op, <<l>>, <<r>>>>
Def(x, r) == <<"Assign", ":=", <<Id(x)>>, <<r>>>>
Defs(xs, rs) == <<"Assign", ":=", [i \in DOMAIN xs |-> Id(xs[i])], rs>>
Sets(ls, rs) == <<"Assign", "=", ls, rs>>
Var(x, t, r) == <<"Var", x, t, r>>
Ret(xs) == <<"Return", xs>>
If(c, then, else) == <<"If", None, c, then, else>>
For(i, c, p, b) == <<"For", i, c, p, b>>
Range(k, v, x, b) == <<"Range", k, v, x, b>>
Switch(t, cs) == <<"Switch", t, cs>>
Case(vs, b) == [default |-> FALSE, vals |-> vs, body |-> b]
Default(b) == [default |-> TRUE, vals |-> <<>>, body |-> b]
Inc(x) == <<"Inc", x>>
Break == <<"Branch", "break">>
Next0 == <<"Branch", "continue">>
Block(b) == <<"Block", b>>
Defer(c) == <<"Defer", c>>

int == <<"int">>
byte == <<"byte">>
string == <<"string">>
any == <<"any">>
slice(t) == <<"slice", t>>
map(k, v) == <<"map", k, v>>
ptr(t) == <<"ptr", t>>
struct(n) == <<"struct", n>>
iface(n) == <<"iface", n>>

Func(name, params, rets, body) ==
  [name |-> name, recv |-> None, meth |-> "", params |-> params, variadic |-> FALSE,
   rets |-> rets, named |-> <<>>, intrinsic |-> "", body |-> body]
Intr(name, t, rets) == [Func(name, << <<"v", t>> >>, rets, <<>>) EXCEPT !.intrinsic = name]
Meth(recv, t, m, params, rets, body, name) ==
  [Func(name, params, rets, body) EXCEPT !.recv = <<recv, t>>, !.meth = m]
Intrinsics == <<Intr("put", int, <<>>), Intr("puts", string, <<>>), Intr("putany", any, <<>>),
                Intr("note", int, <<int>>)>>
Package(funcs) ==
  [structs |-> ("T" :> << <<"a", int>>, <<"b", int>>, <<"s", string>> >>) @@
               ("U" :> << <<"t", ptr(struct("T"))>>, <<"l", slice(int)>>, <<"m", map(string, int)>> >>),
   ifaces |-> ("I" :> {"M", "K"}),
   globals |-> << [name |-> "g", type |-> int, init |-> N(1)],
                  [name |-> "gs", type |-> slice(int), init |-> Lit(slice(int), <<N(5), N(6)>>)],
                  [name |-> "gt", type |-> string, init |-> S(<<7>>)] >>,
   consts |-> << << <<"c0", <<"Basic", "iota">>>>, <<"c1", None>>, <<"c2", None>> >>,
                 << <<"d0", Bin("<<", N(1), <<"Basic", "iota">>)>>, <<"d1", None>>,
                    <<"d2", Bin("+", Id("c2"), N(3))>> >> >>,
   constants |-> ("c0" :> 0) @@ ("c1" :> 1) @@ ("c2" :> 2) @@ ("d0" :> 1) @@ ("d1" :> 2) @@ ("d2" :> 5),
   named |-> {}, funcs |-> Intrinsics \o funcs]
Prog(body) == Package(<<Func("main", <<>>, <<>>, body)>>)
Prog2(fs, body) == Package(fs \o <<Func("main", <<>>, <<>>, body)>>)

-----------------------------------------------------------------------------
Step == Set(Id("x"), Bin("%", Bin("+", Id("x"), N(1)), N(4)))
\* Compound statements around b, over variables x and i.
Wrap(k, i, b) ==
  CASE k = "then" -> <<If(Bin("<", Id("x"), N(2)), b, None), Put(N(10))>>
    [] k = "else" -> <<If(Bin(">", Id("x"), N(0)), <<Put(N(11))>>, Block(b)), Put(N(12))>>
    [] k = "elseif" -> <<If(Bin("==", Id("x"), N(0)), <<Put(N(13))>>,
                            If(Bin("==", Id("x"), N(1)), b, Block(<<Put(N(14))>>)))>>
    [] k = "while" -> <<Var(i, int, N(0)),
                        For(None, Bin("<", Id(i), N(2)), None,
                            <<Inc(Id(i)), Step>> \o b \o <<Put(Id(i))>>), Put(N(15))>>
    [] k = "for" -> <<For(Def(i, N(0)), Bin("<", Id(i), N(2)), Inc(Id(i)),
                          <<Step>> \o b \o <<Put(Id(i))>>), Put(N(16))>>
    [] k = "range" -> <<Range(i, "v", Id("gs"), <<SetOp("+=", Id("x"), Id("v"))>> \o b \o <<Put(Id(i))>>),
                        Put(N(17))>>
    [] k = "tag" -> <<Switch(Id("x"), <<Case(<<N(0), N(2)>>, b), Case(<<N(1)>>, <<Put(N(18))>>),
                                        Default(<<Put(N(19))>>)>>), Put(N(20))>>
    [] k = "default" -> <<Switch(None, <<Case(<<Bin("==", Id("x"), N(1))>>, <<Put(N(21))>>),
                                         Default(b)>>), Put(N(22))>>
    [] k = "text" -> <<Switch(Id("gt"), <<Case(<<S(<<8>>)>>, <<Put(N(23))>>), Case(<<S(<<9>>), S(<<7>>)>>, b)>>),
                       Put(N(24))>>
    [] k = "block" -> <<Block(<<Def("y", Bin("+", Id("x"), N(1)))>> \o b \o <<Put(Id("y"))>>)>>
Kinds == {"then", "else", "elseif", "while", "for", "range", "tag", "default", "text", "block"}
Loops == {"while", "for", "range"}
Leaf(l) == CASE l = "break" -> <<Break>> [] l = "continue" -> <<Next0>> [] l = "return" -> <<Ret(<<Id("x")>>)>>
             [] l = "put" -> <<Put(Id("x"))>> [] l = "inc" -> <<SetOp("*=", Id("x"), N(3))>>
\* break and continue stand in a loop, break not in a switch within it.
Legal(o, k, l) ==
  /\ l \in {"break", "continue"} => {o, k} \cap Loops # {}
  /\ l = "break" => k \notin {"tag", "default", "text"}
                    /\ (k \in Loops \/ o \in Loops)
NestedNames == {<<o, k, l, x>> \in Kinds \X Kinds \X {"break", "continue", "return", "put", "inc"} \X {"nested"} :
                  Legal(o, k, l)}
Nested(n) ==
  Prog2(<<Func("f", << <<"x", int>> >>, <<int>>,
               Wrap(n[1], "i", Wrap(n[2], "j", Leaf(n[3]))) \o <<Ret(<<Bin("+", Id("x"), N(30))>>)>>)>>,
        <<Put(CallN("f", <<N(0)>>)), Put(CallN("note", <<CallN("f", <<N(1)>>)>>))>>)

-----------------------------------------------------------------------------
pair == Func("pair", << <<"x", int>> >>, <<int, int>>, <<Ret(<<Id("x"), Bin("+", Id("x"), N(1))>>)>>)
three == Func("three", <<>>, <<int, string, int>>, <<Ret(<<N(1), S(<<4>>), N(3)>>)>>)
x0 == Def("x", N(0))

\* Every operator on operands with an effect, and which operands are evaluated.
Arith == [o \in {"+", "-", "*", "/", "%", "==", "!=", "<", ">", "<=", ">="} \X {-7, 0, 3} \X {-2, 2, 3} |->
  Prog(<<Put(Bin(o[1], Note(N(o[2])), Note(N(o[3])))), Put(Un("-", Bin(o[1], N(o[2]), N(o[3]))))>>)]
Bits == [o \in {"&", "|", "^", "<<", ">>"} \X {0, 5, 6} \X {1, 3} |->
  Prog(<<Put(Bin(o[1], Note(N(o[2])), Note(N(o[3])))), Def("v", N(o[2])), SetOp(o[1] \o "=", Id("v"), N(o[3])), Put(Id("v"))>>)]
Logic == [o \in {"&&", "||"} \X {"&&", "||"} \X {0, 1} \X {0, 1} \X {0, 1} |->
  LET B(k) == Bin("==", Note(N(k)), N(1))
  IN  Prog(<<If(Bin(o[1], B(o[3]), Bin(o[2], B(o[4]), Un("!", B(o[5])))), <<Put(N(5))>>, Block(<<Put(N(6))>>)),
             Def("v", Bin(o[2], Bin(o[1], B(o[3]), B(o[4])), B(o[5]))), Put(Id("v"))>>)]

Texts == [
  assign |-> Prog2(<<pair, three>>, <<
    Defs(<<"a", "b">>, <<CallN("pair", <<N(4)>>)>>), Put(Id("a")), Put(Id("b")),
    Sets(<<Id("a"), Id("b")>>, <<Id("b"), Id("a")>>), Put(Id("a")), Put(Id("b")),
    Sets(<<Id("g"), Id("_")>>, <<CallN("pair", <<Id("b")>>)>>), Put(Id("g")),
    Sets(<<At(Id("gs"), N(0)), At(Id("gs"), N(1))>>, <<At(Id("gs"), N(1)), At(Id("gs"), N(0))>>),
    Put(At(Id("gs"), N(0))), Put(At(Id("gs"), N(1))),
    Defs(<<"p", "q", "r">>, <<CallN("three", <<>>)>>), Put(Id("p")), Puts(Id("q")), Put(Id("r")),
    SetOp("+=", Id("p"), Id("r")), SetOp("-=", At(Id("gs"), N(1)), Id("r")), Inc(At(Id("gs"), N(0))),
    SetOp("%=", Id("r"), N(2)), SetOp("/=", Id("g"), N(2)), Put(Id("g")),
    Put(Id("p")), Put(Id("r")), Put(At(Id("gs"), N(0))), Put(At(Id("gs"), N(1))), Inc(Id("g")), Put(Id("g"))>>),
  scopes |-> Prog(<<x0, Block(<<Var("x", int, N(1)), Put(Id("x")), Block(<<Def("x", N(2)), Inc(Id("x")), Put(Id("x"))>>),
    Inc(Id("x")), Put(Id("x"))>>), Put(Id("x")), Var("g", int, N(9)), Put(Id("g")),
    <<"If", Def("x", N(7)), Bin(">", Id("x"), N(3)), <<Put(Id("x"))>>, None>>, Put(Id("c1")), Put(Id("c2")), Put(Id("d2")),
    Put(Bin("+", Id("d0"), Id("d1")))>>),
  deep |-> Prog2(<<Func("down", << <<"n", int>> >>, <<int>>, <<Def("a", Id("n")), Def("b", Id("a")),
      If(Bin("==", Id("n"), N(10)), <<Ret(<<N(0)>>)>>, None), Put(Id("b")),
      Ret(<<Bin("+", N(1), CallN("down", <<Bin("+", Id("n"), N(1))>>))>>)>>)>>, <<Put(CallN("down", <<N(0)>>))>>),
  skips |-> Prog(<<For(Def("i", N(0)), Bin("<", Id("i"), N(3)), Inc(Id("i")),
                       <<If(Bin(">", Id("i"), N(0)), <<Next0>>, None), Put(N(1))>>), Put(N(2))>>),
  defers |-> Prog2(<<Func("f", << <<"x", int>> >>, <<int>>, <<
      Defer(CallN("put", <<Note(Id("x"))>>)), Inc(Id("x")), Defer(CallN("put", <<Bin("+", Id("x"), N(100))>>)),
      If(Bin(">", Id("x"), N(5)), <<Ret(<<Note(N(1))>>)>>, None), Put(Id("x")), Ret(<<Note(Id("x"))>>)>>),
     Func("k", <<>>, <<>>, <<Defer(CallN("put", <<N(40)>>)), Defer(CallN("put", <<N(41)>>)), Put(N(42))>>)>>,
    <<Put(CallN("f", <<N(2)>>)), Put(CallN("f", <<N(5)>>)), Do(CallN("k", <<>>)), Defer(CallN("put", <<N(43)>>))>>),
  drops |-> Prog2(<<pair, three>>, <<Do(CallN("pair", <<N(1)>>)), Do(CallN("three", <<>>)), Do(Note(N(2))),
    For(Def("i", N(0)), Bin("<", Id("i"), N(2)), Inc(Id("i")), <<Do(CallN("pair", <<Id("i")>>))>>), Put(N(3))>>),
  ends |-> Prog2(<<Func("f", << <<"x", int>> >>, <<int>>, <<
      If(Bin("<", Id("x"), N(2)), <<Ret(<<N(50)>>)>>, Block(<<Ret(<<Id("x")>>)>>))>>),
     Func("k", << <<"x", int>> >>, <<int>>, <<For(None, None, None, <<Inc(Id("x")),
      If(Bin("&&", Bin(">", Id("x"), N(2)), Bin("==", CallN("f", <<Id("x")>>), Id("x"))), <<Ret(<<Id("x")>>)>>, None)>>)>>),
     Func("w", << <<"x", int>> >>, <<int>>, <<Switch(Id("x"), <<Case(<<N(1), N(3)>>, <<Ret(<<N(51)>>)>>),
      Case(<<CallN("k", <<N(3)>>)>>, <<Do(CallN("panic", <<S(<<4>>)>>))>>), Default(<<Ret(<<CallN("f", <<Id("x")>>)>>)>>)>>)>>)>>,
    <<Put(CallN("f", <<N(1)>>)), Put(CallN("k", <<N(1)>>)), Put(CallN("w", <<N(3)>>)), Put(CallN("w", <<N(2)>>)), Put(CallN("w", <<N(4)>>))>>),
  recursion |-> Prog2(<<Func("fib", << <<"n", int>> >>, <<int>>, <<
     If(Bin("<", Id("n"), N(2)), <<Ret(<<Id("n")>>)>>, None),
     Ret(<<Bin("+", CallN("fib", <<Bin("-", Id("n"), N(1))>>), CallN("fib", <<Bin("-", Id("n"), N(2))>>))>>)>>)>>,
    <<Put(CallN("fib", <<N(4)>>))>>),
  panics |-> Prog2(<<Func("f", << <<"x", int>> >>, <<int>>, <<
     If(Bin(">", Id("x"), N(1)), <<Do(CallN("panic", <<S(<<3, 4>>)>>))>>, None), Ret(<<Id("x")>>)>>)>>,
    <<Put(CallN("f", <<N(1)>>)), Put(Bin("+", N(1), CallN("f", <<N(2)>>))), Put(N(9))>>) ]

sum == [Func("sum", << <<"s", string>>, <<"xs", int>> >>, <<int>>, <<Puts(Id("s")), Def("t", N(0)),
         Range("_", "x", Id("xs"), <<SetOp("+=", Id("t"), Id("x"))>>), Ret(<<Bin("+", Id("t"), CallN("len", <<Id("xs")>>))>>)>>)
        EXCEPT !.variadic = TRUE]
all == [Func("all", << <<"xs", any>> >>, <<>>, <<Range("i", "x", Id("xs"), <<Put(Id("i")), Do(CallN("putany", <<Id("x")>>))>>)>>)
        EXCEPT !.variadic = TRUE]
bool == int
PT == ptr(struct("T"))
\* Two types with methods M and K, on the structs T and V.
getA == Meth("t", PT, "M", <<>>, <<int>>, <<Ret(<<Bin("+", Sel(Id("t"), "a"), N(1))>>)>>, "T.M")
addA == Meth("t", PT, "K", << <<"n", int>> >>, <<int>>,
             <<SetOp("+=", Sel(Id("t"), "a"), Id("n")), Ret(<<Sel(Id("t"), "a")>>)>>, "T.K")
getV == Meth("v", ptr(struct("V")), "M", <<>>, <<int>>, <<Ret(<<Sel(Id("v"), "z")>>)>>, "V.M")
addV == Meth("v", ptr(struct("V")), "K", << <<"n", int>> >>, <<int>>,
             <<Put(Id("n")), Ret(<<Bin("*", Id("n"), Sel(Id("v"), "z"))>>)>>, "V.K")
manyT == [Meth("t", PT, "Many", << <<"xs", int>> >>, <<int>>,
               <<Ret(<<Bin("+", Sel(Id("t"), "b"), CallN("len", <<Id("xs")>>))>>)>>, "T.Many") EXCEPT !.variadic = TRUE]
pick == Func("pick", << <<"k", int>> >>, <<iface("I"), bool>>, <<
          If(Bin("==", Id("k"), N(0)), <<Ret(<<Un("&", Lit(struct("T"), <<KV(Id("a"), N(4))>>)), N(1)>>)>>, None),
          Ret(<<Un("&", Lit(struct("V"), <<KV(Id("z"), N(6))>>)), N(0)>>)>>)
one == Func("one", << <<"k", int>> >>, <<iface("I")>>, <<
          If(Bin("==", Id("k"), N(0)), <<Ret(<<Un("&", Lit(struct("V"), <<N(3)>>))>>)>>, None),
          Defs(<<"i", "ok">>, <<CallN("pick", <<N(0)>>)>>), Ret(<<Id("i")>>)>>)
use == Func("use", << <<"i", iface("I")>>, <<"n", int>> >>, <<int>>,
          <<Ret(<<Bin("+", Method(Id("i"), "K", <<Id("n")>>), Method(Id("i"), "M", <<>>))>>)>>)
WithV(p) == [p EXCEPT !.structs = ("V" :> << <<"z", int>> >>) @@ @]

Calls == [
  variadic |-> Prog2(<<sum, all>>, <<Put(CallN("sum", <<S(<<1>>)>>)), Put(CallN("sum", <<S(<<2>>), Note(N(3)), Note(N(4))>>)),
    Put(Spread("sum", <<S(<<1>>), Id("gs")>>)), Def("y", S(<<5>>)), Def("z", N(8)),
    Do(CallN("all", <<N(7), S(<<6>>), Bin("+", Id("gt"), Id("y")), Id("z"), Id("y"), At(Id("gs"), N(1)),
                      CallN("len", <<Id("y")>>)>>))>>),
  methods |-> WithV(Prog2(<<getA, addA, getV, addV, manyT>>, <<
    Def("t", Un("&", Lit(struct("T"), <<KV(Id("b"), N(2)), KV(Id("a"), Note(N(1)))>>))),
    Put(Method(Id("t"), "M", <<>>)), Put(Method(Id("t"), "K", <<Note(N(5))>>)), Put(Sel(Id("t"), "a")),
    Put(Method(Id("t"), "Many", <<N(1), N(2), N(3)>>)),
    Var("v", struct("V"), None), Set(Sel(Id("v"), "z"), N(3)), Put(Method(Id("v"), "M", <<>>)),
    Put(Bin("+", Method(Id("v"), "K", <<N(2)>>), Method(Id("t"), "M", <<>>))),
    Def("u", Un("&", Lit(struct("U"), <<KV(Id("t"), Id("t"))>>))), Put(Sel(Sel(Id("u"), "t"), "a")),
    Set(Sel(Sel(Id("u"), "t"), "b"), N(9)), Put(Sel(Id("t"), "b")), Put(Method(Sel(Id("u"), "t"), "M", <<>>))>>)),
  dynamic |-> WithV(Prog2(<<getA, addA, getV, addV, pick, one, use>>, <<
    Defs(<<"i", "b">>, <<CallN("pick", <<N(0)>>)>>), Put(Method(Id("i"), "M", <<>>)), Put(Method(Id("i"), "K", <<Note(N(2))>>)),
    Put(Id("b")), Var("j", iface("I"), CallN("one", <<N(0)>>)), Put(Method(Id("j"), "K", <<N(2)>>)),
    Put(CallN("use", <<Id("i"), N(1)>>)), Put(CallN("use", <<Id("j"), N(1)>>)),
    Put(CallN("use", <<CallN("one", <<N(1)>>), N(7)>>))>>)) ]

Data == [
  strings |-> Prog(<<Def("s", S(<<1, 2, 3>>)), Def("t", Bin("+", Id("s"), S(<<4>>))), Puts(Id("t")),
    Put(CallN("len", <<Id("t")>>)), Put(CallN("int", <<At(Id("t"), N(3))>>)), Puts(Cut(Id("t"), N(1), N(3))), Puts(Cut(Id("t"), N(2), None)),
    If(Bin("==", Cut(Id("t"), N(0), N(3)), Id("s")), <<Put(N(1))>>, Block(<<Put(N(0))>>)),
    If(Bin("!=", Bin("+", Id("s"), Id("gt")), Id("t")), <<Put(N(1))>>, None),
    Range("i", "", Id("s"), <<Put(CallN("int", <<At(Id("s"), Id("i"))>>))>>),
    Def("bs", CallN("make", <<T(slice(byte)), N(1)>>)), Set(At(Id("bs"), N(0)), N(7)),
    SetOp("=", Id("s"), Bin("+", Id("s"), CallN("string", <<At(Id("bs"), N(0))>>))), Puts(Id("s")),
    Var("e", string, None), Puts(Bin("+", Id("e"), Id("gt"))), Put(CallN("len", <<Id("e")>>)),
    If(Bin("==", Id("e"), S(<<>>)), <<Put(N(2))>>, None)>>),
  slices |-> Prog(<<Var("a", slice(int), None), Set(Id("a"), CallN("append", <<Id("a"), N(1), N(2)>>)),
    Set(Id("a"), Spread("append", <<Id("a"), Id("gs")>>)), Put(CallN("len", <<Id("a")>>)), Range("i", "v", Id("a"), <<Put(Bin("*", Id("i"), Id("v")))>>),
    Def("b", CallN("make", <<T(slice(int)), N(3)>>)), Put(CallN("copy", <<Id("b"), Id("a")>>)), Put(At(Id("b"), N(2))),
    Def("sl", Cut(Id("a"), N(1), N(3))), Range("_", "v", Id("sl"), <<Put(Id("v"))>>), Put(CallN("len", <<Cut(Id("a"), N(2), None)>>)),
    Def("c", CallN("make", <<T(slice(int)), N(0), N(2)>>)), Set(Id("c"), CallN("append", <<Id("c"), N(8)>>)), Put(At(Id("c"), N(0))),
    Def("ss", Lit(slice(string), <<S(<<1>>), S(<<2>>)>>)), Range("_", "w", Id("ss"), <<Puts(Id("w"))>>),
    Def("n", Lit(slice(slice(int)), <<Lit(slice(int), <<N(1), N(2)>>), Lit(slice(int), <<N(3)>>)>>)), Put(At(At(Id("n"), N(0)), N(1))),
    Set(At(Id("b"), N(1)), N(6)), Put(At(Id("b"), N(1)))>>),
  maps |-> Prog(<<Def("m", CallN("make", <<T(map(string, int))>>)), Set(At(Id("m"), S(<<1>>)), N(5)), Set(At(Id("m"), S(<<2>>)), N(6)),
    Put(At(Id("m"), Bin("+", S(<<>>), S(<<1>>)))), Put(CallN("len", <<Id("m")>>)), Put(At(Id("m"), S(<<3>>))),
    Defs(<<"v", "ok">>, <<At(Id("m"), S(<<2>>))>>), Put(Id("v")), Put(Id("ok")), Sets(<<Id("_"), Id("ok")>>, <<At(Id("m"), S(<<9>>))>>), Put(Id("ok")),
    Range("k", "e", Id("m"), <<Puts(Id("k")), Put(Id("e"))>>), Do(CallN("delete", <<Id("m"), S(<<1>>)>>)), Put(CallN("len", <<Id("m")>>)),
    Def("w", Lit(map(int, int), <<KV(N(1), N(2)), KV(N(3), N(4))>>)), Set(At(Id("w"), N(1)), Bin("+", At(Id("w"), N(3)), At(Id("w"), N(1)))),
    Put(At(Id("w"), N(1))),
    Def("u", Un("&", Lit(struct("U"), <<KV(Id("m"), Id("m"))>>))), Put(At(Sel(Id("u"), "m"), S(<<2>>))),
    Set(Sel(Id("u"), "l"), CallN("append", <<Sel(Id("u"), "l"), N(5)>>)), Put(At(Sel(Id("u"), "l"), N(0)))>>),
  bytes |-> Prog(<<Var("b", byte, N(15)), SetOp("+=", Id("b"), N(3)), Put(CallN("int", <<Id("b")>>)),
    Def("bs", CallN("make", <<T(slice(byte)), N(2)>>)), Set(At(Id("bs"), N(0)), N(5)), Set(At(Id("bs"), N(1)), Id("b")),
    Set(Id("bs"), CallN("append", <<Id("bs"), CallN("byte", <<N(20)>>)>>)), Puts(CallN("string", <<Id("bs")>>)),
    Put(CallN("len", <<Id("bs")>>)), Def("d", Bin("-", Id("b"), CallN("byte", <<N(3)>>))), Put(CallN("int", <<Id("d")>>)),
    Put(CallN("int", <<Un("-", Id("b"))>>))>>),
  pointers |-> Prog2(<<Func("bump", << <<"p", ptr(int)>> >>, <<>>, <<Set(Un("*", Id("p")), Bin("+", Un("*", Id("p")), N(1)))>>)>>, <<
    Def("x", N(3)), Do(CallN("bump", <<Un("&", Id("x"))>>)), Put(Id("x")), Do(CallN("bump", <<Un("&", Id("g"))>>)), Put(Id("g")),
    Def("q", Un("&", Id("x"))), Set(Un("*", Id("q")), N(8)), Put(Id("x")), Inc(Id("x")), Put(Un("*", Id("q")))>>) ]

Named(ps) == [n \in {<<k>> : k \in DOMAIN ps} |-> ps[n[1]]]
AllPrograms == [n \in NestedNames |-> Nested(n)] @@ Arith @@ Bits @@ Logic @@ Named(Texts) @@ Named(Calls) @@ Named(Data)
=============================================================================
