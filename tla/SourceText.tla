----------------------------- MODULE SourceText -----------------------------
(* The text of a package of Lowering, as Go's grammar has it and gofmt      *)
(* writes it: parentheses only where an operator binds less than the one    *)
(* around it, names of one type together, a line for a statement.           *)
EXTENDS Integers, Sequences, SequencesExt, TLC

None == <<"None">>
Word(w) == << <<"word", w>> >>
Char(c) == << <<"char", c>> >>
SP == << <<"space">> >>
NL == << <<"newline">> >>

Long == ("+=" :> <<"+", "=">>) @@ ("-=" :> <<"-", "=">>) @@ ("*=" :> <<"*", "=">>) @@
  ("/=" :> <<"/", "=">>) @@ ("%=" :> <<"%", "=">>) @@ ("&=" :> <<"&", "=">>) @@
  ("|=" :> <<"|", "=">>) @@ ("^=" :> <<"^", "=">>) @@ (":=" :> <<":", "=">>) @@
  ("<<=" :> <<"<", "<", "=">>) @@ (">>=" :> <<">", ">", "=">>) @@ ("==" :> <<"=", "=">>) @@
  ("!=" :> <<"!", "=">>) @@ ("<=" :> <<"<", "=">>) @@ (">=" :> <<">", "=">>) @@
  ("<<" :> <<"<", "<">>) @@ (">>" :> <<">", ">">>) @@ ("&&" :> <<"&", "&">>) @@
  ("||" :> <<"|", "|">>) @@ ("++" :> <<"+", "+">>) @@ ("..." :> <<".", ".", ".">>)
Op(o) == IF o \in DOMAIN Long THEN [i \in DOMAIN Long[o] |-> <<"char", Long[o][i]>>] ELSE Char(o)

\* The texts of the members of s, with sep between them.
Joined(Show(_), s, sep) ==
  LET RECURSIVE From(_)
      From(i) == IF i > Len(s) THEN <<>>
                 ELSE Show(s[i]) \o (IF i < Len(s) THEN sep ELSE <<>>) \o From(i + 1)
  IN  From(1)
Commas(Show(_), s) == Joined(Show, s, Char(",") \o SP)
Lines(Show(_), s) == Joined(Show, s, <<>>)

RECURSIVE Type(_)
Type(t) ==
  CASE t[1] = "slice" -> Char("[") \o Char("]") \o Type(t[2])
    [] t[1] = "map" -> Word("map") \o Char("[") \o Type(t[2]) \o Char("]") \o Type(t[3])
    [] t[1] = "ptr" -> Char("*") \o Type(t[2])
    [] t[1] = "any" -> Word("interface") \o Char("{") \o Char("}")
    [] t[1] \in {"struct", "iface", "named"} -> Word(t[2])
    [] OTHER -> Word(t[1])

\* Go's precedences; 6 for unary operators, 7 for operands.
Binds(o) ==
  CASE o = "||" -> 1 [] o = "&&" -> 2
    [] o \in {"==", "!=", "<", "<=", ">", ">="} -> 3
    [] o \in {"+", "-", "|", "^"} -> 4
    [] o \in {"*", "/", "%", "<<", ">>", "&"} -> 5
Strength(e) == CASE e[1] = "Bin" -> Binds(e[2]) [] e[1] = "Un" -> 6 [] OTHER -> 7

\* Expression e where p binds around it.
RECURSIVE X(_, _)
X(e, p) ==
  LET Arg(x) == X(x, 0)
      Args(es) == Commas(Arg, es)
      t == CASE e[1] = "Int" -> << <<"INT", e[2]>> >>
             [] e[1] = "Str" -> << <<"STRING", e[2]>> >>
             [] e[1] \in {"Ident", "Basic"} -> Word(e[2])
             [] e[1] = "Type" -> Type(e[2])
             [] e[1] = "Un" -> Char(e[2]) \o X(e[3], 6)
             [] e[1] = "Bin" ->
                  X(e[3], Binds(e[2])) \o SP \o Op(e[2]) \o SP \o X(e[4], Binds(e[2]) + 1)
             [] e[1] = "Call" ->
                  X(e[2], 7) \o Char("(") \o Args(e[3]) \o (IF e[4] THEN Op("...") ELSE <<>>) \o Char(")")
             [] e[1] = "Sel" -> X(e[2], 7) \o Char(".") \o Word(e[3])
             [] e[1] = "Index" -> X(e[2], 7) \o Char("[") \o X(e[3], 0) \o Char("]")
             [] e[1] = "Slice" ->
                  X(e[2], 7) \o Char("[") \o (IF e[3] = <<"Int", 0>> THEN <<>> ELSE X(e[3], 0)) \o Char(":")
                  \o (IF e[4] = None THEN <<>> ELSE X(e[4], 0)) \o Char("]")
             [] e[1] = "KV" -> X(e[2], 0) \o Char(":") \o SP \o X(e[3], 0)
             [] e[1] = "Lit" -> Type(e[2]) \o Char("{") \o Args(e[3]) \o Char("}")
  IN  IF Strength(e) < p THEN Char("(") \o t \o Char(")") ELSE t

Whole(x) == X(x, 0)
Exprs(es) == Commas(Whole, es)
Braces(t) == Char("{") \o NL \o t \o Char("}")
VarText(s) ==
  Word("var") \o SP \o Word(s[2]) \o SP \o Type(s[3])
  \o (IF s[4] = None THEN <<>> ELSE SP \o Char("=") \o SP \o X(s[4], 0))

\* A statement without the end of its line.
RECURSIVE Stmt(_)
Stmt(s) ==
  LET Line(x) == Stmt(x) \o NL
      Block(ss) == Braces(Lines(Line, ss))
      Opt(x) == IF x = None THEN <<>> ELSE X(x, 0) \o SP
      Clause(c) ==
        (IF c.default THEN Word("default") ELSE Word("case") \o SP \o Exprs(c.vals)) \o Char(":") \o NL
        \o Lines(Line, c.body)
  IN  CASE s[1] = "Expr" -> X(s[2], 0)
        [] s[1] = "Assign" -> Exprs(s[3]) \o SP \o Op(s[2]) \o SP \o Exprs(s[4])
        [] s[1] = "Inc" -> X(s[2], 0) \o Op("++")
        [] s[1] = "Var" -> VarText(s)
        [] s[1] = "Return" -> Word("return") \o SP \o Exprs(s[2])
        [] s[1] = "Branch" -> Word(s[2])
        [] s[1] = "Defer" -> Word("defer") \o SP \o X(s[2], 0)
        [] s[1] = "Block" -> Block(s[2])
        [] s[1] = "If" ->
             Word("if") \o SP \o (IF s[2] = None THEN <<>> ELSE Stmt(s[2]) \o Char(";") \o SP)
             \o X(s[3], 0) \o SP \o Block(s[4])
             \o (IF s[5] = None THEN <<>> ELSE SP \o Word("else") \o SP \o Stmt(s[5]))
        [] s[1] = "For" ->
             Word("for") \o SP
             \o (IF s[2] = None THEN Opt(s[3])
                 ELSE Stmt(s[2]) \o Char(";") \o SP \o X(s[3], 0) \o Char(";") \o SP
                      \o Stmt(s[4]) \o SP)
             \o Block(s[5])
        [] s[1] = "Range" ->
             Word("for") \o SP \o Word(s[2])
             \o (IF s[3] = "" THEN <<>> ELSE Char(",") \o SP \o Word(s[3]))
             \o SP \o Op(":=") \o SP \o Word("range") \o SP \o X(s[4], 0) \o SP \o Block(s[5])
        [] s[1] = "Switch" ->
             Word("switch") \o SP \o Opt(s[2])
             \o Braces(Lines(Clause, s[3]))

\* Parameters, names of one type together.
Params(ps, variadic) ==
  LET Param(i) ==
        Word(ps[i][1])
        \o (IF i < Len(ps) /\ ps[i + 1][2] = ps[i][2] /\ ~(variadic /\ i + 1 = Len(ps)) THEN <<>>
            ELSE SP \o (IF variadic /\ i = Len(ps) THEN Op("...") ELSE <<>>) \o Type(ps[i][2]))
  IN  Commas(Param, [i \in DOMAIN ps |-> i])
Results(ts) ==
  CASE ts = <<>> -> <<>>
    [] Len(ts) = 1 -> SP \o Type(ts[1])
    [] OTHER -> SP \o Char("(") \o Commas(Type, ts) \o Char(")")
Signature(f, name) ==
  Word(name) \o Char("(") \o Params(f.params, f.variadic) \o Char(")") \o Results(f.rets)
Func(f) ==
  (IF f.intrinsic = "" THEN <<>> ELSE << <<"comment", <<"internal", f.intrinsic>>>> >> \o NL)
  \o Word("func") \o SP
  \o (IF f.recv = None THEN Signature(f, f.name)
      ELSE Char("(") \o Word(f.recv[1]) \o SP \o Type(f.recv[2]) \o Char(")") \o SP \o Signature(f, f.meth))
  \o (IF f.intrinsic = "" THEN SP \o Stmt(<<"Block", f.body>>) ELSE <<>>) \o NL

\* The method m of some type, for its signature.
Declared(p, m) == {f \in ToSet(p.funcs) : f.meth = m}
Fields(fs) == LET Field(f) == Word(f[1]) \o SP \o Type(f[2]) \o NL IN Lines(Field, fs)
Methods(p, ms) ==
  LET Method(m) == (IF Declared(p, m) = {} THEN Word(m) \o Char("(") \o Char(")")
                    ELSE Signature(CHOOSE f \in Declared(p, m) : TRUE, m)) \o NL
  IN  Lines(Method, ms)
Group(w, t) == Word(w) \o SP \o Char("(") \o NL \o t \o Char(")") \o NL
Each(f, Show(_)) == Lines(Show, SetToSeq(DOMAIN f))
ConstText(m) == Word(m[1]) \o (IF m[2] = None THEN <<>> ELSE SP \o Char("=") \o SP \o X(m[2], 0)) \o NL

File(p) ==
  LET Struct(n) == Word(n) \o SP \o Word("struct") \o SP \o Braces(Fields(p.structs[n])) \o NL
      Iface(n) == Word("type") \o SP \o Word(n) \o SP \o Word("interface") \o SP
                  \o Braces(Methods(p, SetToSeq(p.ifaces[n]))) \o NL
      Consts(g) == Group("const", Lines(ConstText, g))
      Global(g) == VarText(<<"Var", g.name, g.type, g.init>>) \o NL
  IN  Word("package") \o SP \o Word("main") \o NL
      \o << <<"comment", <<>>>> >> \o NL
      \o Group("type", Each(p.structs, Struct)) \o Each(p.ifaces, Iface)
      \o Lines(Consts, p.consts)
      \o Lines(Global, p.globals)
      \o Lines(Func, p.funcs)
=============================================================================
