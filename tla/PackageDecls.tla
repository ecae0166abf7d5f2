---------------------------- MODULE PackageDecls ----------------------------
(***************************************************************************)
(* What the compiler makes of the declarations of a parsed file before it  *)
(* compiles their bodies (buildInterfaceTable, collectFuncRetTypes,        *)
(* compileFunc's parameters, the inits of compileGlobalInits): the package *)
(* that Lowering compiles.  Types are looked up by name, and the names of  *)
(* the package's own types are those it declares.                          *)
(***************************************************************************)
EXTENDS Parser

LOCAL INSTANCE SequencesExt

\* (Appending to the empty sequence has TLC evaluate each member once.)
Map(Op(_), s) == <<>> \o [i \in DOMAIN s |-> Op(s[i])]
Kept(s, Is(_), Op(_)) == Map(Op, SelectSeq(s, Is))

\* The declarations of a file, a group's one by one.
Members(d) == IF d[1] = "Block" THEN d[2] ELSE <<d>>
Declarations(file) == FlattenSeq(Map(Members, file[4]))
DeclaredAs(decls, kind) == {decls[i][2] : i \in {j \in DOMAIN decls :
                              decls[j][1] = "TypeDecl" /\ decls[j][3][1] = kind}}

-----------------------------------------------------------------------------
(* Types.  names: the structs and the interfaces of the package.           *)

RECURSIVE qualifyTypeName(_, _)
qualifyTypeName(names, t) ==
  CASE t[1] = "SliceType" -> <<"slice", qualifyTypeName(names, t[2])>>
    [] t[1] = "MapType" -> <<"map", qualifyTypeName(names, t[2]), qualifyTypeName(names, t[3])>>
    [] t[1] = "PointerType" -> <<"ptr", qualifyTypeName(names, t[2])>>
    [] t[1] = "InterfaceType" -> <<"any">>
    [] t[1] = "Ident" /\ t[2] \in names.structs -> <<"struct", t[2]>>
    [] t[1] = "Ident" /\ t[2] \in names.ifaces -> <<"iface", t[2]>>
    [] t[1] = "Ident" /\ t[2] \in names.named -> <<"named", t[2]>>
    [] t[1] = "Ident" -> <<t[2]>>

-----------------------------------------------------------------------------
(* Expressions and statements, with their types resolved, blocks as the    *)
(* sequences of their statements, and what Lowering does not have dropped. *)

TypeNodes == {"SliceType", "MapType", "PointerType", "InterfaceType"}

RECURSIVE Expr(_, _)
Expr(g, e) ==
  LET In(x) == Expr(g, x)
      All(es) == Map(In, es)
  IN  CASE e[1] \in {"Int", "Str", "Ident", "Basic", "None"} -> e
        [] e[1] = "Rune" -> <<"Int", e[2]>>
        [] e[1] \in TypeNodes -> <<"Type", qualifyTypeName(g, e)>>
        [] e[1] = "Un" -> <<"Un", e[2], Expr(g, e[3])>>
        [] e[1] = "Bin" -> <<"Bin", e[2], Expr(g, e[3]), Expr(g, e[4])>>
        [] e[1] = "Call" -> <<"Call", Expr(g, e[2]), All(e[3]), e[4]>>
        [] e[1] = "Sel" -> <<"Sel", Expr(g, e[2]), e[3]>>
        [] e[1] \in {"Index", "KV"} -> <<e[1], Expr(g, e[2]), Expr(g, e[3])>>
        [] e[1] = "Slice" -> <<"Slice", Expr(g, e[2]), Expr(g, e[3]), Expr(g, e[4])>>
        [] e[1] = "Lit" -> <<"Lit", qualifyTypeName(g, e[2]), All(e[3])>>

VarOf(g, s) == <<"Var", s[2], qualifyTypeName(g, s[3]), Expr(g, s[4])>>
NameOf(e) == IF e = None THEN "" ELSE e[2]

RECURSIVE Stmt(_, _)
Stmt(g, s) ==
  LET ExprIn(x) == Expr(g, x)
      StmtIn(x) == Stmt(g, x)
      Exprs(es) == Map(ExprIn, es)
      Stmts(ss) == Map(StmtIn, ss)
      Body(b) == Stmts(b[2])
      Clause(c) == [default |-> c[2], vals |-> Exprs(c[3]), body |-> Stmts(c[4])]
  IN  CASE s = None -> None
        [] s[1] \in {"Expr", "Inc", "Defer"} -> <<s[1], Expr(g, s[2])>>
        [] s[1] = "Assign" -> <<"Assign", s[2], Exprs(s[3]), Exprs(s[4])>>
        [] s[1] = "Var" -> VarOf(g, s)
        [] s[1] = "Return" -> <<"Return", Exprs(s[2])>>
        [] s[1] = "Branch" -> s
        [] s[1] = "Block" -> <<"Block", Body(s)>>
        [] s[1] = "If" -> <<"If", Stmt(g, s[2]), Expr(g, s[3]), Body(s[4]), Stmt(g, s[5])>>
        [] s[1] = "For" -> <<"For", Stmt(g, s[2]), Expr(g, s[3]), Stmt(g, s[4]), Body(s[5])>>
        [] s[1] = "Range" -> <<"Range", NameOf(s[2]), NameOf(s[3]), Expr(g, s[4]), Body(s[5])>>
        [] s[1] = "Switch" ->
             <<"Switch", Expr(g, s[3]), Map(Clause, s[4])>>

-----------------------------------------------------------------------------
(* Functions and methods.                                                  *)

IsVarParam(field) == Len(field[2]) > 3 /\ SubSeq(field[2], 1, 3) = "..."
ParamName(field) == IF IsVarParam(field) THEN SubSeq(field[2], 4, Len(field[2])) ELSE field[2]

\* The result types: the fields of a list, or the one type.
ResultFields(t) ==
  CASE t = None -> <<>>
    [] t[1] = "FuncType" -> t[2]
    [] OTHER -> << <<"Field", "", t>> >>

\* The method of a type is named for the type its receiver is or points to.
RecvName(t) == IF t[1] = "PointerType" THEN t[2][2] ELSE t[2]
\* The name an intrinsic is called by: the second word of the directive.
parseInternalDirective(words) == IF words[1] = "internal" THEN words[2] ELSE ""

FuncOf(g, n, directive) ==
  LET rets == ResultFields(n[5])
      Named(f) == f[2] # ""
      NameIn(f) == f[2]
  IN  [name |-> IF n[3] = None THEN n[2] ELSE RecvName(n[3][3]) \o "." \o n[2],
       recv |-> IF n[3] = None THEN None ELSE <<n[3][2], qualifyTypeName(g, n[3][3])>>,
       meth |-> IF n[3] = None THEN "" ELSE n[2],
       params |-> [i \in DOMAIN n[4] |-> <<ParamName(n[4][i]), qualifyTypeName(g, n[4][i][3])>>],
       variadic |-> \E i \in DOMAIN n[4] : IsVarParam(n[4][i]),
       rets |-> [i \in DOMAIN rets |-> qualifyTypeName(g, rets[i][3])],
       named |-> Kept(rets, Named, NameIn),
       intrinsic |-> directive,
       body |-> IF n[6] = None THEN <<>> ELSE Stmt(g, n[6])[2]]

\* compileTopDecl: a function, or one behind a directive.
compileTopDecl(g, d) ==
  IF d[1] = "Directive" THEN FuncOf(g, d[3], parseInternalDirective(d[2])) ELSE FuncOf(g, d, "")
IsFunc(d) == d[1] = "Func" \/ (d[1] = "Directive" /\ d[3][1] = "Func")

-----------------------------------------------------------------------------
(* The package.                                                            *)

DeclOf(decls, name) ==
  decls[CHOOSE i \in DOMAIN decls : decls[i][1] = "TypeDecl" /\ decls[i][2] = name]

collectInterfaceDecl(t) == {t[2][i][2] : i \in {j \in DOMAIN t[2] : t[2][j][1] = "Func"}}
StructOf(g, t) == [i \in DOMAIN t[2] |-> <<t[2][i][2], qualifyTypeName(g, t[2][i][3])>>]
ConstOf(g, n) == <<n[2], Expr(g, n[4])>>

PackageOf(file) ==
  LET decls == Declarations(file)
      g == [structs |-> DeclaredAs(decls, "StructType"), ifaces |-> DeclaredAs(decls, "InterfaceType"),
            named |-> DeclaredAs(decls, "Ident")]
      IsVar(d) == d[1] = "Var"
      IsConst(d) == d[1] = "Consts"
      Global(d) == [name |-> d[2], type |-> VarOf(g, d)[3], init |-> VarOf(g, d)[4]]
      Consts(d) == [i \in DOMAIN d[2] |-> ConstOf(g, d[2][i])]
      Func(d) == compileTopDecl(g, d)
  IN  [structs |-> [n \in g.structs |-> StructOf(g, DeclOf(decls, n)[3])],
       ifaces |-> [n \in g.ifaces |-> collectInterfaceDecl(DeclOf(decls, n)[3])],
       named |-> g.named,
       globals |-> Kept(decls, IsVar, Global),
       consts |-> Kept(decls, IsConst, Consts),
       funcs |-> Kept(decls, IsFunc, Func)]

\* What a text is compiled to, and the number of errors in it.
Parsed(text) ==
  LET f == ParseFile(Tokenize(text))
  IN  [errors |-> f.errors, package |-> IF f.errors = 0 THEN PackageOf(f.tree) ELSE <<>>]
=============================================================================
