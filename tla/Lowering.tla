------------------------------ MODULE Lowering ------------------------------
(***************************************************************************)
(* How the compiler lowers a checked syntax tree to the intermediate code  *)
(* (std/compiler/ir.go): a single pass that appends instructions, keeps    *)
(* the scopes of the names, tables of what it knows of their types, and    *)
(* the depth the operand stack should have.                                *)
(*                                                                         *)
(* A tree is a tuple whose first member is its kind: an expression is      *)
(* <<"Int", n>>, <<"Str", chars>>, <<"Basic", name>>, <<"Ident", name>>,   *)
(* <<"Bin", op, x, y>>, <<"Un", op, x>>, <<"Call", callee, args, spread>>, *)
(* <<"Sel", x, field>>, <<"Index", x, i>>, <<"Slice", x, low, high>>,      *)
(* <<"Lit", type, elems>> with <<"KV", k, v>> among its elements, and in   *)
(* make a <<"Type", t>>.  A type is <<"int">>, <<"byte">>, <<"string">>,   *)
(* <<"any">>, <<"slice", t>>, <<"map", k, v>>, <<"ptr", t>>,               *)
(* <<"struct", name>>, <<"named", name>>, <<"iface", name>>.               *)
(*                                                                         *)
(* One package is compiled.                                                *)
(***************************************************************************)
EXTENDS Instructions

None == <<"None">>
At(f, k) == IF k \in DOMAIN f THEN f[k] ELSE None

\* FoldLeft, as TLC evaluates it without going deep: by halves, and acc is a
\* value (it has a DOMAIN) before the next step is taken.
Fold(Op(_, _), acc, s) ==
  LET RECURSIVE Over(_, _, _)
      Over(a, i, j) == IF Cardinality(DOMAIN a) < 0 \/ i > j THEN a
                       ELSE IF i = j THEN Op(a, s[i])
                       ELSE Over(Over(a, i, (i + j) \div 2), (i + j) \div 2 + 1, j)
  IN  Over(acc, 1, Len(s))

IsKind(n, k) == n[1] = k
IsIdent(n) == n[1] = "Ident"
IsCallOf(n, name) == n[1] = "Call" /\ n[2] = <<"Ident", name>>

-----------------------------------------------------------------------------
(* What the package declares.                                              *)

Names(p) == {p.funcs[i].name : i \in DOMAIN p.funcs}
Fn(p, name) == CHOOSE f \in ToSet(p.funcs) : f.name = name

GlobalIndexes(p, name) == {i \in DOMAIN p.globals : p.globals[i].name = name}
GlobalType(p, name) ==
  IF GlobalIndexes(p, name) = {} THEN None
  ELSE p.globals[CHOOSE i \in GlobalIndexes(p, name) : TRUE].type

\* The fields of a struct or of the struct a pointer is to.
StructFields(p, t) ==
  LET s == IF t[1] = "ptr" THEN t[2] ELSE t
  IN  IF s[1] = "struct" THEN p.structs[s[2]] ELSE <<>>

FieldIndexes(p, t, name) ==
  {i \in DOMAIN StructFields(p, t) : StructFields(p, t)[i][1] = name}
resolveFieldType(p, t, name) ==
  IF FieldIndexes(p, t, name) = {} THEN None
  ELSE StructFields(p, t)[CHOOSE i \in FieldIndexes(p, t, name) : TRUE][2]
resolveFieldOffset(p, t, name) ==
  IF FieldIndexes(p, t, name) = {} THEN 0
  ELSE ((CHOOSE i \in FieldIndexes(p, t, name) : TRUE) - 1) * W

IsMethod(f) == f.recv # None
\* collectMethodDecl gives types ids in the order their methods appear; 1 and
\* 2 are int and string.
typeIDs(p) ==
  Fold(LAMBDA ids, f : IF IsMethod(f) /\ f.recv[2] \notin ToSet(ids)
                           THEN Append(ids, f.recv[2]) ELSE ids, <<>>, p.funcs)
TypeID(p, t) ==
  IF t \in ToSet(typeIDs(p)) THEN 2 + CHOOSE i \in DOMAIN typeIDs(p) : typeIDs(p)[i] = t
  ELSE 0

MethodsNamed(p, m) == {f.name : f \in {g \in ToSet(p.funcs) : IsMethod(g) /\ g.meth = m}}
MethodOn(p, t, m) ==
  {f.name : f \in {g \in ToSet(p.funcs) : IsMethod(g) /\ g.meth = m /\ g.recv[2] = t}}
pointerMethodTypeName(t) == IF t[1] = "ptr" THEN t ELSE <<"ptr", t>>
\* A method is looked for on the type, then on the pointer to it.
LookupMethod(p, t, m) ==
  IF MethodOn(p, t, m) # {} THEN CHOOSE f \in MethodOn(p, t, m) : TRUE
  ELSE IF MethodOn(p, pointerMethodTypeName(t), m) # {}
  THEN CHOOSE f \in MethodOn(p, pointerMethodTypeName(t), m) : TRUE
  ELSE "?"

collectFuncRetTypes(p, name) == IF name \in Names(p) THEN Fn(p, name).rets ELSE <<>>
funcRets(p, name) ==
  IF name \in DOMAIN RuntimeRets THEN RuntimeRets[name]
  ELSE Len(collectFuncRetTypes(p, name))
ParamCount(f) == Len(f.params) + (IF IsMethod(f) THEN 1 ELSE 0)
IsVariadic(p, name) == name \in Names(p) /\ Fn(p, name).variadic
FixedCount(f) == ParamCount(f) - 1

typeElemSize(t) == IF t = <<"byte">> THEN 1 ELSE W
sliceElemSize(t) == IF t[1] = "slice" THEN typeElemSize(t[2]) ELSE W
mapKeyKind(k) == IF k = <<"string">> THEN 1 ELSE 0
typeWidth(t) == IF t = <<"byte">> THEN 1 ELSE 0

-----------------------------------------------------------------------------
(* Constants.  A group is a sequence of <<name, expression>>; one without  *)
(* an expression repeats the last.                                         *)

RECURSIVE evalConst(_, _, _)
evalConst(known, n, iota) ==
  CASE n = None -> iota
    [] n[1] = "Int" -> n[2]
    [] n[1] = "Basic" -> IF n[2] = "iota" THEN iota ELSE IF n[2] = "true" THEN 1 ELSE 0
    [] n[1] = "Ident" -> IF n[2] \in DOMAIN known THEN known[n[2]] ELSE 0
    [] n[1] = "Bin" ->
         LET l == evalConst(known, n[3], iota)
             r == evalConst(known, n[4], iota)
         IN  (CASE n[2] = "+" -> l + r [] n[2] = "-" -> l - r [] n[2] = "*" -> l * r
                [] n[2] = "<<" -> l * 2^r)
    [] n[1] = "Un" -> - evalConst(known, n[3], iota)
    [] n[1] = "Call" -> evalConst(known, n[3][1], iota)

\* The fold's state: what is known, the last expression, iota.
precomputeConsts(p) ==
  LET Member(s, m) ==
        LET e == IF m[2] # None THEN m[2] ELSE s.last
        IN  [known |-> Put(s.known, m[1], evalConst(s.known, e, s.iota)),
             last |-> e, iota |-> s.iota + 1]
      Group(known, g) == Fold(Member, [known |-> known, last |-> None, iota |-> 0], g).known
  IN  Fold(Group, <<>>, p.consts)

-----------------------------------------------------------------------------
(* The state of the compiler, c: p the package, fn the function, code,     *)
(* depth of the operand stack, scopes (innermost last, each from names to  *)
(* slots), widths of the slots, and per name: elem, the size of a slice's  *)
(* elements; str, strings; addr, made by &variable; conc, the type; maps   *)
(* and mval, the key kind and the values' type of a map; ifc, the          *)
(* interface.  These tables are not scoped: the last declaration of a name *)
(* in a function overwrites them.  Where the compiler panics (ICE) there   *)
(* is no code: a CASE below has no value.                                  *)

Num(n) == I1("CONST_I64", n)
CallOf(name, n) == Inst("CALL", n, name, 0)
LocalGet(i) == I1("LOCAL_GET", i)
LocalSet(i) == I1("LOCAL_SET", i)

instStackDelta(c, i) ==
  CASE i.op \in {"CONST_I64", "CONST_STR", "CONST_BOOL", "CONST_NIL", "LOCAL_GET", "LOCAL_ADDR",
                 "GLOBAL_GET", "GLOBAL_ADDR", "DUP"} -> 1
    [] i.op \in BinaryOps \cup {"LOCAL_SET", "GLOBAL_SET", "DROP", "JMP_IF", "JMP_IF_NOT",
                                "INDEX_ADDR", "PANIC"} -> -1
    [] i.op = "STORE" -> -2
    [] i.op = "CALL" -> funcRets(c.p, i.name) - i.arg
    [] i.op = "CALL_INTRINSIC" -> Len(c.fn.rets)
    [] i.op \in {"RETURN", "IFACE_CALL"} -> - i.arg
    [] OTHER -> 0

\* The instruction records the depth the compiler takes the stack to have.
emit(c, i) == [c EXCEPT !.code = Append(@, [i EXCEPT !.depth = c.depth]),
                        !.depth = @ + instStackDelta(c, i)]
Emits(c, is) == Fold(emit, c, is)
emitLabel(c, l) == emit(c, I1("LABEL", l))
AtDepth(c, d) == [c EXCEPT !.depth = d]

LastOp(c) == IF c.code = <<>> THEN "" ELSE Last(c.code).op
blockEndsWithReturn(c) == LastOp(c) \in {"RETURN", "PANIC"}

pushScope(c) == [c EXCEPT !.scopes = Append(@, <<>>)]
popScope(c) == [c EXCEPT !.scopes = Front(@)]
\* A new slot, even for a name the scope already has.  NextSlot is its number.
NextSlot(c) == Len(c.widths)
addLocal(c, name) ==
  [c EXCEPT !.scopes[Len(c.scopes)] = Put(@, name, NextSlot(c)), !.widths = Append(@, 0)]

ScopesWith(c, name) == {i \in DOMAIN c.scopes : name \in DOMAIN c.scopes[i]}
IsLocal(c, name) == ScopesWith(c, name) # {}
lookupLocal(c, name) ==
  c.scopes[CHOOSE i \in ScopesWith(c, name) : \A j \in ScopesWith(c, name) : j <= i][name]
SlotWidth(c, i) == c.widths[i + 1]

newLabels(c, n) == [c EXCEPT !.labelSeq = @ + n]

-----------------------------------------------------------------------------
(* What the compiler makes out of the types of expressions.                *)

TypeOfName(c, name) ==
  IF name \in DOMAIN c.conc THEN c.conc[name] ELSE GlobalType(c.p, name)

\* What a method is looked for on: the type of a variable, or of the field
\* x.f...g by its last name in the struct x is.
RECURSIVE Root(_)
Root(n) == IF n[1] = "Sel" THEN Root(n[2]) ELSE n
ReceiverType(c, x) ==
  IF IsIdent(x) THEN TypeOfName(c, x[2])
  ELSE IF x[1] = "Sel" /\ IsIdent(Root(x))
  THEN resolveFieldType(c.p, At(c.conc, Root(x)[2]), x[3])
  ELSE None

\* The function a call is taken to mean.
resolveCallName(c, f) ==
  IF f[1] = "Ident" THEN f[2]
  ELSE IF f[1] # "Sel" \/ f[2][1] \notin {"Ident", "Sel"} THEN "?"
  ELSE LET byType == LookupMethod(c.p, ReceiverType(c, f[2]), f[3])
           byName == MethodsNamed(c.p, f[3])
       IN  IF byType # "?" THEN byType
           ELSE IF Cardinality(byName) = 1 THEN CHOOSE m \in byName : TRUE
           ELSE "?"
RECURSIVE resolveExprType(_, _)
FirstRet(c, f) ==
  LET rets == collectFuncRetTypes(c.p, resolveCallName(c, f))
  IN  IF rets = <<>> THEN None ELSE rets[1]

resolveExprType(c, n) ==
  CASE n[1] = "Ident" -> At(c.conc, n[2])
    [] n[1] = "Index" ->
         LET t == resolveExprType(c, n[2])
         IN  IF t[1] = "slice" THEN t[2] ELSE IF t[1] = "map" THEN t[3] ELSE None
    [] n[1] = "Call" -> FirstRet(c, n[2])
    [] n[1] = "Sel" -> resolveFieldType(c.p, resolveExprType(c, n[2]), n[3])
    [] OTHER -> None

RECURSIVE exprConcreteType(_, _)
exprConcreteType(c, n) ==
  CASE n[1] = "Lit" -> n[2]
    [] n[1] = "Un" /\ n[2] = "&" ->
         IF n[3][1] = "Lit" THEN <<"ptr", n[3][2]>>
         ELSE IF IsIdent(n[3]) /\ n[3][2] \in DOMAIN c.conc THEN <<"ptr", c.conc[n[3][2]]>>
         ELSE <<"ptr", <<"int">>>>
    [] n[1] = "Call" ->
         IF IsCallOf(n, "append") THEN exprConcreteType(c, n[3][1]) ELSE FirstRet(c, n[2])
    [] n[1] = "Slice" -> exprConcreteType(c, n[2])
    [] n[1] \in {"Ident", "Index", "Sel"} -> resolveExprType(c, n)
    [] OTHER -> None

RECURSIVE isStringTypedExpr(_, _)
isStringTypedExpr(c, n) ==
  CASE n[1] = "Str" -> TRUE
    [] n[1] = "Ident" -> n[2] \in c.str \/ GlobalType(c.p, n[2]) = <<"string">>
    [] n[1] = "Bin" -> n[2] = "+" /\ (isStringTypedExpr(c, n[3]) \/ isStringTypedExpr(c, n[4]))
    [] n[1] = "Call" -> FirstRet(c, n[2]) = <<"string">> \/ IsCallOf(n, "string")
    [] n[1] = "Sel" -> resolveExprType(c, n) = <<"string">>
    [] n[1] = "Slice" -> isStringTypedExpr(c, n[2])
    [] n[1] = "Index" -> resolveExprType(c, n[2]) = <<"slice", <<"string">>>>
    [] OTHER -> FALSE

isExprByte(c, n) ==
  CASE n[1] = "Index" -> IsIdent(n[2]) /\ n[2][2] \in DOMAIN c.elem /\ c.elem[n[2][2]] = 1
    [] n[1] = "Ident" -> At(c.conc, n[2]) = <<"byte">>
    [] n[1] = "Call" -> FirstRet(c, n[2]) = <<"byte">>
    [] OTHER -> FALSE

RECURSIVE exprWidth(_, _)
exprWidth(c, n) ==
  CASE n[1] = "Ident" ->
         IF typeWidth(At(c.conc, n[2])) # 0 THEN typeWidth(At(c.conc, n[2]))
         ELSE IF IsLocal(c, n[2]) THEN SlotWidth(c, lookupLocal(c, n[2])) ELSE 0
    [] n[1] = "Call" -> IF IsCallOf(n, "byte") THEN 1 ELSE typeWidth(FirstRet(c, n[2]))
    [] n[1] = "Bin" ->
         IF exprWidth(c, n[3]) > exprWidth(c, n[4]) THEN exprWidth(c, n[3]) ELSE exprWidth(c, n[4])
    [] n[1] = "Un" -> exprWidth(c, n[3])
    [] OTHER -> 0

\* A package-level slice comes before a local of its name that is no slice.
exprElemSize(c, n) ==
  CASE n[1] = "Ident" ->
         IF n[2] \in DOMAIN c.elem THEN c.elem[n[2]]
         ELSE IF GlobalType(c.p, n[2])[1] = "slice" THEN sliceElemSize(GlobalType(c.p, n[2]))
         ELSE IF At(c.conc, n[2])[1] = "slice" THEN sliceElemSize(c.conc[n[2]])
         ELSE 1
    [] n[1] = "Call" -> IF FirstRet(c, n[2])[1] = "slice" THEN sliceElemSize(FirstRet(c, n[2])) ELSE 1
    [] n[1] = "Index" ->
         LET t == exprConcreteType(c, n[2])
         IN  IF t[1] = "slice" /\ t[2][1] = "slice" THEN sliceElemSize(t[2]) ELSE 1
    [] n[1] = "Sel" ->
         LET t == resolveExprType(c, n)
         IN  IF t[1] = "slice" THEN sliceElemSize(t) ELSE IF t = <<"string">> THEN 1 ELSE W
    [] OTHER -> 1

isMapExpr(c, n) ==
  CASE n[1] = "Ident" -> n[2] \in DOMAIN c.maps \/ GlobalType(c.p, n[2])[1] = "map"
    [] n[1] = "Sel" -> resolveExprType(c, n)[1] = "map"
    [] n[1] = "Index" ->
         LET t == resolveExprType(c, n[2]) IN t[1] = "slice" /\ t[2][1] = "map"
    [] OTHER -> FALSE

mapExprKeyKind(c, n) ==
  IF IsIdent(n) /\ n[2] \in DOMAIN c.maps THEN c.maps[n[2]]
  ELSE LET t == IF IsIdent(n) THEN GlobalType(c.p, n[2]) ELSE resolveExprType(c, n)
       IN  IF t[1] = "map" THEN mapKeyKind(t[2]) ELSE -1

resolveMapValueType(c, n) ==
  CASE n[1] = "Ident" -> At(c.mval, n[2])
    [] n[1] = "Sel" -> LET t == resolveExprType(c, n) IN IF t[1] = "map" THEN t[3] ELSE None
    [] OTHER -> None

PtrToStruct(t) == t[1] = "ptr" /\ t[2][1] = "struct"
needsSelectorDeref(c, n) ==
  IsIdent(n) /\ n[2] \in c.addr /\ PtrToStruct(At(c.conc, n[2]))
\* A struct is its address, so following a pointer to one is no load.
isPointerToStructDeref(c, n) ==
  IsIdent(n) /\ (n[2] \notin DOMAIN c.conc \/ PtrToStruct(c.conc[n[2]]))

\* The type id a boxed expression carries: that of &T{...} or of a conversion.
resolveConcreteTypeID(c, n) ==
  IF n[1] = "Un" /\ n[2] = "&" /\ n[3][1] = "Lit" THEN TypeID(c.p, <<"ptr", n[3][2]>>)
  ELSE IF n[1] = "Call" /\ IsIdent(n[2]) /\ n[2][2] \in c.p.named
  THEN TypeID(c.p, <<"named", n[2][2]>>)
  ELSE 0

exprPrimitiveTypeID(c, n) ==
  CASE n[1] = "Int" -> 1
    [] n[1] = "Str" -> 2
    [] n[1] = "Ident" ->
         IF n[2] \in c.str THEN 2
         ELSE IF n[2] \in DOMAIN c.elem \/ n[2] \in DOMAIN c.ifc THEN 0
         ELSE IF GlobalType(c.p, n[2]) = <<"string">> THEN 2 ELSE 1
    [] n[1] = "Bin" -> IF isStringTypedExpr(c, n) THEN 2 ELSE 1
    [] n[1] = "Call" ->
         IF IsCallOf(n, "string") \/ FirstRet(c, n[2]) = <<"string">> THEN 2
         ELSE IF FirstRet(c, n[2])[1] \in {"any", "iface"} THEN 0
         ELSE IF resolveConcreteTypeID(c, n) > 0 THEN resolveConcreteTypeID(c, n) ELSE 1
    [] n[1] = "Un" ->
         IF n[2] = "&" THEN resolveConcreteTypeID(c, n)
         ELSE IF n[2] = "*" /\ IsIdent(n[3]) /\ At(c.conc, n[3][2]) = <<"ptr", <<"string">>>> THEN 2
         ELSE 1
    [] n[1] = "Sel" -> IF isStringTypedExpr(c, n) THEN 2 ELSE 1
    [] n[1] = "Index" ->
         LET t == IF IsIdent(n[2]) /\ n[2][2] \notin c.str \cup DOMAIN c.elem
                  THEN At(c.conc, n[2][2]) ELSE None
         IN  IF t[1] # "slice" \/ t[2] \in {<<"int">>, <<"byte">>} THEN 1
             ELSE IF t[2] = <<"string">> THEN 2 ELSE 0
    [] n[1] = "Slice" -> IF isStringTypedExpr(c, n[2]) THEN 2 ELSE 0
    [] OTHER -> 0

\* A returned value is boxed where the result is an interface, unless it is
\* nil or the result of a call that already boxed it.
maybeBoxInterface(c, n, t, i) ==
  LET rets == collectFuncRetTypes(c.p, resolveCallName(c, n[2]))
      boxed == n[1] = "Call" /\ i <= Len(rets) /\ rets[i][1] = "iface"
  IN  IF t[1] = "iface" /\ n # <<"Basic", "nil">> /\ ~boxed /\ resolveConcreteTypeID(c, n) > 0
      THEN emit(c, I1("IFACE_BOX", resolveConcreteTypeID(c, n)))
      ELSE c

\* The tables learn that name has type t; what they knew of another variable
\* of that name stays where nothing overwrites it.
TrackConcrete(c, name, t) == [c EXCEPT !.conc = Put(@, name, t)]
TrackSlice(c, name, t) ==
  IF t[1] = "slice" THEN [c EXCEPT !.elem = Put(@, name, sliceElemSize(t))] ELSE c
TrackString(c, name, isString) == IF isString THEN [c EXCEPT !.str = @ \cup {name}] ELSE c
TrackMap(c, name, t) ==
  IF t[1] = "map" THEN [c EXCEPT !.maps = Put(@, name, mapKeyKind(t[2])), !.mval = Put(@, name, t[3])]
  ELSE c
TrackIface(c, name, t) ==
  IF t[1] = "iface" THEN [c EXCEPT !.ifc = Put(@, name, t)] ELSE c
TrackAll(c, name, t) ==
  TrackIface(TrackMap(TrackString(TrackSlice(TrackConcrete(c, name, t), name, t),
                                  name, t = <<"string">>), name, t), name, t)

-----------------------------------------------------------------------------
(* Expressions.  Each leaves one value on the operand stack, a call as many *)
(* as the function has results.                                            *)

RECURSIVE compileExpr(_, _)
compileExprs(c, ns) == Fold(compileExpr, c, ns)

\* A name is a local, a global or a constant of the package.
compileIdent(c, name) ==
  IF IsLocal(c, name)
  THEN LET i == lookupLocal(c, name) IN emit(c, Inst("LOCAL_GET", i, "", SlotWidth(c, i)))
  ELSE IF GlobalIndexes(c.p, name) # {}
  THEN emit(c, I1("GLOBAL_GET", CHOOSE i \in GlobalIndexes(c.p, name) : TRUE))
  ELSE emit(c, Num(precomputeConsts(c.p)[name]))

\* Mutant of ShortCircuit: the depth is not set back where the branches join.
ShortCircuitDepthKept(c0, x, y, jump, decided) ==
  LET skip == c0.labelSeq
      end == c0.labelSeq + 1
      c1 == emit(compileExpr(newLabels(c0, 2), x), I1(jump, skip))
      c2 == emit(compileExpr(c1, y), I1("JMP", end))
  IN  emitLabel(emit(emitLabel(c2, skip), I1("CONST_BOOL", decided)), end)

\* && and ||: the right operand is skipped when the left one decides; either
\* way one value is left.
ShortCircuit(c0, x, y, jump, decided) ==
  LET skip == c0.labelSeq
      end == c0.labelSeq + 1
      c1 == emit(compileExpr(newLabels(c0, 2), x), I1(jump, skip))
      c2 == emit(compileExpr(c1, y), I1("JMP", end))
  IN  emitLabel(emit(emitLabel(AtDepth(c2, c1.depth), skip), I1("CONST_BOOL", decided)), end)

RECURSIVE isStringExpr(_)
isStringExpr(n) ==
  n[1] = "Str" \/ (n[1] = "Bin" /\ n[2] = "+" /\ (isStringExpr(n[3]) \/ isStringExpr(n[4])))
IsString(c, n) == isStringExpr(n) \/ isStringTypedExpr(c, n)

compileBinaryExpr(c, op, x, y) ==
  LET both == compileExprs(c, <<x, y>>)
      isStr == IsString(c, x) \/ IsString(c, y)
  IN  CASE op = "&&" -> ShortCircuit(c, x, y, "JMP_IF_NOT", 0)
        [] op = "||" -> ShortCircuit(c, x, y, "JMP_IF", 1)
        [] isStr /\ op = "+" -> emit(both, CallOf("runtime.StringConcat", 2))
        [] isStr /\ op = "==" -> emit(both, CallOf("runtime.StringEqual", 2))
        [] isStr /\ op = "!=" -> Emits(both, <<CallOf("runtime.StringEqual", 2), I0("NOT")>>)
        [] OTHER -> emit(both, Inst(ArithOf[op], 0, "", exprWidth(c, <<"Bin", op, x, y>>)))

compileAddrOf(c, n) ==
  IF ~IsIdent(n) THEN compileExpr(c, n)
  ELSE IF IsLocal(c, n[2]) THEN emit(c, I1("LOCAL_ADDR", lookupLocal(c, n[2])))
  ELSE emit(c, I1("GLOBAL_ADDR", CHOOSE i \in GlobalIndexes(c.p, n[2]) : TRUE))

compileUnaryExpr(c, op, x) ==
  CASE op = "!" -> emit(compileExpr(c, x), I0("NOT"))
    [] op = "-" -> emit(compileExpr(c, x), Inst("NEG", 0, "", exprWidth(c, x)))
    [] op = "*" -> IF isPointerToStructDeref(c, x) THEN compileExpr(c, x)
                   ELSE emit(compileExpr(c, x), I1("LOAD", W))
    [] op = "&" -> compileAddrOf(c, x)

\* The address of a field: the struct, then its offset.
FieldAddr(c, x, field) ==
  LET base == compileExpr(c, x)
      struct == IF needsSelectorDeref(c, x) THEN emit(base, I1("LOAD", W)) ELSE base
  IN  emit(struct, I1("OFFSET", resolveFieldOffset(c.p, resolveExprType(c, x), field)))
compileSelectorExpr(c, x, field) == emit(FieldAddr(c, x, field), I1("LOAD", W))

ElemAddr(c, x, i) == emit(compileExprs(c, <<x, i>>), I1("INDEX_ADDR", exprElemSize(c, x)))
\* MapGet leaves the value and whether it was there; the latter is dropped.
compileIndexExpr(c, x, i) ==
  IF isMapExpr(c, x)
  THEN Emits(compileExprs(c, <<x, i>>), <<CallOf("runtime.MapGet", 2), I0("DROP")>>)
  ELSE emit(ElemAddr(c, x, i), I1("LOAD", exprElemSize(c, x)))

\* Without a high bound the target is compiled again for its length.
compileSliceExpr(c, x, low, high) ==
  LET c1 == compileExprs(c, <<x, low>>)
      c2 == IF high # None THEN compileExpr(c1, high) ELSE emit(compileExpr(c1, x), I0("LEN"))
  IN  emit(c2, CallOf(IF isStringTypedExpr(c, x) THEN "runtime.StringSlice"
                      ELSE "runtime.SliceReslice", 3))

compileMapLit(c, t, elems) ==
  LET SetOne(c1, e) == Emits(compileExprs(emit(c1, I0("DUP")), <<e[2], e[3]>>),
                             <<CallOf("runtime.MapSet", 3), I0("DROP")>>)
  IN  Fold(SetOne, Emits(c, <<Num(mapKeyKind(t[2])), CallOf("runtime.MapMake", 1)>>), elems)
compileSliceLit(c, t, elems) ==
  LET Add(c1, e) == Emits(compileExpr(c1, e),
                          <<Num(sliceElemSize(t)), CallOf("runtime.SliceAppend", 3)>>)
  IN  IF elems = <<>>
      THEN Emits(c, <<Num(0), Num(sliceElemSize(t)), CallOf("runtime.SliceMake", 2)>>)
      ELSE Fold(Add, emit(c, Num(0)), elems)
\* Named fields are put in the order of the declaration, the others are 0.
compileStructLit(c, t, elems) ==
  LET fields == StructFields(c.p, t)
      named == \E i \in DOMAIN elems : elems[i][1] = "KV"
      GivenAt(f) == {i \in DOMAIN elems : elems[i][2][2] = f[1]}
      Field(c1, f) == IF GivenAt(f) = {} THEN emit(c1, Num(0))
                      ELSE compileExpr(c1, elems[CHOOSE i \in GivenAt(f) : TRUE][3])
      values == IF named \/ elems = <<>>
                THEN Fold(Field, c, fields) ELSE compileExprs(c, elems)
      n == IF named \/ elems = <<>> THEN Len(fields) ELSE Len(elems)
  IN  emit(values, CallOf("builtin.composite", n))
compileCompositeLit(c, t, elems) ==
  CASE t[1] = "map" -> compileMapLit(c, t, elems)
    [] t[1] = "slice" -> compileSliceLit(c, t, elems)
    [] OTHER -> compileStructLit(c, t, elems)

-----------------------------------------------------------------------------
(* Calls                                                                   *)

\* A header and the elements behind it, filled in by hand.  Every argument is
\* compiled when its element is stored.
packVariadicSlice(c, args, elemSz, isIface) ==
  LET n == Len(args)
      hdr == 4 * W
      tmp == NextSlot(c)
      c1 == addLocal(Emits(c, <<Num(hdr + n * elemSz), CallOf("runtime.Alloc", 1)>>), "$varslice")
      HeaderWord(k, v) == <<Num(v), LocalGet(tmp), Num(k * W), I0("ADD"), I0("STORE")>>
      c2 == Emits(c1, <<LocalSet(tmp), LocalGet(tmp), Num(hdr), I0("ADD"), LocalGet(tmp), I0("STORE")>>
                      \o HeaderWord(1, n) \o HeaderWord(2, n) \o HeaderWord(3, elemSz))
      Boxed(c3, arg) ==
        IF isIface /\ exprPrimitiveTypeID(c3, arg) > 0
        THEN emit(c3, I1("IFACE_BOX", exprPrimitiveTypeID(c3, arg))) ELSE c3
      Elem(c3, j) ==
        Emits(Boxed(compileExpr(c3, args[j]), args[j]),
              <<LocalGet(tmp), Num(hdr + (j - 1) * elemSz), I0("ADD"), I1("STORE", elemSz)>>)
  IN  IF n = 0 THEN emit(c, I0("CONST_NIL"))
      ELSE emit(Fold(Elem, c2, [j \in 1..n |-> j]), LocalGet(tmp))

\* Fixed arguments (of which a receiver, if any, is compiled already), then
\* the rest in a slice.
CallVariadic(c, name, args, given) ==
  LET f == Fn(c.p, name)
      fixed == FixedCount(f) - given
      t == f.params[Len(f.params)][2]
      c1 == compileExprs(c, SubSeq(args, 1, fixed))
      c2 == packVariadicSlice(c1, SubSeq(args, fixed + 1, Len(args)),
                              typeElemSize(t), t = <<"any">>)
  IN  emit(c2, CallOf(name, FixedCount(f) + 1))

\* Arguments that are missing are nil.
CallPlain(c, name, args) ==
  LET want == IF name \in Names(c.p) THEN ParamCount(Fn(c.p, name)) ELSE 0
      missing == IF want > Len(args) THEN want - Len(args) ELSE 0
  IN  emit(Emits(compileExprs(c, args), [i \in 1..missing |-> I0("CONST_NIL")]),
           CallOf(name, Len(args) + missing))

compileAppend(c, args, spread) ==
  LET size == IF IsIdent(args[1])
              THEN IF args[1][2] \in DOMAIN c.elem THEN c.elem[args[1][2]]
                   ELSE IF At(c.conc, args[1][2]) = <<"slice", <<"byte">>>> THEN 1 ELSE W
              ELSE exprElemSize(c, args[1])
      Add(c1, e) == Emits(compileExpr(c1, e), <<Num(size), CallOf("runtime.SliceAppend", 3)>>)
      c0 == compileExpr(c, args[1])
  IN  IF spread THEN emit(compileExpr(c0, args[2]), CallOf("runtime.SliceAppendSlice", 2))
      ELSE Fold(Add, c0, Tail(args))

compileMake(c, t, args) ==
  LET size == Num(sliceElemSize(t))
  IN  CASE t[1] = "map" -> Emits(c, <<Num(mapKeyKind(t[2])), CallOf("runtime.MapMake", 1)>>)
        [] Len(args) = 2 -> Emits(compileExprs(c, args), <<size, CallOf("runtime.SliceMakeCap", 3)>>)
        [] OTHER -> Emits(compileExprs(c, args), <<size, CallOf("runtime.SliceMake", 2)>>)

Builtins == {"len", "cap", "append", "copy", "delete", "make", "panic", "int", "byte", "string"}
compileBuiltin(c, name, args, spread) ==
  CASE name = "len" -> emit(compileExpr(c, args[1]),
                            IF isMapExpr(c, args[1]) THEN CallOf("runtime.MapLen", 1) ELSE I0("LEN"))
    [] name = "cap" -> emit(compileExpr(c, args[1]), I0("CAP"))
    [] name = "append" -> compileAppend(c, args, spread)
    [] name = "copy" -> emit(compileExprs(c, args), CallOf("runtime.SliceCopy", 2))
    [] name = "delete" -> emit(compileExprs(c, args), CallOf("runtime.MapDelete", 2))
    [] name = "make" -> compileMake(c, args[1][2], Tail(args))
    [] name = "panic" -> emit(compileExpr(c, args[1]), I0("PANIC"))
    [] name = "string" /\ isExprByte(c, args[1]) ->
         emit(compileExpr(c, args[1]), CallOf("runtime.ByteToString", 1))
    [] OTHER -> emit(compileExpr(c, args[1]), Inst("CONVERT", 0, name, 0))

\* A variable known to hold an interface is called through it.
compileMethodCall(c, x, m, args, spread) ==
  LET iface == IF IsIdent(x) THEN At(c.ifc, x[2]) ELSE None
      name == LookupMethod(c.p, ReceiverType(c, x), m)
      recv == compileExpr(c, x)
  IN  CASE iface # None /\ m \in c.p.ifaces[iface[2]] ->
             emit(compileExprs(recv, args), Inst("IFACE_CALL", Len(args), m, 0))
        [] name = "?" -> CallPlain(c, resolveCallName(c, <<"Sel", x, m>>), args)
        [] IsVariadic(c.p, name) /\ IsIdent(x) /\ ~spread -> CallVariadic(recv, name, args, 1)
        [] OTHER -> emit(compileExprs(recv, args), CallOf(name, Len(args) + 1))

compileCallExpr(c, f, args, spread) ==
  CASE IsIdent(f) /\ f[2] \in Builtins -> compileBuiltin(c, f[2], args, spread)
    [] IsIdent(f) /\ f[2] \in c.p.named ->
         emit(compileExprs(c, args), Inst("CONVERT", 0, f[2], 0))
    [] f[1] = "Sel" -> compileMethodCall(c, f[2], f[3], args, spread)
    [] OTHER ->
         LET name == resolveCallName(c, f)
         IN  IF IsVariadic(c.p, name) /\ ~spread THEN CallVariadic(c, name, args, 0)
             ELSE CallPlain(c, name, args)

compileExpr(c, n) ==
  CASE n[1] = "Int" -> emit(c, Num(n[2]))
    [] n[1] = "Str" -> emit(c, [I0("CONST_STR") EXCEPT !.name = n[2]])
    [] n[1] = "Basic" ->
         emit(c, IF n[2] = "nil" THEN I0("CONST_NIL")
                 ELSE I1("CONST_BOOL", IF n[2] = "true" THEN 1 ELSE 0))
    [] n[1] = "Ident" -> compileIdent(c, n[2])
    [] n[1] = "Bin" -> compileBinaryExpr(c, n[2], n[3], n[4])
    [] n[1] = "Un" -> compileUnaryExpr(c, n[2], n[3])
    [] n[1] = "Call" -> compileCallExpr(c, n[2], n[3], n[4])
    [] n[1] = "Sel" -> compileSelectorExpr(c, n[2], n[3])
    [] n[1] = "Index" -> compileIndexExpr(c, n[2], n[3])
    [] n[1] = "Slice" -> compileSliceExpr(c, n[2], n[3], n[4])
    [] n[1] = "Lit" -> compileCompositeLit(c, n[2], n[3])

-----------------------------------------------------------------------------
(* Statements: <<"Var", name, type, x>>, <<"Assign", op, left, right>>,     *)
(* <<"Return", xs>>, <<"If", init, cond, then, else>>,                     *)
(* <<"For", init, cond, post, body>>, <<"Range", key, value, x, body>>,    *)
(* <<"Switch", tag, cases>> with cases [default, vals, body],              *)
(* <<"Expr", x>>, <<"Inc", x>>, <<"Branch", kind>>, <<"Defer", call>>,     *)
(* <<"Block", stmts>>.  What is absent is None.                            *)

RECURSIVE compileStmt(_, _)
compileBlock(c, stmts) == popScope(Fold(compileStmt, pushScope(c), stmts))

\* Takes the value on the stack; the operands of the target come after it.
compileLValueSet(c, n) ==
  CASE n[1] = "Ident" ->
         IF n[2] = "_" THEN emit(c, I0("DROP"))
         ELSE IF IsLocal(c, n[2])
         THEN LET i == lookupLocal(c, n[2]) IN emit(c, Inst("LOCAL_SET", i, "", SlotWidth(c, i)))
         ELSE IF GlobalIndexes(c.p, n[2]) # {}
         THEN emit(c, I1("GLOBAL_SET", CHOOSE i \in GlobalIndexes(c.p, n[2]) : TRUE))
         ELSE c
    [] n[1] = "Index" -> emit(ElemAddr(c, n[2], n[3]), I1("STORE", exprElemSize(c, n[2])))
    [] n[1] = "Sel" -> emit(FieldAddr(c, n[2], n[3]), I1("STORE", W))
    [] n[1] = "Un" -> emit(compileExpr(c, n[3]), I1("STORE", W))

\* What is read before it is written again: *p is not (ICE).
compileLValueGet(c, n) == CASE n[1] \in {"Ident", "Index", "Sel"} -> compileExpr(c, n)

\* Structs live on the heap; a zero one is allocated and cleared.
compileVarDecl(c0, name, t, x) ==
  LET slot == NextSlot(c0)
      c1 == addLocal(c0, name)
      c2 == IF t = None THEN c1 ELSE TrackAll([c1 EXCEPT !.widths[slot + 1] = typeWidth(t)], name, t)
      fields == Len(StructFields(c0.p, t))
      size == (IF fields = 0 THEN 1 ELSE fields) * W
  IN  IF x # None THEN emit(compileExpr(c2, x), Inst("LOCAL_SET", slot, "", SlotWidth(c2, slot)))
      ELSE IF t[1] = "struct"
      THEN Emits(c2, <<Num(size), CallOf("runtime.Alloc", 1), I0("DUP"), Num(size),
                       CallOf("runtime.Memzero", 2), LocalSet(slot)>>)
      ELSE Emits(c2, <<Num(0), LocalSet(slot)>>)

\* name := x.  The name is in scope before x is compiled.
DefineOne(c0, name, x) ==
  LET slot == NextSlot(c0)
      w == exprWidth(addLocal(c0, name), x)
      t == exprConcreteType(c0, x)
      Made == IF IsCallOf(x, "make") THEN x[3][1][2] ELSE None
      c1 == [addLocal(c0, name) EXCEPT !.widths[slot + 1] = w]
      c2 == TrackString(c1, name, isStringTypedExpr(c1, x))
      c3 == IF x[1] = "Un" /\ x[2] = "&" /\ IsIdent(x[3])
            THEN [c2 EXCEPT !.addr = @ \cup {name}] ELSE c2
      c4 == IF t = None THEN c3 ELSE TrackMap(TrackSlice(TrackConcrete(c3, name, t), name, t), name, t)
      c5 == TrackMap(TrackSlice(c4, name, Made), name, Made)
      c6 == IF Made[1] = "map" THEN TrackConcrete(c5, name, Made) ELSE c5
  IN  emit(compileExpr(c6, x), Inst("LOCAL_SET", slot, "", w))

\* The values are on the stack, the last on top: the targets are set from the
\* last to the first.
AssignBack(c, op, left) ==
  LET SetOne(n, c1) ==
        IF op = ":=" THEN emit(addLocal(c1, n[2]), LocalSet(NextSlot(c1)))
        ELSE compileLValueSet(c1, n)
  IN  FoldRight(SetOne, left, c)

AssignMany(c, op, left, right) ==
  LET x == right[1]
      rets == IF x[1] = "Call" THEN collectFuncRetTypes(c.p, resolveCallName(c, x[2])) ELSE <<>>
      Learn(c1, i) == IF i <= Len(rets) THEN TrackAll(c1, left[i][2], rets[i]) ELSE c1
      known == Fold(Learn, compileExpr(c, x), [i \in DOMAIN left |-> i])
      value == resolveMapValueType(c, IF x[1] = "Index" THEN x[2] ELSE x)
      got == AssignBack(emit(compileExprs(c, <<x[2], x[3]>>), CallOf("runtime.MapGet", 2)), op, left)
  IN  CASE Len(right) > 1 -> AssignBack(compileExprs(c, right), op, left)
        [] x[1] = "Index" /\ isMapExpr(c, x[2]) ->
             IF op = ":=" /\ value # None THEN TrackConcrete(got, left[1][2], value) ELSE got
        [] op = ":=" -> AssignBack(known, op, left)
        [] OTHER -> AssignBack(compileExpr(c, x), op, left)

OpOfAssign ==
  ("+=" :> "+") @@ ("-=" :> "-") @@ ("*=" :> "*") @@ ("/=" :> "/") @@ ("%=" :> "%") @@
  ("&=" :> "&") @@ ("|=" :> "|") @@ ("^=" :> "^") @@ ("<<=" :> "<<") @@ (">>=" :> ">>")
compileAssign(c, op, left, right) ==
  LET n == left[1]
      x == right[1]
  IN  CASE Len(left) > 1 -> AssignMany(c, op, left, right)
        [] op = ":=" -> DefineOne(c, n[2], x)
        [] op \in DOMAIN OpOfAssign ->
             compileLValueSet(emit(compileExpr(compileLValueGet(c, n), x),
                                   Inst(ArithOf[OpOfAssign[op]], 0, "", exprWidth(c, n))), n)
        [] n[1] = "Index" /\ isMapExpr(c, n[2]) ->
             Emits(compileExprs(c, <<n[2], n[3], x>>), <<CallOf("runtime.MapSet", 3), I0("DROP")>>)
        [] OTHER -> compileLValueSet(compileExpr(c, x), n)

compileInc(c, n) == compileLValueSet(Emits(compileLValueGet(c, n), <<Num(1), I0("ADD")>>), n)

\* The arguments of a deferred call are kept in slots of their own; every
\* return compiled after it makes the calls, the last first.
DeferCall(c, x) ==
  LET n == Len(x[3])
      start == IF n = 0 THEN 0 ELSE NextSlot(compileExpr(c, x[3][1]))
      Keep(c1, k) == LET c2 == compileExpr(c1, x[3][k])
                     IN  emit(addLocal(c2, "_defer"), LocalSet(NextSlot(c2)))
      kept == Fold(Keep, c, [k \in 1..n |-> k])
  IN  [kept EXCEPT !.defers = Append(@, [name |-> resolveCallName(c, x[2]),
                                         args |-> [k \in 1..n |-> start + k - 1]])]
\* (Mutant of it: the first is made first.)
emitDeferredCallsInOrder(c) ==
  FoldLeft(LAMBDA c1, d : emit(Emits(c1, [k \in DOMAIN d.args |-> LocalGet(d.args[k])]),
                               CallOf(d.name, Len(d.args))),
           c, c.defers)
emitDeferredCalls(c) ==
  FoldRight(LAMBDA d, c1 : emit(Emits(c1, [k \in DOMAIN d.args |-> LocalGet(d.args[k])]),
                                CallOf(d.name, Len(d.args))),
            c.defers, c)

compileReturn(c, xs) ==
  LET rets == c.fn.rets
      One(c1, i) == LET c2 == compileExpr(c1, xs[i])
                    IN  IF i <= Len(rets) THEN maybeBoxInterface(c2, xs[i], rets[i], i) ELSE c2
  IN  emit(emitDeferredCalls(Fold(One, c, [i \in DOMAIN xs |-> i])), I1("RETURN", Len(xs)))

\* The depth after the branches is that of one that does not return.
compileIf(c0, init, cond, then, else) ==
  LET elseLabel == c0.labelSeq
      end == c0.labelSeq + 1
      c1 == newLabels(c0, 2)
      c2 == IF init = None THEN c1 ELSE compileStmt(c1, init)
      c3 == emit(compileExpr(c2, cond), I1("JMP_IF_NOT", elseLabel))
      c4 == compileBlock(c3, then)
      c5 == emitLabel(AtDepth(emit(c4, I1("JMP", end)), c3.depth), elseLabel)
      c6 == IF else = None THEN c5 ELSE compileStmt(c5, else)
      depth == IF blockEndsWithReturn(c6) /\ ~blockEndsWithReturn(c4) THEN c4.depth ELSE c6.depth
  IN  emitLabel(AtDepth(c6, depth), end)

InLoop(c, breakTo, continueTo) ==
  [c EXCEPT !.breaks = Append(@, breakTo), !.continues = Append(@, continueTo)]
OutOfLoop(c) == [c EXCEPT !.breaks = Front(@), !.continues = Front(@)]

\* Mutant of compileFor: continue goes on behind the post statement.
compileForSkipsPost(c0, init, cond, post, body) ==
  LET loop == c0.labelSeq
      next == c0.labelSeq + 1
      end == c0.labelSeq + 2
      c1 == InLoop(newLabels(c0, 3), end, next)
      c2 == IF init = None THEN c1 ELSE compileStmt(pushScope(c1), init)
      c3 == emitLabel(c2, loop)
      c4 == IF cond = None THEN c3 ELSE emit(compileExpr(c3, cond), I1("JMP_IF_NOT", end))
      c5 == compileBlock(c4, body)
      c6 == IF init = None \/ post = None THEN c5 ELSE compileStmt(c5, post)
      c7 == emitLabel(emit(emitLabel(c6, next), I1("JMP", loop)), end)
  IN  AtDepth(OutOfLoop(IF init = None THEN c7 ELSE popScope(c7)), c0.depth)

\* labelSeq + 0, 1, 2: the loop, continue, break.  Only a loop with an
\* initial statement has a post statement and a scope.
compileFor(c0, init, cond, post, body) ==
  LET loop == c0.labelSeq
      next == c0.labelSeq + 1
      end == c0.labelSeq + 2
      c1 == InLoop(newLabels(c0, 3), end, next)
      c2 == IF init = None THEN c1 ELSE compileStmt(pushScope(c1), init)
      c3 == emitLabel(c2, loop)
      c4 == IF cond = None THEN c3 ELSE emit(compileExpr(c3, cond), I1("JMP_IF_NOT", end))
      c5 == emitLabel(compileBlock(c4, body), next)
      c6 == IF init = None \/ post = None THEN c5 ELSE compileStmt(c5, post)
      c7 == emitLabel(emit(c6, I1("JMP", loop)), end)
  IN  AtDepth(OutOfLoop(IF init = None THEN c7 ELSE popScope(c7)), c0.depth)

\* The type of the elements of what is ranged over, where it is known.
RangeElemType(c, x) ==
  LET t == CASE IsIdent(x) -> TypeOfName(c, x[2])
             [] x[1] \in {"Sel", "Call"} -> resolveExprType(c, x)
             [] OTHER -> None
  IN  IF t[1] = "slice" THEN t[2] ELSE None

compileForRange(c0, key, value, x, body) ==
  LET loop == c0.labelSeq
      next == c0.labelSeq + 1
      end == c0.labelSeq + 2
      isMap == isMapExpr(c0, x)
      c1 == compileExpr(pushScope(InLoop(newLabels(c0, 3), end, next)), x)
      iter == NextSlot(c1)
      idx == iter + 1
      c2 == addLocal(addLocal(c1, "$iter"), "$idx")
      c3 == Emits(c2, <<LocalSet(iter), Num(0), LocalSet(idx), I1("LABEL", loop),
                        LocalGet(idx), LocalGet(iter),
                        IF isMap THEN CallOf("runtime.MapLen", 1) ELSE I0("LEN"),
                        I0("LT"), I1("JMP_IF_NOT", end)>>)
      Entry(part) == <<LocalGet(iter), LocalGet(idx), CallOf(part, 2)>>
      size == exprElemSize(c0, x)
      c4 == IF key = "" THEN c3
            ELSE LET k == NextSlot(c3)
                     bound == Emits(addLocal(c3, key),
                                    (IF isMap THEN Entry("runtime.MapEntryKey") ELSE <<LocalGet(idx)>>)
                                    \o <<LocalSet(k)>>)
                 IN  TrackString(bound, key, isMap /\ mapExprKeyKind(c3, x) = 1)
      elem == IF isMap THEN resolveMapValueType(c4, x) ELSE RangeElemType(c4, x)
      c5 == IF value = "" THEN c4
            ELSE LET v == NextSlot(c4)
                     bound == Emits(addLocal(c4, value),
                                    (IF isMap THEN Entry("runtime.MapEntryValue")
                                     ELSE <<LocalGet(iter), LocalGet(idx), I1("INDEX_ADDR", size),
                                            I1("LOAD", size)>>)
                                    \o <<LocalSet(v)>>)
                 IN  IF elem = None THEN bound
                     ELSE TrackString(TrackConcrete(bound, value, elem), value, elem = <<"string">>)
      c6 == emitLabel(compileBlock(c5, body), next)
      c7 == Emits(c6, <<LocalGet(idx), Num(1), I0("ADD"), LocalSet(idx), I1("JMP", loop),
                        I1("LABEL", end)>>)
  IN  AtDepth(OutOfLoop(popScope(c7)), c0.depth)

\* The tag stays on the stack until a body or the end drops it.  A default is
\* compiled where it stands.
compileSwitch(c0, tag, cases) ==
  LET end == c0.labelSeq
      hasTag == tag # None
      c1 == newLabels(c0, 1)
      c2 == IF hasTag THEN compileExpr(c1, tag) ELSE c1
      valued == SelectSeq(cases, LAMBDA s : ~s.default)
      isStr == hasTag /\ (IsString(c2, tag) \/ (valued # <<>> /\ IsString(c2, valued[1].vals[1])))
      drop == IF hasTag THEN <<I0("DROP")>> ELSE <<>>
      Body(c3, s, l) ==
        AtDepth(emit(compileBlock(Emits(c3, <<I1("LABEL", l)>> \o drop), s.body), I1("JMP", end)),
                c2.depth)
      Case(c3, s) ==
        LET body == c3.labelSeq
            Test(c4, x) ==
              IF hasTag
              THEN Emits(compileExpr(emit(c4, I0("DUP")), x),
                         <<IF isStr THEN CallOf("runtime.StringEqual", 2) ELSE I0("EQ"),
                           I1("JMP_IF", body)>>)
              ELSE emit(compileExpr(c4, x), I1("JMP_IF", body))
            tested == emit(Fold(Test, newLabels(c3, 2), s.vals), I1("JMP", body + 1))
        IN  IF s.default THEN Body(newLabels(c3, 2), s, body)
            ELSE emitLabel(Body(AtDepth(tested, c2.depth), s, body), body + 1)
  IN  AtDepth(emitLabel(Emits(Fold(Case, c2, cases), drop), end), c0.depth)

\* A break leaves the innermost loop, also from within a switch.
compileBranch(c, kind) ==
  IF c.breaks = <<>> THEN c
  ELSE emit(c, I1("JMP", IF kind = "break" THEN Last(c.breaks) ELSE Last(c.continues)))

\* Mutant of exprReturnCount: every function is taken to have one result.
exprReturnCountOne(c, n) == IF IsCallOf(n, "delete") THEN 0 ELSE 1

\* The results a call statement drops.
exprReturnCount(c, n) ==
  LET name == resolveCallName(c, n[2])
  IN  IF n[1] # "Call" THEN 1
      ELSE IF IsCallOf(n, "delete") THEN 0
      ELSE IF name \in Names(c.p) THEN funcRets(c.p, name) ELSE 1

compileStmt(c, n) ==
  CASE n[1] = "Var" -> compileVarDecl(c, n[2], n[3], n[4])
    [] n[1] = "Assign" -> compileAssign(c, n[2], n[3], n[4])
    [] n[1] = "Return" -> compileReturn(c, n[2])
    [] n[1] = "If" -> compileIf(c, n[2], n[3], n[4], n[5])
    [] n[1] = "For" -> compileFor(c, n[2], n[3], n[4], n[5])
    [] n[1] = "Range" -> compileForRange(c, n[2], n[3], n[4], n[5])
    [] n[1] = "Switch" -> compileSwitch(c, n[2], n[3])
    [] n[1] = "Expr" ->
         Emits(compileExpr(c, n[2]), [i \in 1..exprReturnCount(c, n[2]) |-> I0("DROP")])
    [] n[1] = "Inc" -> compileInc(c, n[2])
    [] n[1] = "Branch" -> compileBranch(c, n[2])
    [] n[1] = "Defer" -> DeferCall(c, n[2])
    [] n[1] = "Block" -> compileBlock(c, n[2])

-----------------------------------------------------------------------------
(* Functions                                                               *)

NewFunc(c, f) ==
  [c EXCEPT !.fn = f, !.code = <<>>, !.depth = 0, !.scopes = << <<>> >>, !.widths = <<>>,
            !.elem = <<>>, !.str = {}, !.addr = {}, !.conc = <<>>, !.maps = <<>>, !.mval = <<>>,
            !.ifc = <<>>, !.defers = <<>>]

\* A parameter; the last of a variadic function is a slice of its type.
Param(c, f, i) ==
  LET name == f.params[i][1]
      t == f.params[i][2]
      slot == NextSlot(c)
      c1 == [addLocal(c, name) EXCEPT !.widths[slot + 1] = typeWidth(t)]
      c2 == TrackAll(c1, name, t)
  IN  IF f.variadic /\ i = Len(f.params)
      THEN [c2 EXCEPT !.elem = Put(@, name, typeElemSize(t))] ELSE c2

\* Falling off the end returns nothing, named results included.
compileFunc(c0, f) ==
  LET c1 == NewFunc(c0, f)
      c2 == IF IsMethod(f) THEN TrackConcrete(addLocal(c1, f.recv[1]), f.recv[1], f.recv[2]) ELSE c1
      c3 == Fold(LAMBDA c, i : Param(c, f, i), c2, [i \in DOMAIN f.params |-> i])
      c4 == compileBlock(Fold(addLocal, c3, f.named), f.body)
  IN  IF LastOp(c4) = "RETURN" THEN c4 ELSE emit(emitDeferredCalls(c4), I1("RETURN", 0))

compileIntrinsicFunc(c, f) ==
  Emits(NewFunc(c, f),
        <<Inst("CALL_INTRINSIC", ParamCount(f), f.intrinsic, 0), I1("RETURN", Len(f.rets))>>)

\* The initial values of the globals, in their order.
compileGlobalInits(c, p) ==
  LET Init1(c1, i) == IF p.globals[i].init = None THEN c1
                      ELSE emit(compileExpr(c1, p.globals[i].init), I1("GLOBAL_SET", i))
      c2 == NewFunc(c, [rets |-> <<>>, params |-> <<>>, recv |-> None])
  IN  emit(Fold(Init1, c2, [i \in DOMAIN p.globals |-> i]), I1("RETURN", 0))

Compiled(c) == [code |-> c.code, params |-> ParamCount(c.fn), slots |-> Len(c.widths),
                rets |-> Len(c.fn.rets)]
compilePackage(p) ==
  LET c0 == [p |-> p, fn |-> None, code |-> <<>>, depth |-> 0, scopes |-> <<>>, widths |-> <<>>,
             labelSeq |-> 0, breaks |-> <<>>, continues |-> <<>>, elem |-> <<>>, str |-> {},
             addr |-> {}, conc |-> <<>>, maps |-> <<>>, mval |-> <<>>, ifc |-> <<>>, defers |-> <<>>]
      c1 == compileGlobalInits(c0, p)
      One(s, f) == LET c == IF f.intrinsic = "" THEN compileFunc(s.c, f)
                            ELSE compileIntrinsicFunc(s.c, f)
                   IN  [c |-> c, funcs |-> Put(s.funcs, f.name, Compiled(c))]
  IN  Fold(One, [c |-> c1, funcs |-> ("init$globals" :> Compiled(c1))], p.funcs).funcs

=============================================================================
