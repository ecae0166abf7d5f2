------------------------------- MODULE Parser -------------------------------
(***************************************************************************)
(* The scanner and the parser of the compiler (std/compiler/parser.go):    *)
(* newlines become semicolons, characters become tokens, and a recursive   *)
(* descent over the tokens yields the syntax tree.                         *)
(*                                                                         *)
(* A text is a sequence of <<class, value>>: <<"char", c>> for an operator *)
(* or punctuation character, <<"space">>, <<"newline">>, <<"word", w>>,    *)
(* <<"INT", n>>, <<"STRING", chars>>, <<"RUNE", n>> for a name or literal, *)
(* which is one piece here, and <<"comment", d>>, d the words of the       *)
(* directive the comment holds.  A token is <<kind, value>>; the kind of a *)
(* keyword or operator is its text.                                        *)
(*                                                                         *)
(* The parser s: the tokens ts, the next one i, noCompLit while the header *)
(* of a statement is read, errors reported, and n, what was read last: a   *)
(* parse function takes a parser and returns the one after it.             *)
(***************************************************************************)
EXTENDS Integers, Sequences, FiniteSets, TLC

-----------------------------------------------------------------------------
(* The scanner.                                                            *)

keywords == {"package", "import", "func", "type", "struct", "interface", "var",
  "const", "if", "else", "for", "range", "switch", "case", "default", "return",
  "break", "continue", "map", "nil", "true", "false", "defer", "iota", "chan",
  "go", "select"}

\* Operators and punctuation, of one, two and three characters.
Operators == {"+", "-", "*", "/", "%", "=", "!", "<", ">", "&", "|", "^", "(", ")",
  "{", "}", "[", "]", ",", ".", ":", ";", "++", "+=", "-=", "*=", "/=", "%=", "==",
  "!=", "<=", "<<", ">=", ">>", "&&", "&=", "||", "|=", "^=", ":=", "<<=", ">>=", "..."}

\* A newline after such a token ends the statement.
needsSemicolon(kind) ==
  kind \in {"IDENT", "INT", "STRING", "RUNE", ")", "]", "}", "++", "break", "continue",
            "return", "true", "false", "nil", "iota"}

Class(text, i) == IF i > Len(text) THEN "end" ELSE text[i][1]
peekAt(text, i) == IF Class(text, i) = "char" THEN text[i][2] ELSE ""

\* Where the next token begins, whether a line ended before it, and the last
\* directive that stood there.
RECURSIVE skipWhitespaceAndComments(_, _)
skipWhitespaceAndComments(text, from) ==
  LET Next(line, dir) == skipWhitespaceAndComments(text,
        [i |-> from.i + 1, line |-> line, dir |-> dir])
      c == Class(text, from.i)
  IN  CASE c = "newline" -> Next(TRUE, from.dir)
        [] c = "space" -> Next(from.line, from.dir)
        [] c = "comment" ->
             Next(TRUE, IF text[from.i][2] = <<>> THEN from.dir ELSE text[from.i][2])
        [] OTHER -> from

\* The longest operator that starts here, and its length.  A character that
\* starts none becomes an EOF token.
scanOperator(text, i) ==
  LET two == peekAt(text, i) \o peekAt(text, i + 1)
      three == two \o peekAt(text, i + 2)
  IN  IF three \in Operators /\ peekAt(text, i + 2) # "" THEN <<three, 3>>
      ELSE IF two \in Operators /\ peekAt(text, i + 1) # "" THEN <<two, 2>>
      ELSE <<IF peekAt(text, i) \in Operators THEN peekAt(text, i) ELSE "EOF", 1>>

scanIdent(w) == <<IF w \in keywords THEN w ELSE "IDENT", w>>

\* One round of Tokenize, from place s.i, after the tokens s.ts, the last of kind
\* s.last.  After the end i is 0.
NextTokens(text, s) ==
  LET here == skipWhitespaceAndComments(text, [i |-> s.i, line |-> FALSE, dir |-> <<>>])
      semi == here.line /\ needsSemicolon(s.last)
      line == IF semi THEN Append(s.ts, <<";", "">>) ELSE s.ts
      before == IF here.dir = <<>> THEN line ELSE Append(line, <<"directive", here.dir>>)
      last == IF here.dir # <<>> THEN "directive" ELSE IF semi THEN ";" ELSE s.last
      c == Class(text, here.i)
      op == scanOperator(text, here.i)
      tok == CASE c = "word" -> scanIdent(text[here.i][2])
               [] c = "char" -> <<op[1], "">>
               [] OTHER -> text[here.i]
  IN  IF c = "end"
      THEN [i |-> 0, last |-> "EOF",
            ts |-> before \o (IF needsSemicolon(last) THEN << <<";", "">> >> ELSE <<>>) \o << <<"EOF", "">> >>]
      ELSE [i |-> here.i + (IF c = "char" THEN op[2] ELSE 1), last |-> tok[1], ts |-> Append(before, tok)]

\* At most n rounds (by halves, so that TLC does not go deep).  A round takes a
\* character at least.
RECURSIVE TokensFrom(_, _, _)
TokensFrom(text, s, n) ==
  IF s.i = 0 \/ n = 0 THEN s
  ELSE IF n = 1 THEN NextTokens(text, s)
  ELSE TokensFrom(text, TokensFrom(text, s, n \div 2), n - n \div 2)
Tokenize(text) == TokensFrom(text, [i |-> 1, last |-> "EOF", ts |-> <<>>], Len(text) + 1).ts

-----------------------------------------------------------------------------
(* The parser's moves.                                                     *)

None == <<"None">>
Absent == <<"Ident", "error">>

NewParser(ts) ==
  [ts |-> ts, i |-> 1, noCompLit |-> FALSE, errors |-> 0, n |-> None]

Tok(s, k) == IF s.i + k > Len(s.ts) THEN <<"EOF", "">> ELSE s.ts[s.i + k]
peek(s) == Tok(s, 0)[1]
at(s, kind) == peek(s) = kind
match(s, kinds) == peek(s) \in kinds

\* What was read is the value of the token.
advance(s) ==
  [s EXCEPT !.n = Tok(s, 0)[2], !.i = IF @ > Len(s.ts) THEN @ ELSE @ + 1]
errorf(s) == [s EXCEPT !.errors = @ + 1]
expect(s, kind) == IF at(s, kind) THEN advance(s) ELSE errorf(advance(s))
Skip(s, kind) == IF at(s, kind) THEN advance(s) ELSE s
skipSemicolon(s) == Skip(s, ";")
Give(s, node) == [s EXCEPT !.n = node]

\* Read with Parse until one of kinds stands next: the sequence of what was
\* read, without what is None.
Until(Parse(_), s, kinds) ==
  LET RECURSIVE From(_, _)
      From(q, ns) ==
        IF match(q, kinds \cup {"EOF"}) THEN Give(q, ns)
        ELSE LET r == Parse(q)
             IN  From(r, IF r.n = None THEN ns ELSE Append(ns, r.n))
  IN  From(s, <<>>)

\* Members up to a closing token, each with its separator (if it is there).
Group(Parse(_), s, sep, close) ==
  LET Member(q) == LET r == Parse(q) IN Give(Skip(r, sep), r.n)
      all == Until(Member, s, {close})
  IN  Give(expect(all, close), all.n)

\* One, and more after commas.
Comma(Parse(_), s) ==
  LET RECURSIVE From(_, _)
      From(q, ns) ==
        LET r == Parse(q)
        IN  IF at(r, ",") THEN From(advance(r), Append(ns, r.n))
            ELSE Give(r, Append(ns, r.n))
  IN  From(s, <<>>)

\* Braces up to the one that closes the block.
RECURSIVE SkipBraces(_, _)
SkipBraces(s, depth) ==
  IF depth = 0 \/ at(s, "EOF") THEN s
  ELSE SkipBraces(advance(s), CASE at(s, "{") -> depth + 1
                                [] at(s, "}") -> depth - 1
                                [] OTHER -> depth)
skipBlock(s) == SkipBraces(expect(s, "{"), 1)

\* The rest of a go statement, up to the semicolon or brace that ends it.
RECURSIVE SkipGo(_, _)
SkipGo(s, depth) ==
  IF at(s, "EOF") \/ (depth = 0 /\ match(s, {"}", ";"})) THEN s
  ELSE SkipGo(advance(s), CASE at(s, "{") -> depth + 1
                            [] at(s, "}") -> depth - 1
                            [] OTHER -> depth)
RECURSIVE SkipTo(_, _)
SkipTo(s, kind) == IF match(s, {kind, "EOF"}) THEN Skip(s, kind) ELSE SkipTo(advance(s), kind)
-----------------------------------------------------------------------------
(* Types.                                                                  *)

RECURSIVE parseType(_), parseBinaryExpr(_, _), parseUnaryExpr(_), parseBlock(_),
          parseStmt(_), parseIfStmt(_), parseCompositeLit(_)

parseExpr(s) == parseBinaryExpr(s, 1)

\* name type, name ...type, or a type alone: a name before a comma or the
\* closing parenthesis is one.
parseParam(s) ==
  IF at(s, "IDENT") /\ Tok(s, 1)[1] \notin {",", ")"}
  THEN LET name == advance(s)
           t == parseType(Skip(name, "..."))
       IN  Give(t, <<"Field", (IF at(name, "...") THEN "..." ELSE "") \o name.n, t.n>>)
  ELSE LET t == parseType(s) IN Give(t, <<"Field", "", t.n>>)

\* The parameter whose type the i-th has, where a run of bare names ends at a
\* named one.
groups(ps, i) ==
  {k \in i+1..Len(ps) : /\ ps[k][2] # ""
                        /\ \A j \in i..k-1 : ps[j][2] = "" /\ ps[j][3][1] = "Ident"}
GroupedParams(ps) ==
  [i \in DOMAIN ps |->
     IF groups(ps, i) = {} THEN ps[i]
     ELSE <<"Field", ps[i][3][2], ps[CHOOSE k \in groups(ps, i) : TRUE][3]>>]

parseParamList(s) ==
  LET ps == Group(parseParam, expect(s, "("), ",", ")") IN Give(ps, GroupedParams(ps.n))

\* Result types of a function; stop are the tokens that may come without one.
parseResults(s, stop) ==
  IF match(s, stop \cup {";", "EOF"}) THEN Give(s, None)
  ELSE IF at(s, "(")
  THEN LET ps == Group(parseParam, advance(s), ",", ")")
       IN  Give(ps, <<"FuncType", ps.n, None>>)
  ELSE parseType(s)

parseSliceOrArrayType(s) ==
  LET t == parseType(expect(expect(s, "["), "]")) IN Give(t, <<"SliceType", t.n>>)

parseMapType(s) ==
  LET k == parseType(expect(expect(s, "map"), "["))
      v == parseType(expect(k, "]"))
  IN  Give(v, <<"MapType", k.n, v.n>>)

parseFuncType(s) ==
  LET ps == parseParamList(expect(s, "func"))
  IN  IF match(ps, {";", ",", ")", "{", "EOF"}) THEN Give(ps, <<"FuncType", ps.n, None>>)
      ELSE LET t == parseType(ps) IN Give(t, <<"FuncType", ps.n, t.n>>)

parseStructField(s) ==
  LET name == expect(s, "IDENT")
      t == IF match(name, {";", "}", "EOF"}) THEN Give(name, None) ELSE parseType(name)
  IN  Give(t, <<"Field", name.n, t.n>>)

parseStructType(s) ==
  LET fs == Group(parseStructField, expect(expect(s, "struct"), "{"), ";", "}")
  IN  Give(fs, <<"StructType", fs.n>>)

parseMethodType(s) ==
  LET name == expect(s, "IDENT")
      ps == parseParamList(name)
      t == parseResults(ps, {"}"})
  IN  Give(t, <<"Func", name.n, None, ps.n, t.n, None>>)

parseInterfaceType(s) ==
  LET ms == Group(parseMethodType, expect(expect(s, "interface"), "{"), ";", "}")
  IN  Give(ms, <<"InterfaceType", ms.n>>)

parseNamedType(s) ==
  LET t == advance(s)
      name == expect(advance(t), "IDENT")
  IN  IF at(t, ".") THEN Give(name, <<"Sel", <<"Ident", t.n>>, name.n>>)
      ELSE Give(t, <<"Ident", t.n>>)

\* Not supported: the element type is read to go on behind it.
parseChanType(s) ==
  LET t == errorf(advance(s))
  IN  Give(IF match(t, {"{", ";", ")", ",", "EOF"}) THEN t ELSE parseType(t), Absent)

parseType(s) ==
  CASE at(s, "IDENT") -> parseNamedType(s)
    [] at(s, "*") -> LET t == parseType(advance(s)) IN Give(t, <<"PointerType", t.n>>)
    [] at(s, "[") -> parseSliceOrArrayType(s)
    [] at(s, "map") -> parseMapType(s)
    [] at(s, "func") -> parseFuncType(s)
    [] at(s, "struct") -> parseStructType(s)
    [] at(s, "interface") -> parseInterfaceType(s)
    [] at(s, "chan") -> parseChanType(s)
    [] OTHER -> Give(errorf(advance(s)), Absent)

-----------------------------------------------------------------------------
(* Expressions.                                                            *)

precedence(kind) ==
  CASE kind = "||" -> 1
    [] kind = "&&" -> 2
    [] kind \in {"==", "!=", "<", ">", "<=", ">="} -> 3
    [] kind \in {"+", "-", "|", "^"} -> 4
    [] kind \in {"*", "/", "%", "&", "<<", ">>"} -> 5
    [] OTHER -> 0

\* Mistake: operators of one precedence are taken from the right.
OperandRight(s, prec) == parseBinaryExpr(s, prec)

\* The right operand holds only operators that bind tighter.
Operand(s, prec) == parseBinaryExpr(s, prec + 1)

parseBinaryExpr(s, minPrec) ==
  LET RECURSIVE More(_)
      More(left) ==
        LET op == peek(left)
            right == Operand(advance(left), precedence(op))
        IN  IF precedence(op) < minPrec THEN left
            ELSE More(Give(right, <<"Bin", op, left.n, right.n>>))
  IN  More(parseUnaryExpr(s))

NoBrace(Parse(_), s) ==
  [Parse([s EXCEPT !.noCompLit = TRUE]) EXCEPT !.noCompLit = s.noCompLit]
parseExprNoBrace(s) == NoBrace(parseExpr, s)

parseCall(s) ==
  LET Arg(q) == LET x == parseExpr(q) IN Give(Skip(x, "..."), <<x.n, at(x, "...")>>)
      args == Group(Arg, advance(s), ",", ")")
  IN  Give(args, <<"Call", s.n, [k \in DOMAIN args.n |-> args.n[k][1]],
                   \E k \in DOMAIN args.n : args.n[k][2]>>)

\* x[i], x[low:high]; the bounds default to 0 and to None.
parseIndex(s) ==
  LET open == advance(s)
      low == IF at(open, ":") THEN Give(open, <<"Int", 0>>) ELSE parseExpr(open)
      mid == advance(low)
      high == IF at(mid, "]") THEN Give(mid, None) ELSE parseExpr(mid)
  IN  IF at(low, ":") THEN Give(expect(high, "]"), <<"Slice", s.n, low.n, high.n>>)
      ELSE Give(expect(low, "]"), <<"Index", s.n, low.n>>)

isTypeLikeNode(n) == n[1] \in {"Ident", "SliceType", "MapType", "PointerType", "Sel"}

\* In the header of a statement a brace opens the block.
takesLiteral(s) == ~s.noCompLit /\ isTypeLikeNode(s.n)

RECURSIVE parsePostfixOps(_)
parsePostfixOps(s) ==
  CASE at(s, ".") -> LET name == expect(advance(s), "IDENT")
                     IN  parsePostfixOps(Give(name, <<"Sel", s.n, name.n>>))
    [] at(s, "(") -> parsePostfixOps(parseCall(s))
    [] at(s, "[") -> parsePostfixOps(parseIndex(s))
    [] at(s, "{") /\ takesLiteral(s) -> parsePostfixOps(parseCompositeLit(s))
    [] OTHER -> s

\* The type of elements written as braces alone.
elemType(t) == CASE t[1] = "SliceType" -> t[2]
                 [] t[1] = "MapType" -> t[3]
                 [] OTHER -> None

parseElem(s, t) ==
  IF at(s, "{") /\ t # None THEN parseCompositeLit(Give(s, t)) ELSE parseExpr(s)

parseCompositeLit(s) ==
  LET t == elemType(s.n)
      Elem(q) == LET k == parseElem(q, t)
                     v == parseElem(advance(k), t)
                 IN  IF at(k, ":") /\ ~(at(q, "{") /\ t # None)
                     THEN Give(v, <<"KV", k.n, v.n>>) ELSE k
      es == Group(Elem, expect(s, "{"), ",", "}")
  IN  Give(es, <<"Lit", s.n, es.n>>)

parseFuncLit(s) ==
  LET t == parseFuncType(s)
      b == parseBlock(t)
  IN  IF at(t, "{") THEN Give(b, <<"FuncLit", t.n, b.n>>) ELSE t

parseOperand(s) ==
  LET a == advance(s)
      Leaf(kind) == Give(a, <<kind, a.n>>)
      inner == parseExpr(a)
  IN  CASE at(s, "IDENT") -> Leaf("Ident")
        [] at(s, "INT") -> Leaf("Int")
        [] at(s, "STRING") -> Leaf("Str")
        [] at(s, "RUNE") -> Leaf("Rune")
        [] match(s, {"true", "false", "nil", "iota"}) -> Leaf("Basic")
        [] at(s, "(") -> Give(expect(inner, ")"), inner.n)
        [] at(s, "[") -> parseSliceOrArrayType(s)
        [] at(s, "map") -> parseMapType(s)
        [] at(s, "func") -> parseFuncLit(s)

Operands == {"IDENT", "INT", "STRING", "RUNE", "true", "false", "nil", "iota", "(", "[",
             "map", "func"}

parsePrimaryExpr(s) ==
  IF match(s, Operands) THEN parsePostfixOps(parseOperand(s))
  ELSE LET a == errorf(advance(s))
       IN  Give(IF at(s, "chan") THEN Skip(a, "IDENT") ELSE a, Absent)

parseUnaryExpr(s) ==
  LET x == parseUnaryExpr(advance(s))
  IN  IF match(s, {"!", "-", "^", "*", "&"}) THEN Give(x, <<"Un", peek(s), x.n>>)
      ELSE parsePrimaryExpr(s)
-----------------------------------------------------------------------------
(* Statements.                                                             *)

\* A variable without a type, or without a value.
parseVarDecl(s) ==
  LET name == expect(expect(s, "var"), "IDENT")
      t == IF match(name, {"=", ";", "EOF"}) THEN Give(name, None) ELSE parseType(name)
      x == IF at(t, "=") THEN parseExpr(advance(t)) ELSE Give(t, None)
  IN  Give(skipSemicolon(x), <<"Var", name.n, t.n, x.n>>)

parseConstSpec(s) ==
  LET name == expect(s, "IDENT")
      t == IF at(name, "IDENT") THEN parseType(name) ELSE Give(name, None)
      x == IF at(t, "=") THEN parseExpr(advance(t)) ELSE Give(t, None)
  IN  Give(x, <<"Const", name.n, t.n, x.n>>)

parseConstDecl(s) ==
  LET k == expect(s, "const")
      all == IF at(k, "(") THEN Group(parseConstSpec, advance(k), ";", ")") ELSE parseConstSpec(k)
  IN  Give(skipSemicolon(all), IF at(k, "(") THEN <<"Consts", all.n>> ELSE all.n)

\* An expression, x++, or an assignment of some expressions to some.
parseSimpleStmtNoSemicolon(s) ==
  LET one == parseExpr(s)
      many == Comma(parseExpr, s)
      Assigned(lhs, op, rhs) == Give(rhs, <<"Assign", op, lhs, rhs.n>>)
      x == parseExpr(advance(one))
  IN  CASE at(one, "++") -> Give(advance(one), <<"Inc", one.n>>)
        [] match(one, {"=", ":=", "+=", "-=", "*=", "/=", "%=", "|=", "&=", "^=", "<<=", ">>="}) ->
             Assigned(<<one.n>>, peek(one), Give(x, <<x.n>>))
        [] at(one, ",") /\ match(many, {"=", ":="}) ->
             Assigned(many.n, peek(many), Comma(parseExpr, advance(many)))
        [] at(one, ",") /\ ~match(many, {"=", ":="}) -> Give(many, <<"Expr", one.n>>)
        [] OTHER -> Give(one, <<"Expr", one.n>>)
parseSimpleStmt(s) ==
  LET x == parseSimpleStmtNoSemicolon(s) IN Give(skipSemicolon(x), x.n)

\* if [init;] cond block [else if ... | else block]
parseIfStmt(s) ==
  LET first == NoBrace(parseSimpleStmtNoSemicolon, expect(s, "if"))
      init == at(first, ";")
      cond == IF init THEN parseExprNoBrace(advance(first))
              ELSE IF first.n[1] = "Expr" THEN Give(first, first.n[2]) ELSE first
      then == parseBlock(cond)
      next == advance(then)
      else == IF ~at(then, "else") THEN Give(then, None)
              ELSE IF at(next, "if") THEN parseIfStmt(next) ELSE parseBlock(next)
  IN  Give(skipSemicolon(else),
           <<"If", IF init THEN first.n ELSE None, cond.n, then.n, else.n>>)

\* The block of a loop.
Looped(s, Loop(_)) ==
  LET b == parseBlock(s) IN Give(skipSemicolon(b), Loop(b.n))

\* ... range x block
RangeOver(s, k, v) ==
  LET x == parseExprNoBrace(expect(s, "range"))
      Loop(b) == <<"Range", k, v, x.n, b>>
  IN  Looped(x, Loop)

\* cond; post block, the condition missing only after an init that is an
\* expression.
Clauses(s, init, mayMiss) ==
  LET cond == IF mayMiss /\ at(s, ";") THEN Give(s, None) ELSE parseExprNoBrace(s)
      semi == expect(cond, ";")
      post == IF at(semi, "{") THEN Give(semi, None) ELSE parseSimpleStmtNoSemicolon(semi)
      Loop(b) == <<"For", init, cond.n, post.n, b>>
  IN  Looped(post, Loop)

parseForStmt(s) ==
  LET f == expect(s, "for")
      first == parseExprNoBrace(f)
      op == advance(first)
      second == parseExprNoBrace(op)
      Forever(b) == <<"For", None, None, None, b>>
      While(b) == <<"For", None, first.n, None, b>>
  IN  CASE at(f, "{") -> Looped(f, Forever)
        [] at(f, "range") -> RangeOver(f, None, None)
        [] ~match(f, {"{", "range"}) /\ at(first, ",") ->
             IF match(second, {":=", "="}) THEN RangeOver(advance(second), first.n, second.n)
             ELSE Looped(second, While)
        [] ~match(f, {"{", "range"}) /\ match(first, {":=", "="}) ->
             IF at(op, "range") THEN RangeOver(op, first.n, None)
             ELSE Clauses(expect(second, ";"),
                          <<"Assign", peek(first), <<first.n>>, <<second.n>>>>, FALSE)
        [] ~match(f, {"{", "range"}) /\ at(first, ";") ->
             Clauses(op, <<"Expr", first.n>>, TRUE)
        [] OTHER -> Looped(first, While)

\* case x, y: or default:, and the statements up to the next.
parseCaseClause(s) ==
  LET vals == Comma(parseExpr, advance(s))
      head == IF at(s, "case") THEN vals ELSE Give(expect(s, "default"), <<>>)
      body == Until(parseStmt, expect(head, ":"), {"case", "default", "}"})
  IN  Give(body, <<"Case", ~at(s, "case"), head.n, body.n>>)

parseSwitchStmt(s) ==
  LET w == expect(s, "switch")
      first == IF at(w, "{") THEN Give(w, None) ELSE parseExprNoBrace(w)
      init == ~at(w, "{") /\ at(first, ";")
      next == advance(first)
      tag == IF ~init THEN first ELSE IF at(next, "{") THEN Give(next, None) ELSE parseExprNoBrace(next)
      cases == Group(parseCaseClause, expect(tag, "{"), "", "}")
  IN  Give(skipSemicolon(cases),
           <<"Switch", IF init THEN first.n ELSE None, tag.n, cases.n>>)

parseReturnStmt(s) ==
  LET r == expect(s, "return")
      xs == IF match(r, {";", "}", "EOF"}) THEN Give(r, <<>>) ELSE Comma(parseExpr, r)
  IN  Give(skipSemicolon(xs), <<"Return", xs.n>>)

parseDeferStmt(s) ==
  LET x == parseExpr(expect(s, "defer")) IN Give(skipSemicolon(x), <<"Defer", x.n>>)

\* go and select are reported and skipped.
parseSkipped(s) ==
  LET a == errorf(advance(s))
      b == IF at(s, "go") THEN SkipGo(a, 0) ELSE IF at(a, "{") THEN skipBlock(a) ELSE a
  IN  Give(skipSemicolon(b), None)

parseStmt(s) ==
  CASE at(s, "{") -> LET b == parseBlock(s) IN Give(skipSemicolon(b), b.n)
    [] at(s, "if") -> parseIfStmt(s)
    [] at(s, "for") -> parseForStmt(s)
    [] at(s, "switch") -> parseSwitchStmt(s)
    [] at(s, "return") -> parseReturnStmt(s)
    [] at(s, "var") -> parseVarDecl(s)
    [] at(s, "const") -> parseConstDecl(s)
    [] match(s, {"break", "continue"}) -> Give(skipSemicolon(advance(s)), <<"Branch", peek(s)>>)
    [] at(s, "defer") -> parseDeferStmt(s)
    [] match(s, {"go", "select"}) -> parseSkipped(s)
    [] at(s, ";") -> Give(advance(s), None)
    [] OTHER -> parseSimpleStmt(s)

parseBlock(s) ==
  LET b == Until(parseStmt, expect(s, "{"), {"}"}) IN Give(expect(b, "}"), <<"Block", b.n>>)

-----------------------------------------------------------------------------
(* Declarations.                                                           *)

parseReceiver(s) ==
  LET name == expect(s, "IDENT")
      t == parseType(name)
  IN  Give(expect(t, ")"), <<"Field", name.n, t.n>>)

\* Type parameters are reported and skipped.
parseFuncDecl(s) ==
  LET f == expect(s, "func")
      recv == IF at(f, "(") THEN parseReceiver(advance(f)) ELSE Give(f, None)
      name == expect(recv, "IDENT")
      ps == parseParamList(IF at(name, "[") THEN SkipTo(advance(errorf(name)), "]") ELSE name)
      t == parseResults(ps, {"{"})
      body == IF at(t, "{") THEN parseBlock(t) ELSE Give(t, None)
  IN  Give(skipSemicolon(body), <<"Func", name.n, recv.n, ps.n, t.n, body.n>>)

parseTypeSpec(s) ==
  LET name == expect(s, "IDENT")
      t == parseType(name)
  IN  Give(t, <<"TypeDecl", name.n, t.n>>)

parseTypeDecl(s) ==
  LET k == expect(s, "type")
      all == IF at(k, "(") THEN Group(parseTypeSpec, advance(k), ";", ")") ELSE parseTypeSpec(k)
  IN  Give(skipSemicolon(all),
           IF ~at(k, "(") THEN all.n
           ELSE IF Len(all.n) = 1 THEN all.n[1] ELSE <<"Block", all.n>>)

RECURSIVE parseTopDecl(_)
parseTopDecl(s) ==
  CASE at(s, "directive") ->
         LET d == advance(s)
             x == parseTopDecl(d)
         IN  Give(x, <<"Directive", d.n, x.n>>)
    [] at(s, "func") -> parseFuncDecl(s)
    [] at(s, "type") -> parseTypeDecl(s)
    [] at(s, "var") -> parseVarDecl(s)
    [] at(s, "const") -> parseConstDecl(s)
    [] OTHER -> Give(errorf(advance(s)), None)

parseImportGroup(s) ==
  LET k == expect(s, "import")
      Path(q) == expect(q, "STRING")
      all == IF at(k, "(") THEN Group(Path, advance(k), ";", ")") ELSE Path(k)
  IN  Give(skipSemicolon(all), IF at(k, "(") THEN all.n ELSE <<all.n>>)

RECURSIVE parseImports(_, _)
parseImports(s, paths) ==
  IF ~at(s, "import") THEN Give(s, paths)
  ELSE LET g == parseImportGroup(s) IN parseImports(g, paths \o g.n)

\* The tree of a file, and the number of errors reported.
ParseFile(ts) ==
  LET name == expect(expect(NewParser(ts), "package"), "IDENT")
      imports == parseImports(skipSemicolon(name), <<>>)
      decls == Until(parseTopDecl, imports, {})
  IN  [tree |-> <<"File", name.n, imports.n, decls.n>>, errors |-> decls.errors]
=============================================================================
