------------------------------ MODULE BuildTags ------------------------------
(***************************************************************************)
(* The command line of the compiler (std/compiler/main.go) and the choice  *)
(* of the files of a package by build tag (std/compiler/frontend.go).      *)
(*                                                                         *)
(* A word of the command line is a sequence of parts: a target is split at *)
(* its slashes, the tags at their commas, a path at its slashes with a     *)
(* file's suffix ".go" as its last part.  A file has its name split at the *)
(* underscores (without ".go"), the tokens of its //go:build line, and     *)
(* what parsing it gives.                                                  *)
(***************************************************************************)
EXTENDS Naturals, Sequences, SequencesExt, TLC

CONSTANTS HostOS, HostArch   \* runtime.GOOS and runtime.GOARCH of the compiler

Bytes == "8" :> 1 @@ "16" :> 2 @@ "32" :> 4 @@ "64" :> 8
CArch == "8" :> "c8" @@ "16" :> "c16" @@ "32" :> "c32" @@ "64" :> "c64"

PtrSize(arch) == IF arch \in {"386", "wasm32"} THEN 4 ELSE 8

Defaults ==
  [out |-> <<"output">>, files |-> <<>>, extra |-> <<>>, run |-> FALSE, rest |-> <<>>,
   backend |-> "native", model |-> "", os |-> HostOS, arch |-> HostArch,
   word |-> PtrSize(HostArch), ptr |-> PtrSize(HostArch)]

isGoFile(path) == Last(path) = ".go"

-----------------------------------------------------------------------------
(* Options                                                                 *)

IsVM(t) == t[1] = "vm" /\ Len(t) > 1

ValidTarget(t) ==
  CASE t[1] = "c" -> Len(t) = 1 \/ t[2] \in {"16", "32", "64"}
    [] IsVM(t)    -> t[2] \in DOMAIN Bytes
    [] OTHER      -> t = <<"ir">> \/ Len(t) > 1

\* A later -T leaves the back end an earlier one chose.
WithTarget(opt, t) ==
  CASE t[1] = "c" ->
         LET m == IF Len(t) = 1 THEN "64" ELSE t[2]
         IN  [opt EXCEPT !.backend = "c", !.model = m, !.ptr = Bytes[m], !.os = "c", !.arch = CArch[m]]
    [] IsVM(t) ->
         LET n == Bytes[t[2]]
         IN  [opt EXCEPT !.backend = "vm", !.word = n, !.ptr = IF n = 1 THEN 2 ELSE n,
                         !.os = "c", !.arch = CArch[t[2]]]
    [] t = <<"ir">> -> [opt EXCEPT !.backend = "ir"]
    [] OTHER -> [opt EXCEPT !.os = t[1], !.arch = t[2], !.ptr = PtrSize(t[2])]

\* The words one turn of the loop takes, and what it makes of them.
TakesValue(args) == args[1] \in {<<"-o">>, <<"-T">>, <<"-tags">>, <<"-size-analysis">>} /\ Len(args) > 1

WordsTaken(args) ==
  CASE args[1] = <<"--">> -> Len(args)
    [] TakesValue(args)   -> 2
    [] OTHER              -> 1

WithOption(opt, args) ==
  CASE args[1] = <<"-run">>   -> [opt EXCEPT !.run = TRUE]
    [] args[1] = <<"-debug">> -> opt
    [] args[1] = <<"--">>     -> [opt EXCEPT !.rest = Tail(args)]
    [] TakesValue(args) /\ args[1] = <<"-o">>    -> [opt EXCEPT !.out = args[2]]
    [] TakesValue(args) /\ args[1] = <<"-T">>    -> WithTarget(opt, args[2])
    [] TakesValue(args) /\ args[1] = <<"-tags">> -> [opt EXCEPT !.extra = args[2]]
    [] TakesValue(args) /\ args[1] = <<"-size-analysis">> -> opt
    [] OTHER -> [opt EXCEPT !.files = Append(@, args[1])]

BadOption(args) == TakesValue(args) /\ args[1] = <<"-T">> /\ ~ValidTarget(args[2])

buildTags(opt) ==
  (IF opt.backend = "c" THEN {"c", CArch[opt.model]} ELSE {opt.os, opt.arch})
  \cup (ToSet(opt.extra) \ {""}) \cup {"rtg"}

-----------------------------------------------------------------------------
(* //go:build expressions                                                  *)

Value(val, rest) == [val |-> val, rest |-> rest]

\* A tag, or an expression in parentheses: in is what follows the first token.
parseBuildAtom(toks, tags, in) ==
  IF toks = <<>> THEN Value(FALSE, toks)
  ELSE IF Head(toks) = "("
       THEN IF in.rest # <<>> /\ Head(in.rest) = ")" THEN Value(in.val, Tail(in.rest)) ELSE in
  ELSE IF Head(toks) \in {")", "&&", "||"} THEN Value(FALSE, toks)
  ELSE Value(Head(toks) \in tags, Tail(toks))

\* What parseBuildOr ("||"), parseBuildAnd ("&&") and parseBuildUnary ("!") make
\* of tokens: the value, and the tokens that follow the expression.  Every
\* operand is read, whatever those before it are.
parseBuild(tags) ==
  LET parse[op \in {"||", "&&", "!"}, toks \in Seq(STRING)] ==
        LET below == IF op = "||" THEN "&&" ELSE "!"
            left == parse[below, toks]
            right == parse[op, Tail(left.rest)]
            Both(l, r) == IF op = "&&" THEN l /\ r ELSE l \/ r
        IN  IF op # "!"
            THEN IF left.rest = <<>> \/ Head(left.rest) # op THEN left
                 ELSE Value(Both(left.val, right.val), right.rest)
            ELSE IF toks # <<>> /\ Head(toks) = "!"
                 THEN Value(~parse["!", Tail(toks)].val, parse["!", Tail(toks)].rest)
                 ELSE parseBuildAtom(toks, tags, parse["||", Tail(toks)])
  IN  parse

\* (mutant of evalBuildExpr: only the first operand counts)
evalBuildFirst(toks, tags) == parseBuild(tags)["!", toks].val
evalBuildExpr(toks, tags) == parseBuild(tags)["||", toks].val

-----------------------------------------------------------------------------
(* Which files belong to the build                                         *)

KnownOS   == {"linux", "darwin", "windows", "freebsd", "wasi"}
KnownArch == {"amd64", "386", "arm64", "arm", "wasm32"}

NameAllows(parts, tags) ==
  LET n == Len(parts)
  IN  IF n >= 3 /\ parts[n - 1] \in KnownOS /\ parts[n] \in KnownArch
      THEN {parts[n - 1], parts[n]} \subseteq tags
      ELSE n >= 2 /\ parts[n] \in KnownOS \cup KnownArch => parts[n] \in tags

\* A //go:build line overrides the name.
shouldIncludeContent(file, tags) ==
  IF file.guard # <<>> THEN evalBuildExpr(file.guard, tags) ELSE NameAllows(file.name, tags)

\* A file that cannot be read is included (and then not parsed).
shouldIncludeFile(file, tags) == file.readable => shouldIncludeContent(file, tags)
=============================================================================
