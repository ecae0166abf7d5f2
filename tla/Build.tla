-------------------------------- MODULE Build --------------------------------
(***************************************************************************)
(* A build, from the command line to the end of the program it runs:       *)
(* main.go (driver), frontend.go (packages), CompileModule of ir.go,       *)
(* dce.go, the start of the code generators and of the interpreter.        *)
(*                                                                         *)
(* A file declares functions, methods, variables and types; a body is the  *)
(* sequence of the calls it makes, and a name is the sequence of its       *)
(* parts: <<"os", "*File", "Close">>.  What a function computes is the     *)
(* matter of the modules Lowering and CompiledRun.                         *)
(***************************************************************************)
EXTENDS BuildTags, FiniteSets, FiniteSetsExt, Functions

CONSTANTS
  Worlds,      \* [args, std, embedded, dirs, cwd, named, stdin, writable]
  Runnable,    \* the targets whose programs the host executes
  MaxFrames    \* calls that fit on the program's stack

VARIABLES
  world,       \* what the compiler finds: arguments, directories, input
  args, opt,   \* words not yet read, options read
  pc,          \* the stage
  base,        \* the directory searched for, then found
  pkgs, todo,  \* packages parsed, imports to resolve
  roots, order,\* packages topologicalSort has not started from; its result
  walk,        \* its visits that have not returned
  ir,          \* functions (name and code) and globals
  reach, work, \* eliminateDeadFunctions: the marked names, the worklist
  gone,        \* names of the functions it removed
  queue,       \* functions still to be called by the start code
  stack,       \* the program's active calls
  ended,       \* initialisers that have returned
  lost,        \* names called or linked to that are no function of ir
  tmp,         \* temporary files there are
  code         \* exit code

given   == <<world, args, opt, base>>
packed  == <<pkgs, todo, roots, walk, order>>
compiled == <<ir, reach, work, gone>>
running == <<queue, stack, ended, lost>>
vars == <<given, packed, compiled, running, pc, tmp, code>>

\* The elements of s at the places in I, in their order.
Kept(s, I) ==
  LET upTo[n \in 0..Len(s)] ==
        IF n = 0 THEN <<>> ELSE IF n \in I THEN Append(upTo[n-1], s[n]) ELSE upTo[n-1]
  IN  upTo[Len(s)]

isInitFunc(name) == Last(name) \in {"init", "init$globals"}

-----------------------------------------------------------------------------
(* Packages                                                                *)

collectImports(files) ==
  LET all == FlattenSeq([i \in DOMAIN files |-> files[i].imports])
  IN  FoldLeft(LAMBDA seen, p : IF p \in ToSet(seen) THEN seen ELSE Append(seen, p), <<>>, all)

\* parseFile leaves a file with errors out.
Parsed(files) == SelectSeq(files, LAMBDA f : f.readable /\ f.parses)

Package(path, name, files) ==
  [path |-> path, name |-> name, files |-> files, imports |-> collectImports(files)]

NoPackage == Package("", "", <<>>)

\* The files of a directory in the order of their names.
parsePackageDir(files, path, tags) ==
  LET goFiles == SelectSeq(files, LAMBDA f : shouldIncludeFile(f, tags))
      good == Parsed(SortSeq(goFiles, LAMBDA f, g : f.key < g.key))
  IN  IF good = <<>> THEN NoPackage ELSE Package(path, good[1].pkg, good)

FilesIn(dir) == IF dir \in DOMAIN world.dirs THEN world.dirs[dir] ELSE <<>>

parsePackageFromEmbed(path, tags) ==
  IF world.embedded /\ path \in DOMAIN world.std
  THEN parsePackageDir(world.std[path], path, tags) ELSE NoPackage

FindPackage(path) ==
  LET embedded == parsePackageFromEmbed(path, buildTags(opt))
  IN  IF embedded # NoPackage THEN embedded
      ELSE parsePackageDir(FilesIn(base \o <<"std", path>>), path, buildTags(opt))

dirOfPath(path) == IF Len(path) > 1 THEN Front(path) ELSE <<".">>

EntryPackage ==
  LET arg == opt.files[1]
      here == parsePackageDir(FilesIn(dirOfPath(arg)), "main", buildTags(opt))
  IN  IF isGoFile(arg)
      THEN Package("main", "main", Parsed([i \in DOMAIN opt.files |-> world.named[opt.files[i]]]))
      ELSE LET embedded == parsePackageFromEmbed(arg[1], buildTags(opt))
           IN  IF arg = <<".">> \/ Len(arg) > 1 \/ embedded = NoPackage THEN here
               ELSE [embedded EXCEPT !.path = "main"]

-----------------------------------------------------------------------------
(* Symbols                                                                 *)

Decls(pkg) == FlattenSeq([i \in DOMAIN pkg.files |-> pkg.files[i].decls])

\* A symbol has the bare name, of a method too; the last declaration stays.
collectSymbols(pkg) ==
  FoldLeft(LAMBDA syms, d : d.name :> d @@ syms, <<>>, Decls(pkg))

Symbols == [p \in DOMAIN pkgs |-> collectSymbols(pkgs[p])]

KnownImports(pkg) == SelectSeq(pkg.imports, LAMBDA i : i \in DOMAIN pkgs)

\* The package an import's name means: to the validator the last one of that
\* name, to the compiler the first.
importMap(pkg) ==
  FoldLeft(LAMBDA m, i : pkgs[i].name :> i @@ m, <<>>, KnownImports(pkg))

resolvePackage(pkg, name) ==
  LET named == SelectSeq(KnownImports(pkg), LAMBDA i : pkgs[i].name = name)
  IN  IF named = <<>> THEN "" ELSE named[1]

Bodies(pkg) == ToSet(FlattenSeq([i \in DOMAIN Decls(pkg) |-> Decls(pkg)[i].body]))

ValidateModule ==
  UNION {{e \in Bodies(pkgs[p]) :
            /\ e[1] = "call"
            /\ LET imports == importMap(pkgs[p])
               IN  IF e[2] = "" THEN e[3] \in DOMAIN imports
                   ELSE e[2] \in DOMAIN imports /\ e[3] \notin DOMAIN Symbols[imports[e[2]]]} :
         p \in ToSet(order) \cap DOMAIN pkgs}

-----------------------------------------------------------------------------
(* Compilation                                                             *)

QualName(pkg, d) == IF d.recv = "" THEN <<pkg.path, d.name>> ELSE <<pkg.path, d.recv, d.name>>

Found == Kept(order, {i \in DOMAIN order : order[i] \in DOMAIN pkgs})

\* The methods of the packages up to the i-th that is compiled.
MethodTable(i) ==
  UNION {{QualName(pkgs[p], d) : d \in {e \in ToSet(Decls(pkgs[p])) : e.recv # ""}} :
         p \in ToSet(SubSeq(Found, 1, i))}

\* The function a call names.  A name that is no package found is taken for
\* a variable with a method.
resolveCallName(i, pkg, x, f) ==
  LET target == resolvePackage(pkg, x)
      methods == {m \in MethodTable(i) : Last(m) = f}
  IN  IF x = "" THEN <<pkg.path, f>>
      ELSE IF target # "" THEN <<target, f>>
      ELSE IF Cardinality(methods) = 1 THEN CHOOSE m \in methods : TRUE
      ELSE <<x, f>>

CompileEvent(i, pkg, e) ==
  CASE e[1] = "call"   -> <<"CALL", resolveCallName(i, pkg, e[2], e[3])>>
    [] e[1] = "method" -> <<"CALL", <<pkg.path, e[2], e[3]>>>>
    [] OTHER           -> e

CallErrors(pkg, e) ==
  /\ e[1] = "call"
  /\ LET owner == IF e[2] = "" THEN pkg.path ELSE resolvePackage(pkg, e[2])
     IN  owner # "" /\ (e[3] \notin DOMAIN Symbols[owner] \/ Symbols[owner][e[3]].kind \notin {"func", "type"})

\* Variables get their globals by symbol; an initialiser whose variable has
\* none is left out.
VarNames(pkg) ==
  SetToSortSeq({d \in Range(Symbols[pkg.path]) : d.kind = "var"}, LAMBDA d, e : d.key < e.key)

compileGlobalInits(i, pkg) ==
  LET inits == SelectSeq(Decls(pkg), LAMBDA d : d.kind = "var" /\ d.body # <<>>)
      kept == SelectSeq(inits, LAMBDA d : Symbols[pkg.path][d.name].kind = "var")
      body == FlattenSeq([k \in DOMAIN kept |-> [j \in DOMAIN kept[k].body |-> CompileEvent(i, pkg, kept[k].body[j])]])
  IN  IF inits = <<>> THEN <<>> ELSE << [name |-> <<pkg.path, "init$globals">>, code |-> body] >>

\* The function of an //rtg:internal directive is its intrinsic.
compileFunc(i, pkg, d) ==
  [name |-> QualName(pkg, d),
   code |-> IF d.intern # "" THEN << <<"CALL_INTRINSIC", d.intern>> >>
            ELSE [j \in DOMAIN d.body |-> CompileEvent(i, pkg, d.body[j])]]

FuncDecls(pkg) == SelectSeq(Decls(pkg), LAMBDA d : d.kind = "func")

compilePackage(i, pkg) ==
  LET funcs == FuncDecls(pkg)
  IN  compileGlobalInits(i, pkg) \o [k \in DOMAIN funcs |-> compileFunc(i, pkg, funcs[k])]

CompileModule ==
  [funcs |-> FlattenSeq([i \in DOMAIN Found |-> compilePackage(i, pkgs[Found[i]])]),
   globals |-> FlattenSeq([i \in DOMAIN Found |->
                 LET pkg == pkgs[Found[i]] IN [k \in DOMAIN VarNames(pkg) |-> <<pkg.path, VarNames(pkg)[k].name>>]])]

CompileErrors ==
  UNION {{e \in Bodies(pkgs[p]) : CallErrors(pkgs[p], e)} : p \in ToSet(Found)}

-----------------------------------------------------------------------------
(* Dead code                                                               *)

Listed(S) == FoldSet(LAMBDA x, list : Append(list, x), <<>>, S)

Names == {ir.funcs[i].name : i \in DOMAIN ir.funcs}
\* Looked up by name, the last of several functions is found.
Named(name) == Max({i \in DOMAIN ir.funcs : ir.funcs[i].name = name})

Methods == MethodTable(Len(Found))
Roots ==
  Names \cap ({<<"main", "main">>, <<"runtime", "Alloc">>, <<"runtime", "Makestring">>, <<"runtime", "runtimePanic">>}
             \cup {n \in Names : isInitFunc(n)} \cup Methods)

intrinsicRuntimeDep(name) == IF name = "Tostring" THEN {<<"runtime", "IntToString">>} ELSE {}

\* (mutant of Edges: the functions only a conversion calls are forgotten)
EdgesOfCalls(inst) ==
  CASE inst[1] = "CALL"           -> {inst[2]}
    [] inst[1] = "CALL_INTRINSIC" -> intrinsicRuntimeDep(inst[2])
    [] OTHER -> {}

\* The names an instruction keeps alive.
Edges(inst) ==
  CASE inst[1] = "CALL"           -> {inst[2]}
    [] inst[1] = "CALL_INTRINSIC" -> intrinsicRuntimeDep(inst[2])
    [] inst = <<"CONVERT", "string">> -> {<<"runtime", "BytesToString">>}
    [] inst = <<"CONVERT", "[]byte">> -> {<<"runtime", "StringToBytes">>}
    [] OTHER -> {}

Callees(name) ==
  IF name \in Names THEN UNION {Edges(inst) : inst \in ToSet(ir.funcs[Named(name)].code)} ELSE {}

-----------------------------------------------------------------------------
(* Code generation                                                         *)

GeneratorOf(backend, os, arch) ==
  CASE backend # "native"          -> backend
    [] arch = "wasm32"             -> "wasm32"
    [] arch \in {"amd64", "386"}   -> "native"
    [] arch = "arm64" /\ os \in {"darwin", "linux", "windows"} -> "native"
    [] OTHER                       -> "unsupported"
GenerateELF == GeneratorOf(opt.backend, opt.os, opt.arch)

\* The function an instruction calls when it is executed.
Callee(inst) ==
  CASE inst[1] = "CALL"                     -> <<inst[2]>>
    [] inst = <<"CALL_INTRINSIC", "Tostring">> -> << <<"runtime", "IntToString">> >>
    [] inst = <<"CONVERT", "string">>       -> << <<"runtime", "BytesToString">> >>
    [] inst = <<"CONVERT", "[]byte">>       -> << <<"runtime", "StringToBytes">> >>
    [] inst[1] = "IFACE_CALL"               -> <<Tail(inst)>>
    [] OTHER                                -> <<>>

Instructions == UNION {ToSet(ir.funcs[i].code) : i \in DOMAIN ir.funcs}

Fixups == UNION {ToSet(Callee(inst)) : inst \in {e \in Instructions : e[1] # "IFACE_CALL"}}

\* What the generator's calls refer to: machine code has a fixup for each
\* call, C looks up the calls alone, and the rest looks up nothing.
LinkedTo(generator) ==
  CASE generator = "native" -> Fixups \cup {<<"main", "main">>}
    [] generator = "c" -> {inst[2] : inst \in {e \in Instructions : e[1] = "CALL"}}
    [] OTHER -> {}

-----------------------------------------------------------------------------
(* Actions: the driver                                                     *)

Init ==
  /\ world \in Worlds
  /\ args = world.args /\ opt = Defaults /\ pc = "options"
  /\ base = world.cwd
  /\ pkgs = <<>> /\ todo = <<>> /\ roots = {} /\ walk = <<>> /\ order = <<>>
  /\ ir = [funcs |-> <<>>, globals |-> <<>>] /\ reach = {} /\ work = <<>> /\ gone = {}
  /\ queue = <<>> /\ stack = <<>> /\ ended = {} /\ lost = {}
  /\ tmp = {} /\ code = 0

Goto(stage) == pc' = stage /\ UNCHANGED <<tmp, code>>
Exit(c) == pc' = "exited" /\ code' = c
\* Outside -run there are no names of temporary files.
runCleanup == tmp' = IF opt.run THEN {} ELSE tmp
\* (mutant of Fail: an error exit forgets to clean up)
FailAtOnce == Exit(1) /\ UNCHANGED tmp
Fail == Exit(1) /\ runCleanup

ParseOption ==
  /\ pc = "options" /\ args # <<>>
  /\ IF BadOption(args)
     THEN Exit(1) /\ UNCHANGED <<args, opt, tmp>>
     ELSE /\ opt' = WithOption(opt, args)
          /\ args' = SubSeq(args, WordsTaken(args) + 1, Len(args))
          /\ Goto("options")
  /\ UNCHANGED <<world, base, packed, compiled, running>>

\* In -run mode without files the program is read from the input and written
\* to a file; a write that fails may leave a part of it.
Stdin == <<"tmp", ".go">>

NeedsInput == opt.run /\ opt.files = <<>>

ReadInput ==
  /\ pc = "options" /\ args = <<>> /\ NeedsInput
  /\ IF ~world.stdin THEN Exit(1) /\ UNCHANGED <<opt, tmp>>
     ELSE IF ~world.writable THEN Fail /\ UNCHANGED opt
     ELSE /\ opt' = [opt EXCEPT !.files = <<Stdin>>]
          /\ tmp' = tmp \cup {"source"}
          /\ pc' = "search" /\ UNCHANGED code
  /\ UNCHANGED <<world, args, base, packed, compiled, running>>

Start ==
  /\ pc = "options" /\ args = <<>> /\ ~NeedsInput
  /\ IF opt.files = <<>> THEN Exit(1) /\ UNCHANGED tmp ELSE Goto("search")
  /\ UNCHANGED <<given, packed, compiled, running>>

\* Up from the working directory to one with a standard library in it.
HasStd(dir) == dir \o <<"std", "runtime">> \in DOMAIN world.dirs
FindBase ==
  /\ pc = "search"
  /\ IF world.embedded THEN base' = <<".">> /\ Goto("entry")
     ELSE IF HasStd(base) THEN Goto("entry") /\ UNCHANGED base
     ELSE IF Len(base) > 1 THEN base' = Front(base) /\ Goto("search")
     ELSE base' = world.cwd /\ Goto("entry")
  /\ UNCHANGED <<world, args, opt, packed, compiled, running>>

-----------------------------------------------------------------------------
(* Actions: packages                                                       *)

ReadEntry ==
  /\ pc = "entry"
  /\ LET main == EntryPackage
     IN  IF main = NoPackage THEN Exit(1) /\ UNCHANGED <<pkgs, todo, tmp>>
         ELSE /\ pkgs' = [p \in {"main"} |-> main]
              /\ todo' = main.imports
              /\ Goto("imports")
  /\ UNCHANGED <<given, roots, walk, order, compiled, running>>

\* An import that is not found is left out with a warning.
ResolveImport ==
  /\ pc = "imports" /\ todo # <<>>
  /\ LET path == Head(todo)
         pkg == FindPackage(path)
     IN  IF path \in DOMAIN pkgs \/ pkg = NoPackage
         THEN todo' = Tail(todo) /\ UNCHANGED pkgs
         ELSE /\ pkgs' = [p \in DOMAIN pkgs \cup {path} |-> IF p = path THEN pkg ELSE pkgs[p]]
              /\ todo' = Tail(todo) \o SelectSeq(pkg.imports, LAMBDA i : i \notin DOMAIN pkgs')
  /\ UNCHANGED <<given, roots, walk, order, compiled, running, pc, tmp, code>>

Resolved ==
  /\ pc = "imports" /\ todo = <<>>
  /\ roots' = DOMAIN pkgs
  /\ Goto("sort")
  /\ UNCHANGED <<given, pkgs, todo, walk, order, compiled, running>>

Imports(path) == IF path \in DOMAIN pkgs THEN pkgs[path].imports ELSE <<>>

\* (mutant of Visited: each walk begins with no package visited)
VisitedOnWalk(path) == \E k \in DOMAIN walk : walk[k].path = path

\* A package is marked when its visit begins, and is put out when it ends.
Visited(path) == path \in ToSet(order) \/ \E k \in DOMAIN walk : walk[k].path = path

\* The visits under way when those of w call for path.
Visiting(w, path) == IF Visited(path) THEN w ELSE Append(w, [path |-> path, at |-> 0])

\* topologicalSort starts from the packages in the order of a map.
Sort ==
  /\ pc = "sort" /\ walk = <<>>
  /\ IF roots = {} THEN Goto("validate") /\ UNCHANGED <<roots, walk>>
     ELSE /\ \E p \in roots : roots' = roots \ {p} /\ walk' = Visiting(<<>>, p)
          /\ UNCHANGED <<pc, tmp, code>>
  /\ UNCHANGED <<given, pkgs, todo, order, compiled, running>>

\* The innermost visit after it has come to its next import.
Onward == [walk EXCEPT ![Len(walk)] = [path |-> Last(walk).path, at |-> Last(walk).at + 1]]

\* (mutant of visit: a package comes before its imports)
VisitFirst ==
  /\ pc = "sort" /\ walk # <<>>
  /\ LET v == Last(walk)
     IN  /\ IF v.at < Len(Imports(v.path))
            THEN walk' = Visiting(Onward, Imports(v.path)[v.at + 1])
            ELSE walk' = Front(walk)
         /\ order' = IF v.at = 0 THEN Append(order, v.path) ELSE order
  /\ UNCHANGED <<given, pkgs, todo, roots, compiled, running, pc, tmp, code>>

\* A visit calls one for each import in turn, then puts its package out.
visit ==
  /\ pc = "sort" /\ walk # <<>>
  /\ LET v == Last(walk)
     IN  IF v.at < Len(Imports(v.path))
         THEN walk' = Visiting(Onward, Imports(v.path)[v.at + 1]) /\ UNCHANGED order
         ELSE walk' = Front(walk) /\ order' = Append(order, v.path)
  /\ UNCHANGED <<given, pkgs, todo, roots, compiled, running, pc, tmp, code>>

Validate ==
  /\ pc = "validate"
  /\ IF ValidateModule # {} THEN Fail ELSE Goto("compile")
  /\ UNCHANGED <<given, packed, compiled, running>>

Compile ==
  /\ pc = "compile"
  /\ UNCHANGED <<given, packed, gone, running>>
  /\ IF CompileErrors # {} THEN Fail /\ UNCHANGED <<ir, reach, work>>
     ELSE /\ ir' = CompileModule
          /\ reach' = Roots' /\ work' = Listed(reach')
          /\ Goto("mark")

\* (mutant of Mark: what is marked is put on the worklist again)
MarkAgain ==
  /\ pc = "mark" /\ work # <<>>
  /\ LET new == Callees(Last(work))
     IN  reach' = reach \cup new /\ work' = Front(work) \o Listed(new)
  /\ UNCHANGED <<given, packed, ir, gone, running, pc, tmp, code>>

Mark ==
  /\ pc = "mark" /\ work # <<>>
  /\ LET new == Callees(Last(work)) \ reach
     IN  reach' = reach \cup new /\ work' = Front(work) \o Listed(new)
  /\ UNCHANGED <<given, packed, ir, gone, running, pc, tmp, code>>

Sweep ==
  /\ pc = "mark" /\ work = <<>>
  /\ ir' = [ir EXCEPT !.funcs = Kept(@, {i \in DOMAIN @ : @[i].name \in reach})]
  /\ gone' = Names \ reach
  /\ Goto("generate")
  /\ UNCHANGED <<given, packed, reach, work, running>>

-----------------------------------------------------------------------------
(* Actions: code generation and the program                                *)

HasMain == <<"main", "main">> \in Names

\* The initialisers in the order of the functions, then main.  The
\* interpreter executes each, compiled code calls them by name.
StartCode ==
  LET inits == Kept([i \in DOMAIN ir.funcs |-> i],
                    {i \in DOMAIN ir.funcs : isInitFunc(ir.funcs[i].name)})
      called == IF GenerateELF = "vm" THEN inits ELSE [i \in DOMAIN inits |-> Named(ir.funcs[inits[i]].name)]
  IN  called \o (IF HasMain THEN <<Named(<<"main", "main">>)>> ELSE <<>>)

Missing == LinkedTo(GenerateELF) \ Names

Generate ==
  /\ pc = "generate"
  /\ lost' = Missing
  /\ IF GenerateELF = "unsupported" \/ Missing # {} \/ (GenerateELF # "vm" /\ ~world.writable)
     THEN Fail /\ UNCHANGED queue
     ELSE IF GenerateELF = "vm" THEN queue' = StartCode /\ Goto("run")
     ELSE IF ~opt.run THEN Exit(0) /\ UNCHANGED <<queue, tmp>>
     ELSE IF <<GenerateELF, opt.os, opt.arch>> \in Runnable
          THEN queue' = StartCode /\ pc' = "run" /\ tmp' = tmp \cup {"binary"} /\ UNCHANGED code
     ELSE Fail /\ UNCHANGED queue
  /\ UNCHANGED <<given, packed, compiled, stack, ended>>

\* The program ends: the driver removes the files and passes its code on.
Ends(c) == Exit(c) /\ runCleanup

Top == stack[Len(stack)]
Inst == ir.funcs[Top.f].code[Top.at]
AtEnd == Top.at > Len(ir.funcs[Top.f].code)
Executing == pc = "run" /\ stack # <<>> /\ ~AtEnd

Begin ==
  /\ pc = "run" /\ stack = <<>> /\ queue # <<>>
  /\ stack' = << [f |-> Head(queue), at |-> 1] >>
  /\ queue' = Tail(queue)
  /\ UNCHANGED <<given, packed, compiled, ended, lost, pc, tmp, code>>

Return ==
  /\ pc = "run" /\ stack # <<>> /\ AtEnd
  /\ stack' = Front(stack)
  /\ ended' = IF Len(stack) = 1 THEN ended \cup {Top.f} ELSE ended
  /\ IF Len(stack) = 1 /\ queue = <<>> /\ HasMain THEN Ends(0) ELSE Goto("run")
  /\ UNCHANGED <<given, packed, compiled, queue, lost>>

\* The interpreter finds out after the initialisers.
NoMain ==
  /\ pc = "run" /\ stack = <<>> /\ queue = <<>>
  /\ Fail
  /\ UNCHANGED <<given, packed, compiled, running>>

Advanced == [stack EXCEPT ![Len(stack)] = [Top EXCEPT !.at = @ + 1]]

Call ==
  /\ Executing /\ Callee(Inst) # <<>>
  /\ LET name == Callee(Inst)[1]
     IN  /\ name \in Names
         /\ IF Len(stack) < MaxFrames
            THEN stack' = Append(Advanced, [f |-> Named(name), at |-> 1]) /\ Goto("run")
            ELSE \* the interpreter itself exits, without runCleanup
                 /\ UNCHANGED stack
                 /\ IF GenerateELF = "vm" THEN pc' = "overflow" /\ code' = 2 /\ UNCHANGED tmp ELSE Ends(1)
  /\ UNCHANGED <<given, packed, compiled, queue, ended, lost>>

\* A function that is not there: conversions do without, calls end the program.
CallLost ==
  /\ Executing /\ Callee(Inst) # <<>>
  /\ LET name == Callee(Inst)[1]
     IN  name \notin Names /\ lost' = lost \cup {name}
  /\ IF Inst[1] \in {"CONVERT", "CALL_INTRINSIC"} THEN stack' = Advanced /\ Goto("run")
     ELSE UNCHANGED stack /\ Ends(2)
  /\ UNCHANGED <<given, packed, compiled, queue, ended>>

\* os.Exit and a failure in the program end it with codes of their own.
Other ==
  /\ Executing /\ Callee(Inst) = <<>>
  /\ CASE Inst = <<"CALL_INTRINSIC", "SysExit">> -> UNCHANGED stack /\ Ends(3)
       [] Inst = <<"PANIC">> -> UNCHANGED stack /\ Ends(2)
       [] OTHER -> stack' = Advanced /\ Goto("run")
  /\ UNCHANGED <<given, packed, compiled, queue, ended, lost>>

Stopped == pc \in {"exited", "overflow"} /\ UNCHANGED vars

Next ==
  \/ ParseOption \/ ReadInput \/ Start \/ FindBase
  \/ ReadEntry \/ ResolveImport \/ Resolved \/ Sort \/ visit \/ Validate \/ Compile \/ Mark \/ Sweep
  \/ Generate \/ Begin \/ Return \/ NoMain \/ Call \/ CallLost \/ Other
  \/ Stopped

Spec == Init /\ [][Next]_vars /\ WF_vars(Next)

-----------------------------------------------------------------------------
(* Properties                                                              *)

\* The packages in S and all they import, directly or not.
WithImports(S) ==
  LET n == Cardinality(DOMAIN pkgs)
      upTo[k \in 0..n] ==
        IF k = 0 THEN S ELSE upTo[k-1] \cup ((UNION {ToSet(Imports(p)) : p \in upTo[k-1]}) \cap DOMAIN pkgs)
  IN  upTo[n]

\* The packages p imports, directly or not; none where packages import each
\* other, which nothing detects.
Below(p) ==
  LET all == WithImports({p})
      imported == [q \in all |-> WithImports(ToSet(pkgs[q].imports) \cap DOMAIN pkgs)]
  IN  IF \E q \in all : q \in imported[q] THEN {} ELSE all \ {p}

\* No function of a package is executed before every initialiser of the
\* packages it imports, directly or not, has returned: topologicalSort starts
\* from any package, and the order it gives is kept through compilation, the
\* removal of functions and the start code (frontend.go, ir.go, dce.go).
InitsInOrder ==
  pc = "run" =>
    \A k \in DOMAIN stack : \A i \in DOMAIN ir.funcs :
      /\ isInitFunc(ir.funcs[i].name)
      /\ ir.funcs[i].name[1] \in Below(ir.funcs[stack[k].f].name[1])
      => i \in ended

\* A function that eliminateDeadFunctions removed is never missed: not by the
\* generators' fixups, nor by a call, an interface call or a conversion that
\* the program executes (dce.go).  What is missed was never compiled.
OnlyUndefinedIsLost == lost \cap gone = {}

IsSequence(s) == s \in Seq({s[i] : i \in DOMAIN s})

NamesUnique == \A i, j \in DOMAIN ir.funcs : ir.funcs[i].name = ir.funcs[j].name => i = j

\* Code generation knows functions by their names: no two functions have one
\* name, and an interface call names a method, or a function nobody has.
NamesKnown ==
  /\ IsSequence(ir.funcs)
  /\ \A i \in DOMAIN ir.funcs : IsSequence(ir.funcs[i].code)
  /\ NamesUnique
  /\ \A inst \in Instructions :
       inst[1] = "IFACE_CALL" => Tail(inst) \in Methods \/ Tail(inst) \notin Names \cup gone

\* The place of a package in the order of initialisers, the package of the i-th
\* function, and that of the initialiser under way, or of main.
Place(p) == CHOOSE k \in DOMAIN order : order[k] = p
Of(i) == ir.funcs[i].name[1]
Started == Of(stack[1].f)

\* A call that no import stands for goes to a package that comes no later than
\* the one being started, as one through an interface does, or to one that
\* imports nothing, as the runtime: a package that converts or appends and does
\* not import runtime may be started before it (the map order of frontend.go).
CallsGoBack ==
  Executing =>
    \A name \in ToSet(Callee(Inst)) \cap Names :
      \/ name[1] \in {Of(Top.f)} \cup ToSet(Imports(Of(Top.f)))
      \/ Place(name[1]) <= Place(Started)
      \/ Imports(name[1]) = <<>>

\* Imports and declarations are lists: the proofs need to know it of the data.
PackagesAreLists ==
  /\ \A p \in DOMAIN pkgs : IsSequence(pkgs[p].imports)
  /\ pc = "compile" => \A p \in DOMAIN pkgs : IsSequence(FuncDecls(pkgs[p]))

\* What code generation and the start of the program rely on (dce.go,
\* backend.go): no package is compiled twice, whatever imports it, and a call
\* finds the one function meant, in a package whose turn has come or one that
\* needs no other.  A package with two functions init breaks it.
Linkable == NamesKnown /\ CallsGoBack /\ PackagesAreLists

\* For every supported target the standard library has exactly one file for
\* each thing that depends on it: nothing is declared twice in a package, and
\* the build succeeds (shouldIncludeFile and the //go:build lines of std).
EveryTargetBuilds ==
  world.supported =>
    /\ ~(pc = "exited" /\ code # 0)
    /\ \A p \in DOMAIN pkgs :
         LET decls == Decls(pkgs[p])
         IN  \A i, j \in DOMAIN decls : i # j => QualName(pkgs[p], decls[i]) # QualName(pkgs[p], decls[j])

\* The driver leaves none of the temporary files of -run when it exits, also
\* where a step of the build or the program fails (main.go:31, "cleaned up on
\* exit").  The interpreter's own exits leave them: that on an overflow of its
\* frames is the stage "overflow", that on the step limit (backend_vm.go:958)
\* and panics of the compiler are not modelled.
TempFilesRemoved == pc = "exited" => tmp = {}

\* A build comes to an end, whatever packages import each other, and so does
\* the program it runs: eliminateDeadFunctions and the import worklist
\* (frontend.go, dce.go) look at nothing twice.
Finishes == <>(pc \in {"exited", "overflow"})
=============================================================================
