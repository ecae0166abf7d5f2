------------------------------- MODULE MCBuild -------------------------------
(* Builds for TLC: the standard library's own build constraints for every  *)
(* target, and small programs of several packages.                         *)
EXTENDS Build

D(kind, recv, name, intern, body) ==
  [kind |-> kind, recv |-> recv, name |-> name, intern |-> intern, body |-> body, key |-> 0]
Fn(name, body)         == D("func", "", name, "", body)
Native(name)           == D("func", "", name, name, <<>>)
Meth(recv, name, body) == D("func", recv, name, "", body)
Var(name, body)        == D("var", "", name, "", body)
Typ(name)              == D("type", "", name, "", <<>>)
C(x, f)                == <<"call", x, f>>

F(key, name, guard, pkg, imports, decls) ==
  [key |-> key, name |-> name, guard |-> guard, pkg |-> pkg, imports |-> imports,
   decls |-> decls, readable |-> TRUE, parses |-> TRUE]

And(a, b) == <<a, "&&", b>>

-----------------------------------------------------------------------------
(* The standard library: runtime, os and fmt                               *)

Platforms == << <<"linux", "amd64">>, <<"linux", "386">>, <<"linux", "arm64">>, <<"darwin", "arm64">>,
                <<"windows", "amd64">>, <<"windows", "386">>, <<"windows", "arm64">>, <<"wasi", "wasm32">>,
                <<"c", "c8">>, <<"c", "c16">>, <<"c", "c32">>, <<"c", "c64">> >>
Systems == <<"linux", "darwin", "windows", "wasi", "c">>

RuntimeFiles ==
  << F(0, <<"runtime">>, <<>>, "runtime", <<>>,
       << Native("Tostring"), Native("Makestring"), Fn("Alloc", <<C("", "SysMmap")>>),
          Fn("IntToString", <<C("", "Makestring")>>), Fn("BytesToString", <<C("", "Alloc")>>),
          Fn("StringToBytes", <<C("", "Alloc")>>), Fn("runtimePanic", <<C("", "SysExit")>>) >>) >>
  \o [i \in DOMAIN Platforms |->
        F(i, <<"runtime">> \o Platforms[i], And(Platforms[i][1], Platforms[i][2]), "runtime", <<>>,
          << Var("GOOS", << <<"CONST">> >>), Native("SysExit"), Native("SysMmap"), Native("SysWrite") >>
          \o (IF Platforms[i] = <<"linux", "arm64">> THEN << Var("atFdcwd", <<>>), Fn("init", << <<"CONST">> >>) >> ELSE <<>>))]

OsFiles ==
  [i \in DOMAIN Systems |->
     F(i, <<"os", Systems[i]>>, <<Systems[i]>>, "os", <<"runtime">>,
       << Var("Stdout", << <<"NEW">> >>), Var("Args", <<>>), Fn("init", << C("", "ReadFile"), <<"CONVERT", "string">> >>),
          Fn("ReadFile", <<C("runtime", "SysWrite")>>), Fn("Exit", <<C("runtime", "SysExit")>>),
          Meth("*File", "Write", <<C("runtime", "SysWrite")>>) >>)]
  \o [i \in DOMAIN Platforms |->
        F(10 + i, <<"syscall">> \o Platforms[i], And(Platforms[i][1], Platforms[i][2]), "os", <<>>,
          << Meth("Errno", "Error", << <<"CONST">> >>) >>)]

Std == "runtime" :> RuntimeFiles @@ "os" :> OsFiles
       @@ "fmt" :> << F(1, <<"fmt">>, <<>>, "fmt", <<"os", "runtime">>,
                        << Fn("Println", << C("runtime", "Tostring"), <<"IFACE_CALL", "os", "*File", "Write">> >>) >>) >>

Hello == F(1, <<"main">>, <<>>, "main", <<"fmt", "os">>,
           << Fn("main", <<C("fmt", "Println"), C("", "helper")>>), Fn("helper", << <<"CONVERT", "[]byte">> >>),
              Fn("unused", <<C("os", "Exit")>>) >>)

MainFile == <<"main", ".go">>

World(a, std, named) ==
  [args |-> a, std |-> std, embedded |-> TRUE, dirs |-> <<>>, cwd |-> <<"home", "work">>,
   named |-> MainFile :> named @@ Stdin :> named, stdin |-> FALSE, writable |-> TRUE, supported |-> FALSE]

Targets == {<<"linux", "amd64">>, <<"linux", "386">>, <<"linux", "arm64">>, <<"darwin", "arm64">>,
            <<"windows", "amd64">>, <<"windows", "386">>, <<"windows", "arm64">>, <<"wasi", "wasm32">>,
            <<"c">>, <<"c", "16">>, <<"c", "32">>, <<"c", "64">>, <<"ir">>,
            <<"vm", "8">>, <<"vm", "16">>, <<"vm", "32">>, <<"vm", "64">>}

\* The library on disk is found from a directory above.
OnDisk(w) ==
  [w EXCEPT !.embedded = FALSE,
            !.dirs = <<"home", "std", "runtime">> :> Std["runtime"] @@ <<"home", "std", "os">> :> Std["os"]
                     @@ <<"home", "std", "fmt">> :> Std["fmt"]]

Supported ==
  {[World(<< <<"-T">>, t, <<"-tags">>, <<"no_size_analysis", "">>, MainFile, <<"-o">>, <<"out">> >>, Std, Hello)
      EXCEPT !.supported = TRUE] : t \in Targets}

-----------------------------------------------------------------------------
(* Programs of several packages                                            *)

Lib(name, imports, calls) ==
  << F(1, <<name>>, <<>>, name, imports,
       << Var("state", << <<"NEW">> >>), Fn("Get", << <<"CONST">> >>),
          Fn("init", <<C("", "Get")>> \o calls) >>) >>

\* a and b need c; a also needs b.
Diamond == "a" :> Lib("a", <<"c", "b">>, <<C("b", "Get"), C("c", "Get")>>)
           @@ "b" :> Lib("b", <<"c">>, <<C("c", "Get")>>) @@ "c" :> Lib("c", <<>>, <<>>)
\* a and b import each other.
Cycle == "a" :> Lib("a", <<"b", "c">>, <<C("c", "Get")>>) @@ "b" :> Lib("b", <<"a">>, <<>>)
         @@ "c" :> Lib("c", <<>>, <<>>)

\* a converts in an initialiser and does not import runtime, which may come
\* later in the order; b is called through it.
Loose == "a" :> << F(1, <<"a">>, <<>>, "a", <<"b">>,
                     << Var("state", << <<"CONVERT", "string">> >>), Fn("Get", << <<"CONVERT", "[]byte">>, C("b", "Get") >>),
                        Fn("init", << C("", "Get"), <<"CALL_INTRINSIC", "Tostring">> >>) >>) >>
         @@ "b" :> Lib("b", <<>>, <<>>)

Main(imports, decls) == F(1, <<"main">>, <<>>, "main", imports, decls)
UsesBoth == Main(<<"b", "a">>, <<Fn("main", <<C("a", "Get"), C("b", "Get")>>)>>)
Exits(c) == Main(<<"os">>, <<Fn("main", c)>>)

Run == <<"-run">>
VM == << <<"-T">>, <<"vm", "64">> >>

Small ==
  { UsesBoth,
    \* a conversion, with and without a library
    Main(<<>>, <<Fn("main", << <<"CONVERT", "string">> >>)>>),
    \* a call of a function another package does not have, of one nobody has,
    \* of a method through a name that is no package, of a variable
    Main(<<"a">>, <<Fn("main", <<C("a", "Put")>>)>>),
    Main(<<"a">>, <<Fn("main", <<C("", "nothing")>>)>>),
    Main(<<"none", "a">>, <<Fn("main", <<C("none", "Get")>>)>>),
    Main(<<"a">>, <<Meth("T", "Close", <<>>), Fn("main", <<C("file", "Close"), <<"method", "T", "Close">> >>)>>),
    Main(<<"a">>, <<Fn("main", <<C("a", "state")>>)>>),
    Main(<<"a">>, <<Fn("a", <<>>), Fn("main", <<C("", "a")>>)>>),
    \* no main, a main that fails, one that never returns
    Main(<<"a">>, <<Fn("helper", <<>>)>>),
    Main(<<"a">>, <<Fn("main", << <<"PANIC">> >>)>>),
    Main(<<"a">>, <<Fn("main", <<C("", "main")>>)>>),
    \* a file that does not parse
    [UsesBoth EXCEPT !.parses = FALSE] }

Library(std) == std @@ Std

\* The runtime is there because os needs it, or because main does.
Unordered ==
  {World(t \o <<MainFile>>, Library(Loose), Main(i, <<Fn("main", <<C("a", "Get")>>)>>)) :
     t \in {VM, << <<"-T">>, <<"linux", "amd64">>, Run >>}, i \in {<<"a", "os">>, <<"runtime", "a">>}}

Several ==
  UNION {{World(<< <<"-T">>, <<"linux", "amd64">>, Run, MainFile >>, Library(std), m),
          World(VM \o <<MainFile, <<"--">>, <<"x">> >>, std, m)} :
         std \in {Diamond, Cycle}, m \in Small}

\* From the standard input, with and without a place to write to.
FromInput ==
  {[World(w, Std, m) EXCEPT !.stdin = i, !.writable = b] :
     w \in {<<Run>>, VM \o <<Run>>, << <<"-T">>, <<"linux", "386">>, Run, <<"-debug">> >>,
            << <<"-T">>, <<"plan9", "arm64">>, Run >>, << <<"-T">>, <<"darwin", "arm64">>, Run >>, << <<"-T">>, <<"c", "8">> >>,
            << <<"-size-analysis">>, <<"s.json">> >>},
     m \in {Hello, Exits(<<C("os", "Exit")>>), Exits(<< <<"PANIC">> >>), Exits(<<C("os", "None")>>),
            Exits(<<C("", "main")>>), Exits(<<C("none", "Get"), <<"CONVERT", "string">>, C("os", "Exit")>>)},
     i, b \in BOOLEAN}

\* Directories: files of other systems, by name and by constraint, a file that
\* cannot be read, and a library of the program's own.
Dir == << F(3, <<"b", "windows">>, <<>>, "main", <<>>, <<Fn("where", << <<"PANIC">> >>)>>),
          F(2, <<"a", "linux", "arm64">>, <<>>, "main", <<>>, <<Fn("where", << <<"PANIC">> >>)>>),
          F(1, <<"a", "linux">>, <<"!", "c", "&&", "!", "(", "windows", "||", "wasi", ")">>, "main", <<"fmt">>,
            <<Fn("main", <<C("", "where"), C("fmt", "Println")>>)>>),
          F(4, <<"c", "x", "amd64">>, <<>>, "main", <<"lib">>, <<Fn("where", <<C("lib", "Get")>>)>>),
          [F(5, <<"d">>, <<>>, "main", <<>>, <<>>) EXCEPT !.readable = FALSE] >>

Directories ==
  {[OnDisk(World(Append(o, p), Std, Hello)) EXCEPT
      !.dirs = <<"home", "work", "prog">> :> Dir @@ <<".">> :> Dir @@ <<"home", "std", "lib">> :> Lib("lib", <<>>, <<>>) @@ @] :
     o \in {<<Run>>, VM}, p \in {<<".">>, <<"home", "work", "prog", "">>, <<"nowhere">>, <<"nowhere", "">>}}
  \cup {World(<<Run, <<"fmt">> >>, Std, Hello), [World(<<MainFile>>, Std, Hello) EXCEPT !.embedded = FALSE]}

MCWorlds == Supported \cup {OnDisk(w) : w \in Supported} \cup Several \cup Unordered \cup FromInput \cup Directories
\* A package with two functions init, each with a function of its own.
TwoInits ==
  Main(<<>>, <<Fn("init", <<C("", "first")>>), Fn("init", <<C("", "second")>>),
               Fn("first", << <<"CONST">> >>), Fn("second", << <<"CONST">> >>), Fn("main", <<>>)>>)
MCTwoInits == {World(t \o <<MainFile>>, Diamond @@ Std, TwoInits) :
                 t \in {VM, << <<"-T">>, <<"linux", "amd64">>, Run >>, << <<"-T">>, <<"c", "64">> >>, <<Run>>}}
MCRunnable == {<<"native", "linux", "amd64">>, <<"native", "linux", "386">>}
=============================================================================
