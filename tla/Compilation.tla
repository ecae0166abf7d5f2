---------------------------- MODULE Compilation ----------------------------
(***************************************************************************)
(* Programs from their text to the code of both targets, and what they     *)
(* mean: the stages of main.go, composed.                                  *)
(***************************************************************************)
EXTENDS SourceMeaning, WasmCode

CONSTANTS
  Sources,   \* from names to programs
  WasmNames  \* those also compiled for wasm32

\* The bit operations of words.
AndOf(c, a) == c & a
OrOf(c, a) == c | a
XorOf(c, a) == c ^^ a

Text == INSTANCE SourceText
Reader == INSTANCE PackageDecls

\* Type id, method and function, for interface calls.
dispatchOf(p) == {<<TypeID(p, f.recv[2]), f.meth, f.name>> : f \in {g \in ToSet(p.funcs) : IsMethod(g)}}

\* What the stages make of each program: the scanner and the parser read its
\* text; what they read is compiled (or the program itself where they report
\* errors); for wasm32 the code is structured, and judged as an engine does.
\* (A stage is a function combined with the empty one: TLC evaluates it once.)
Compilations ==
  LET programs == Sources @@ <<>>
      read == [n \in DOMAIN programs |-> Reader!Parsed(Text!File(programs[n]))] @@ <<>>
      code == [n \in DOMAIN programs |->
                 compilePackage(IF read[n].errors = 0 THEN read[n].package ELSE programs[n])] @@ <<>>
      wasm == [n \in WasmNames |->
                 [f \in DOMAIN code[n] |-> [code[n][f] EXCEPT !.code = stackify(@)]] @@ <<>>] @@ <<>>
      Module(n) ==
        [funcs |-> wasm[n],
         ends |-> [f \in DOMAIN wasm[n] |-> matches(wasm[n][f].code)] @@ <<>>,
         accepted |-> \A f \in DOMAIN wasm[n] : Valid(programs[n], wasm[n], f)]
  IN  [n \in DOMAIN programs |->
         [source |-> programs[n], read |-> read[n], means |-> Meaning(programs[n]),
          dispatch |-> dispatchOf(programs[n]), vm |-> code[n],
          forWasm |-> n \in WasmNames, wasm32 |-> IF n \in WasmNames THEN Module(n) ELSE <<>>]] @@ <<>>
=============================================================================
