---------------------------- MODULE MCWasmSwitch ----------------------------
(* The compiled program on a switch over cases that are negative numbers:  *)
(* switch x { case -1: put(1); case 1: put(2); default: put(3) }           *)
EXTENDS Compilation, CompiledRun

P == INSTANCE LoweringPrograms
Negative ==
  P!Prog2(<<P!Func("f", << <<"x", P!int>> >>, <<>>,
              <<P!Switch(P!Id("x"), <<P!Case(<<P!N(-1)>>, <<P!Put(P!N(1))>>),
                                      P!Case(<<P!N(1)>>, <<P!Put(P!N(2))>>),
                                      P!Default(<<P!Put(P!N(3))>>)>>)>>)>>,
          <<P!Do(P!CallN("f", <<P!N(5)>>))>>)
MCSources == [n \in {"negative"} |-> Negative]
\* (By way of a LET, so that TLC takes it for a value when it counts coverage.)
MCPrograms == LET all == Compilations IN all

\* What emitStructured pushes again where a block of the switch ends is the
\* value switched on (backend_wasm32.go:841, "The last DUP saved it to
\* tempLocal, so re-push"): the switch of f is on its parameter.
RepushIsDiscriminant ==
  Running /\ Instr.op = "TEMP_GET" => Top.temp = loadWord(h.mem, LocalAt(0))
=============================================================================
