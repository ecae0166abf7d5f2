----------------------------- MODULE MCLowering -----------------------------
(* The compiled program on the programs of LoweringPrograms.               *)
EXTENDS Compilation, StackMaps

P == INSTANCE LoweringPrograms
\* Bytes wrap around only in the VM, and only the VM stops a program that
\* is too deep; the operators are the same.
OnVM == {<<"bytes">>, <<"deep">>} \cup DOMAIN P!Arith \cup DOMAIN P!Bits
MCSources == P!AllPrograms
MCWasmNames == DOMAIN P!AllPrograms \ OnVM

\* The stack map of a function: one walk along its code, from what is known of
\* the places reached so far.
Reached(t, p, f) ==
  LET Step(m, k) ==
        LET new == IF k \notin DOMAIN m THEN {}
                   ELSE {s \in Successors(t, p, f, k, m[k]) : s.at \notin DOMAIN m}
        IN  [at \in {s.at : s \in new} |->
               LET s == CHOOSE s \in new : s.at = at IN [height |-> s.height, nest |-> s.nest]] @@ m
  IN  Fold(Step, [k \in {1} |-> [height |-> 0, nest |-> <<>>]],
           [k \in DOMAIN FuncsOf(t, p)[f].code |-> k])
Maps(p) ==
  [t \in {"vm"} \cup When(p.forWasm, {"wasm32"}) |->
     [f \in DOMAIN FuncsOf(t, p) |-> Reached(t, p, f)] @@ <<>>] @@ <<>>

WithMaps == [n \in DOMAIN Compilations |-> [maps |-> Maps(Compilations[n])] @@ Compilations[n]] @@ <<>>
\* (By way of a LET, so that TLC takes it for a value when it counts coverage.)
MCPrograms == LET all == WithMaps IN all
=============================================================================
