--------------------------- MODULE MCRuntimeSlice ---------------------------
(* Instances of RuntimeSlice for TLC: two variables, so that one is read    *)
(* through while the other grows; arrays that grow once or twice.           *)
EXTENDS RuntimeSlice, TLC

CONSTANTS x, y

\* No statement tells one variable from another.
MCSymmetry == Permutations(Var)

\* Programs that cannot tell headers from values: with loops, with copies, and with
\* both but no windows; programs whose loops can tell, because they append to what
\* they range over; and programs that can.
MCKinds ==
  LET Values(grows, stmts) ==
        [own |-> TRUE, overlap |-> FALSE, grows |-> grows, arrays |-> 2, cap |-> 3,
         stmts |-> {"append", "spread", "set"} \cup stmts]
  IN  { Values(FALSE, {"reslice", "range"}), Values(FALSE, {"reslice", "copy"}),
        Values(FALSE, {"copy", "range"}), Values(TRUE, {"copy", "range"}),
        [own |-> FALSE, overlap |-> TRUE, grows |-> TRUE, arrays |-> 3, cap |-> 2,
         stmts |-> {"make", "append", "spread", "reslice"}] }

\* Programs that copy within one array.
MCOverlap ==
  { [own |-> TRUE, overlap |-> TRUE, grows |-> FALSE, arrays |-> 2, cap |-> 3,
     stmts |-> {"make", "copy", "reslice", "set"}] }
=============================================================================
