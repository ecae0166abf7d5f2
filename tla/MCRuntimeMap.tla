---------------------------- MODULE MCRuntimeMap ----------------------------
(* Instances of RuntimeMap for TLC: four words, of which two are headers of *)
(* the same text, so that a table of two slots grows twice.                 *)
EXTENDS RuntimeMap, TLC

CONSTANTS w1, w2, w3, w4, t1, t2, t3

MCText == w1 :> t1 @@ w2 :> t1 @@ w3 :> t2 @@ w4 :> t3
MCWord == {w1, w2, w3, w4}
MCWordFew == {w1, w2, w3}

\* For the nil string: w4 is the header of a string of length 0.
MCEmptyText == t3
MCWordNil == {w1, w4, NilStr}
=============================================================================
