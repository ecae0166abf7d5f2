----------------------------- MODULE MCX64Stack -----------------------------
(* Instances of X64Stack for TLC.  The operators are not commutative, so    *)
(* that operands in the wrong order show.                                   *)
EXTENDS X64Stack, TLC

MCAlu(op, c, a) ==
  (CASE op = "SUB" -> 2 * c + a
     [] op = "DIV" -> c + 2 * a + 1
     [] op = "SHR" -> 2 * c + a + 1
     [] OTHER -> c + a) % (MaxWord + 1)

MCUn(op, a) == (a + 1) % (MaxWord + 1)

\* A program of its main function and one with a parameter.
MCFuncs == {"main", "itoa"}
MCArity == "main" :> 0 @@ "itoa" :> 1
MCNone == [t \in {} |-> "main"]

\* Two types with a method of two arguments, one of them with String, too, and
\* boxes of all kinds; the ids 1 and 2 are those of int and string, whose
\* methods have no arguments.
MCFuncsIface == {"main", "itoa", "str", "m3", "m4"}
MCArityIface == MCArity @@ "str" :> 1 @@ "m3" :> 3 @@ "m4" :> 3
MCMethod == 1 :> "itoa" @@ 2 :> "itoa" @@ 3 :> "m3" @@ 4 :> "m4"
MCStringer == 3 :> "str"
=============================================================================
