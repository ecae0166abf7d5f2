------------------------------- MODULE MCExec -------------------------------
(* Instances of Exec for TLC.                                               *)
EXTENDS Exec

\* Exit codes that do and do not fit a byte.
MCCodes == {0, 1, 256}
=============================================================================
