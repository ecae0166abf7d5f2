---------------------------- MODULE AbstractMap ----------------------------
(***************************************************************************)
(* What a Go map promises the program that uses it: a finite function from *)
(* keys to values.  A lookup of an absent key yields the zero value and    *)
(* FALSE; deleting an absent key does nothing.  RuntimeMap implements it   *)
(* by a table that is searched from the start.                             *)
(***************************************************************************)
CONSTANTS
  Key,      \* the keys a program can tell apart
  Val,      \* the values
  Zero,     \* the zero value a failed lookup yields
  Absent    \* not a value: the key is not in the map

VARIABLES
  map,      \* [Key -> Val \cup {Absent}]
  ret       \* what the last lookup returned: value and found

vars == <<map, ret>>

Init ==
  /\ map = [k \in Key |-> Absent]
  /\ ret = <<Zero, FALSE>>

Set(k, v) ==
  /\ map' = [map EXCEPT ![k] = v]
  /\ UNCHANGED ret

Delete(k) ==
  /\ map' = [map EXCEPT ![k] = Absent]
  /\ UNCHANGED ret

Get(k) ==
  /\ ret' = IF map[k] = Absent THEN <<Zero, FALSE>> ELSE <<map[k], TRUE>>
  /\ UNCHANGED map

Next ==
  \E k \in Key :
    \/ \E v \in Val : Set(k, v)
    \/ Delete(k)
    \/ Get(k)

Spec == Init /\ [][Next]_vars
=============================================================================
