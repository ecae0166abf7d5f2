----------------------------- MODULE RuntimeMap -----------------------------
(***************************************************************************)
(* Maps of a compiled program: the table of std/runtime/runtime.go         *)
(* (MapMake, MapGet, MapSet, MapDelete, MapLen, MapEntryKey) together with *)
(* the code the compiler emits around it (std/compiler/ir.go): the         *)
(* assignment m[k] = v, which drops the header MapSet returns, and the     *)
(* range loop, which walks the table by index while its body may set and   *)
(* delete.  One map variable, one loop over it.                            *)
(*                                                                         *)
(* A key is a word.  For keyKind 1 it is a pointer to a string header; two *)
(* headers can hold the same text, and a string variable that was never    *)
(* assigned is the pointer 0 (ir.go compileVarDecl), NilStr here.          *)
(***************************************************************************)
EXTENDS Integers, FiniteSets

CONSTANTS
  Word,       \* the words the program uses as keys
  NilStr,     \* the word 0
  Text,       \* Text[w]: the text of the string whose header is at w
  EmptyText,  \* the text of length 0
  keyKind,    \* 0: the word is the key, 1: the word points to a string
  Val,        \* the values stored
  Zero,       \* the word 0 as a value
  Absent,     \* marks a key that is in no entry
  InitCap,    \* slots of a new table (8 in the code)
  MaxGone     \* bound: deletions of visited keys in one loop

ASSUME MapAssumption ==
  /\ keyKind \in {0, 1}
  /\ NilStr \notin DOMAIN Text
  /\ Word \subseteq DOMAIN Text \cup {NilStr}
  /\ NilStr \notin { Text[w] : w \in DOMAIN Text }
  /\ Absent \notin Val
  /\ InitCap \in Nat \ {0}
  /\ MaxGone \in Nat

VARIABLES
  made,     \* FALSE while the variable holds the nil map
  data,     \* the table: [0..cap-1 -> Entry]
  mlen,     \* entries in use
  cap,      \* slots
  ret,      \* what the last lookup returned: value and found
  looping,  \* a range loop over the map is running
  idx,      \* $idx, the loop's index
  seen,     \* keys the loop has produced
  stay,     \* keys in the map since the loop began
  gone      \* how many keys the loop had produced were deleted since

table == <<made, data, mlen, cap>>
range == <<looping, idx, seen, stay, gone>>
vars == <<table, ret, range>>

Entry == [key : Word \cup {NilStr}, val : Val \cup {Zero}]
NoEntry == [key |-> NilStr, val |-> Zero]

-----------------------------------------------------------------------------
mapStrEqual(a, b) ==
  \/ a = b
  \/ a # NilStr /\ b # NilStr /\ Text[a] = Text[b]

SameKey(a, b) == IF keyKind = 1 THEN mapStrEqual(a, b) ELSE a = b

\* The key a word stands for: the words SameKey equates have the same one.
KeyOf(w) == IF keyKind = 1 /\ w # NilStr THEN Text[w] ELSE w
Keys == { KeyOf(w) : w \in Word }

\* Mistake: the search leaves out the last entry.
MutHits(k) == { i \in 0..mlen-2 : SameKey(data[i].key, k) }

Hits(k) == { i \in 0..mlen-1 : SameKey(data[i].key, k) }
Found(k) == Hits(k) # {}

\* The slot at which a search from slot 0 stops.
Slot(k) == CHOOSE i \in Hits(k) : \A j \in Hits(k) : i <= j

-----------------------------------------------------------------------------
Init ==
  /\ made = FALSE
  /\ data = [i \in {} |-> NoEntry]
  /\ mlen = 0
  /\ cap = 0
  /\ ret = <<Zero, FALSE>>
  /\ looping = FALSE
  /\ idx = 0
  /\ seen = {}
  /\ stay = {}
  /\ gone = 0

\* m = make(map[K]V), once: the variable is not assigned again.
MapMake ==
  /\ ~made
  /\ ~looping
  /\ made' = TRUE
  /\ data' = [i \in 0..InitCap-1 |-> NoEntry]
  /\ mlen' = 0
  /\ cap' = InitCap
  /\ UNCHANGED <<ret, range>>

\* m[k] = v on the nil map: MapSet fills a new table, the assignment drops the
\* header it returns, and nothing is left of the statement (Go panics).
MapSetNil(k, v) ==
  /\ ~made
  /\ UNCHANGED <<table, ret, range>>

MapSetUpdate(k, v) ==
  /\ made
  /\ Found(k)
  /\ data' = [data EXCEPT ![Slot(k)].val = v]
  /\ UNCHANGED <<made, mlen, cap, ret, range>>

\* Mistake: the last entry is left behind when the table grows.
MutGrown == [i \in 0..2*cap-1 |-> IF i < mlen - 1 THEN data[i] ELSE NoEntry]

\* Mistake: a full table is taken to have room.
MutFull == mlen > cap

Full == mlen >= cap

\* The table after a growth: twice the slots, the entries copied.
Grown == [i \in 0..2*cap-1 |-> IF i < mlen THEN data[i] ELSE NoEntry]

MapSetAppend(k, v) ==
  /\ made
  /\ ~Found(k)
  /\ LET room == IF Full THEN Grown ELSE data
     IN  data' = [room EXCEPT ![mlen] = [key |-> k, val |-> v]]
  /\ cap' = IF Full THEN 2 * cap ELSE cap
  /\ mlen' = mlen + 1
  /\ UNCHANGED <<made, ret, range>>

\* Mistake: the last entry is dropped and never moved.
MutWithout(i) == data

\* The table after the entry in slot i is gone: the last entry takes its slot.
Without(i) == IF i < mlen - 1 THEN [data EXCEPT ![i] = data[mlen-1]] ELSE data

\* delete(m, k).  gone counts the deletions of a key the running loop produced.
MapDelete(k) ==
  LET visited == looping /\ KeyOf(k) \in seen
  IN  /\ visited => gone < MaxGone
      /\ IF Found(k)
         THEN /\ data' = Without(Slot(k))
              /\ mlen' = mlen - 1
              /\ gone' = IF visited THEN gone + 1 ELSE gone
         ELSE UNCHANGED <<data, mlen, gone>>
      /\ stay' = stay \ {KeyOf(k)}
      /\ UNCHANGED <<made, cap, ret, looping, idx, seen>>

\* v, ok := m[k]
MapGet(k) ==
  /\ ret' = IF Found(k) THEN <<data[Slot(k)].val, TRUE>> ELSE <<Zero, FALSE>>
  /\ UNCHANGED <<table, range>>

MapLen == mlen

\* Mistake: off by one.
MutMapEntryKey(i) == data[IF i = 0 THEN 0 ELSE i - 1].key

MapEntryKey(i) == data[i].key

RangeStart ==
  /\ ~looping
  /\ looping' = TRUE
  /\ stay' = { KeyOf(data[i].key) : i \in 0..mlen-1 }
  /\ UNCHANGED <<table, ret, idx, seen, gone>>

\* One iteration begins: the condition holds, the loop variable gets the key,
\* and the body (sets, deletes and lookups in between) runs before the next.
RangeNext ==
  /\ looping
  /\ idx < MapLen
  /\ seen' = seen \cup {KeyOf(MapEntryKey(idx))}
  /\ idx' = idx + 1
  /\ UNCHANGED <<table, ret, looping, stay, gone>>

RangeEnd ==
  /\ looping
  /\ idx >= MapLen
  /\ looping' = FALSE
  /\ idx' = 0
  /\ seen' = {}
  /\ stay' = {}
  /\ gone' = 0
  /\ UNCHANGED <<table, ret>>

Next ==
  \/ MapMake
  \/ \E k \in Word, v \in Val :
       MapSetNil(k, v) \/ MapSetUpdate(k, v) \/ MapSetAppend(k, v)
  \/ \E k \in Word : MapDelete(k) \/ MapGet(k)
  \/ RangeStart
  \/ RangeNext
  \/ RangeEnd

Spec == Init /\ [][Next]_vars

-----------------------------------------------------------------------------
TypeOK ==
  /\ made \in BOOLEAN
  /\ cap \in Nat
  /\ mlen \in 0..cap
  /\ data \in [0..cap-1 -> Entry]
  /\ \A i \in 0..mlen-1 : data[i].key \in Word /\ data[i].val \in Val
  /\ made => cap > 0
  /\ ~made => mlen = 0
  /\ ret \in (Val \cup {Zero}) \X BOOLEAN
  /\ looping \in BOOLEAN
  /\ idx \in Nat
  /\ gone \in Nat

\* A key has one entry at most, through updates, growth and the moves a
\* deletion makes.
KeysUnique ==
  \A i, j \in 0..mlen-1 : SameKey(data[i].key, data[j].key) => i = j

\* The map a program sees in the table.
AbsMap ==
  [c \in Keys |->
     LET at == { i \in 0..mlen-1 : KeyOf(data[i].key) = c }
     IN  IF at = {} THEN Absent ELSE data[CHOOSE i \in at : TRUE].val]

Abstract == INSTANCE AbstractMap WITH Key <- Keys, map <- AbsMap

\* The table, with its header dropped after every assignment, behaves as a map.
ImplementsMap == Abstract!Spec

\* The text of a string key, as len and == see it: that of the word 0 is empty.
TextOf(w) == IF w = NilStr THEN EmptyText ELSE Text[w]

\* Two entries never have the same text ("compares two string header pointers
\* by content", runtime.go:406).
TextsUnique ==
  keyKind = 1 =>
    \A i, j \in 0..mlen-1 : TextOf(data[i].key) = TextOf(data[j].key) => i = j

\* A loop whose body deletes produces no key twice, unless the key was deleted
\* and set again.
RangeProducesOnce ==
  [][RangeNext => KeyOf(MapEntryKey(idx)) \notin seen \cap stay]_vars

\* Keys in the map since the loop began that it will not reach any more.
Missed ==
  { c \in stay \ seen : \A i \in idx..mlen-1 : KeyOf(data[i].key) # c }

\* A loop misses such a key only because the body deleted a key already
\* produced: at most one per deletion.  In particular deleting keys that are
\* still ahead, or setting keys, never makes it miss one.
RangeMissesOnlyForDeleted == looping => Cardinality(Missed) <= gone
=============================================================================
