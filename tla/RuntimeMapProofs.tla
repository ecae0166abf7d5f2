-------------------------- MODULE RuntimeMapProofs --------------------------
(***************************************************************************)
(* Proofs about RuntimeMap: a key has one entry at most, and the table     *)
(* implements a map, for all sets of words and values and all capacities.  *)
(***************************************************************************)
EXTENDS RuntimeMap, FiniteSetTheorems, TLAPS

\* The inductive invariant: the type and the uniqueness of keys.  Neither is
\* inductive without the other: where a search stops matters to both.
MapInv == TypeOK /\ KeysUnique

\* The words a program can hold.
AnyWord == Word \cup {NilStr}

\* Two words are the same key exactly when they stand for the same one.
LEMMA SameKeyIsKeyOf ==
  ASSUME NEW a \in AnyWord, NEW b \in AnyWord
  PROVE  SameKey(a, b) <=> KeyOf(a) = KeyOf(b)
<1>1. CASE keyKind # 1
  BY <1>1 DEF SameKey, KeyOf
<1>2. CASE keyKind = 1
  <2>1. \A w \in AnyWord : w # NilStr => w \in DOMAIN Text /\ Text[w] # NilStr
    BY MapAssumption DEF MapAssumption, AnyWord
  <2>. QED BY <1>2, <2>1 DEF SameKey, KeyOf, mapStrEqual
<1>. QED BY <1>1, <1>2

\* The search for a key stops at its only entry.
LEMMA SlotFacts ==
  ASSUME MapInv, NEW k \in Word, Found(k)
  PROVE  /\ Slot(k) \in 0..mlen-1
         /\ KeyOf(data[Slot(k)].key) = KeyOf(k)
         /\ \A j \in 0..mlen-1 : KeyOf(data[j].key) = KeyOf(k) => j = Slot(k)
<1>1. \A i \in 0..mlen-1 : data[i].key \in Word
  BY DEF MapInv, TypeOK
<1>2. \A i \in 0..mlen-1 : i \in Hits(k) <=> KeyOf(data[i].key) = KeyOf(k)
  BY <1>1, SameKeyIsKeyOf DEF Hits, AnyWord
<1>3. \A i, j \in Hits(k) : i = j
  <2>1. \A i, j \in 0..mlen-1 :
          KeyOf(data[i].key) = KeyOf(data[j].key) => i = j
    BY <1>1, SameKeyIsKeyOf DEF MapInv, KeysUnique, AnyWord
  <2>. QED BY <1>2, <2>1 DEF Hits
<1>4. PICK i \in Hits(k) : TRUE
  BY DEF Found
<1>5. mlen \in Int
  BY DEF MapInv, TypeOK
<1>6. i <= i
  BY <1>4, <1>5 DEF Hits
<1>7. Slot(k) \in Hits(k)
  BY <1>3, <1>4, <1>6 DEF Slot
<1>. QED BY <1>2, <1>3, <1>7 DEF Hits

\* Writing the value of an entry leaves the keys alone.
LEMMA UpdateInv ==
  ASSUME MapInv, NEW k \in Word, NEW v \in Val, MapSetUpdate(k, v)
  PROVE  MapInv'
<1>1. Slot(k) \in 0..mlen-1
  BY SlotFacts DEF MapSetUpdate
<1>2. /\ data' \in [0..cap-1 -> Entry]
      /\ \A i \in 0..mlen-1 : data'[i].key = data[i].key
      /\ \A i \in 0..mlen-1 : data'[i].val \in Val
  BY <1>1 DEF MapInv, TypeOK, MapSetUpdate, Entry
<1>. QED
  BY <1>2 DEF MapInv, TypeOK, KeysUnique, SameKey, mapStrEqual, MapSetUpdate, range

\* The table, grown when it is full, holds the old entries and has room for one.
LEMMA RoomFacts ==
  ASSUME MapInv, made,
         NEW room, room = IF Full THEN Grown ELSE data,
         NEW size, size = IF Full THEN 2 * cap ELSE cap
  PROVE  /\ size \in Nat \ {0}
         /\ room \in [0..size-1 -> Entry]
         /\ mlen < size
         /\ \A i \in 0..mlen-1 : room[i] = data[i]
<1>. USE DEF MapInv, TypeOK
<1>1. CASE Full
  <2>1. mlen = cap /\ cap > 0
    BY <1>1 DEF Full
  <2>2. NoEntry \in Entry
    BY DEF NoEntry, Entry
  <2>. QED BY <1>1, <2>1, <2>2 DEF Grown
<1>2. CASE ~Full
  BY <1>2 DEF Full
<1>. QED BY <1>1, <1>2

\* Appending the entry of a key not in the table.
LEMMA AppendInv ==
  ASSUME MapInv, NEW k \in Word, NEW v \in Val, MapSetAppend(k, v)
  PROVE  /\ MapInv'
         /\ \A i \in 0..mlen-1 : data'[i] = data[i]
         /\ data'[mlen] = [key |-> k, val |-> v]
         /\ \A i \in 0..mlen-1 : KeyOf(data[i].key) # KeyOf(k)
<1>. DEFINE room == IF Full THEN Grown ELSE data
            size == IF Full THEN 2 * cap ELSE cap
<1>1. made /\ cap' = size /\ mlen' = mlen + 1 /\ mlen \in Nat
  BY DEF MapSetAppend, MapInv, TypeOK
<1>2. data' = [room EXCEPT ![mlen] = [key |-> k, val |-> v]]
  BY DEF MapSetAppend
<1>3. /\ size \in Nat \ {0}
      /\ room \in [0..size-1 -> Entry]
      /\ mlen < size
      /\ \A i \in 0..mlen-1 : room[i] = data[i]
  BY <1>1, RoomFacts
<1>4. [key |-> k, val |-> v] \in Entry
  BY DEF Entry
<1>. HIDE DEF room, size
<1>5. /\ data' \in [0..size-1 -> Entry]
      /\ \A i \in 0..mlen-1 : data'[i] = data[i]
      /\ data'[mlen] = [key |-> k, val |-> v]
  BY <1>1, <1>2, <1>3, <1>4
<1>6. \A i \in 0..mlen-1 : data[i].key \in Word /\ data[i].val \in Val
  BY DEF MapInv, TypeOK
<1>7. \A i \in 0..mlen-1 : KeyOf(data[i].key) # KeyOf(k)
  BY <1>6, SameKeyIsKeyOf DEF MapSetAppend, Found, Hits, AnyWord
<1>8. \A i \in 0..mlen'-1 : data'[i].key \in Word /\ data'[i].val \in Val
  BY <1>1, <1>5, <1>6
<1>9. TypeOK'
  <2>1. UNCHANGED <<made, ret, looping, idx, gone>>
    BY DEF MapSetAppend, range
  <2>2. /\ cap' \in Nat /\ cap' > 0 /\ mlen' \in 0..cap'
        /\ data' \in [0..cap'-1 -> Entry]
    BY <1>1, <1>3, <1>5
  <2>. QED BY <1>1, <1>8, <2>1, <2>2 DEF MapInv, TypeOK, Entry
<1>10. \A i, j \in 0..mlen'-1 :
         KeyOf(data'[i].key) = KeyOf(data'[j].key) => i = j
  <2>1. \A i, j \in 0..mlen-1 :
          KeyOf(data[i].key) = KeyOf(data[j].key) => i = j
    BY <1>6, SameKeyIsKeyOf DEF MapInv, KeysUnique, AnyWord
  <2>2. \A i \in 0..mlen'-1 : i = mlen \/ i \in 0..mlen-1
    BY <1>1
  <2>3. data'[mlen].key = k
    BY <1>5
  <2>. QED BY <1>5, <1>7, <2>1, <2>2, <2>3
<1>11. \A i, j \in 0..mlen'-1 :
         SameKey(data'[i].key, data'[j].key)
           => KeyOf(data'[i].key) = KeyOf(data'[j].key)
  BY <1>8, SameKeyIsKeyOf DEF AnyWord
<1>12. KeysUnique'
  BY <1>10, <1>11 DEF KeysUnique, SameKey, mapStrEqual
<1>. QED BY <1>5, <1>7, <1>9, <1>12 DEF MapInv

\* Deleting: the last entry, which has another key, takes the slot.
LEMMA WithoutFacts ==
  ASSUME MapInv, NEW k \in Word, Found(k)
  PROVE  /\ Without(Slot(k)) \in [0..cap-1 -> Entry]
         /\ \A i \in 0..mlen-2 :
              /\ i # Slot(k) => Without(Slot(k))[i] = data[i]
              /\ i = Slot(k) => Without(Slot(k))[i] = data[mlen-1]
<1>1. Slot(k) \in 0..mlen-1
  BY SlotFacts
<1>2. mlen-1 \in 0..cap-1 /\ data \in [0..cap-1 -> Entry] /\ mlen \in Nat /\ cap \in Nat
  BY <1>1 DEF MapInv, TypeOK
<1>. QED BY <1>1, <1>2 DEF Without

LEMMA DeleteInv ==
  ASSUME MapInv, NEW k \in Word, MapDelete(k)
  PROVE  MapInv'
<1>1. CASE ~Found(k)
  <2>1. UNCHANGED <<made, data, mlen, cap, ret, looping, idx, gone>>
    BY <1>1 DEF MapDelete
  <2>. QED BY <2>1 DEF MapInv, TypeOK, KeysUnique, SameKey, mapStrEqual
<1>2. CASE Found(k)
  <2>. DEFINE s == Slot(k)
  <2>1. s \in 0..mlen-1 /\ mlen \in Nat /\ cap \in Nat /\ mlen <= cap
    BY <1>2, SlotFacts DEF MapInv, TypeOK
  <2>2. /\ UNCHANGED <<made, cap, ret, looping, idx>>
        /\ data' = Without(s)
        /\ mlen' = mlen - 1
        /\ gone' \in Nat
    BY <1>2 DEF MapDelete, MapInv, TypeOK
  <2>3. /\ data' \in [0..cap-1 -> Entry]
        /\ \A i \in 0..mlen-2 :
             /\ i # s => data'[i] = data[i]
             /\ i = s => data'[i] = data[mlen-1]
    BY <1>2, <2>2, WithoutFacts
  <2>4. \A i \in 0..mlen-1 : data[i].key \in Word /\ data[i].val \in Val
    BY DEF MapInv, TypeOK
  <2>5. \A i, j \in 0..mlen-1 :
          KeyOf(data[i].key) = KeyOf(data[j].key) => i = j
    BY <2>4, SameKeyIsKeyOf DEF MapInv, KeysUnique, AnyWord
  <2>. HIDE DEF s
  <2>6. \A i \in 0..mlen'-1 : data'[i].key \in Word /\ data'[i].val \in Val
    BY <2>1, <2>2, <2>3, <2>4
  <2>7. TypeOK'
    <3>1. mlen' \in 0..cap' /\ data' \in [0..cap'-1 -> Entry] /\ cap' \in Nat
      BY <2>1, <2>2, <2>3
    <3>2. made => cap > 0
      BY DEF MapInv, TypeOK
    <3>3. made
      BY <2>1 DEF MapInv, TypeOK
    <3>4. /\ made' \in BOOLEAN /\ looping' \in BOOLEAN /\ idx' \in Nat
          /\ ret' \in (Val \cup {Zero}) \X BOOLEAN
      BY <2>2 DEF MapInv, TypeOK
    <3>5. made' /\ cap' > 0
      BY <2>2, <3>2, <3>3
    <3>. QED BY <2>2, <2>6, <3>1, <3>4, <3>5 DEF TypeOK, Entry
  <2>8. \A i, j \in 0..mlen'-1 :
          KeyOf(data'[i].key) = KeyOf(data'[j].key) => i = j
    BY <2>1, <2>2, <2>3, <2>5
  <2>9. KeysUnique'
    <3>1. \A i, j \in 0..mlen'-1 :
            SameKey(data'[i].key, data'[j].key)
              => KeyOf(data'[i].key) = KeyOf(data'[j].key)
      BY <2>6, SameKeyIsKeyOf DEF AnyWord
    <3>. QED BY <2>8, <3>1 DEF KeysUnique, SameKey, mapStrEqual
  <2>. QED BY <2>7, <2>9 DEF MapInv
<1>. QED BY <1>1, <1>2

\* What a step of the loop, of a lookup or of a lost assignment leaves alone.
LEMMA FrameInv ==
  ASSUME MapInv, UNCHANGED table,
         ret' \in (Val \cup {Zero}) \X BOOLEAN,
         looping' \in BOOLEAN, idx' \in Nat, gone' \in Nat
  PROVE  MapInv'
BY DEF MapInv, TypeOK, KeysUnique, SameKey, mapStrEqual, table, Entry

\* A lookup returns a stored value and TRUE, or the zero value and FALSE.
LEMMA GetReturns ==
  ASSUME MapInv, NEW k \in Word, MapGet(k)
  PROVE  ret' \in (Val \cup {Zero}) \X BOOLEAN
<1>1. CASE Found(k)
  <2>1. data[Slot(k)].val \in Val
    BY <1>1, SlotFacts DEF MapInv, TypeOK
  <2>. QED BY <1>1, <2>1 DEF MapGet
<1>2. CASE ~Found(k)
  BY <1>2 DEF MapGet
<1>. QED BY <1>1, <1>2

\* The type and the uniqueness of keys hold in every reachable state.
THEOREM MapInvariant == Spec => [](TypeOK /\ KeysUnique)
<1>1. Init => MapInv
  <2>. SUFFICES ASSUME Init PROVE MapInv
    OBVIOUS
  <2>1. 0..cap-1 = {} /\ 0..mlen-1 = {}
    BY DEF Init
  <2>2. data \in [0..cap-1 -> Entry]
    BY <2>1 DEF Init
  <2>3. KeysUnique
    BY <2>1 DEF KeysUnique
  <2>4. ret \in (Val \cup {Zero}) \X BOOLEAN
    BY DEF Init
  <2>5. mlen \in 0..cap /\ cap \in Nat
    BY DEF Init
  <2>6. \A i \in 0..mlen-1 : data[i].key \in Word /\ data[i].val \in Val
    BY <2>1
  <2>7. /\ made \in BOOLEAN /\ ~made /\ mlen = 0
        /\ looping \in BOOLEAN /\ idx \in Nat /\ gone \in Nat
    BY DEF Init
  <2>. QED BY <2>2, <2>3, <2>4, <2>5, <2>6, <2>7 DEF MapInv, TypeOK
<1>2. MapInv /\ [Next]_vars => MapInv'
  <2>. SUFFICES ASSUME MapInv, [Next]_vars PROVE MapInv'
    OBVIOUS
  <2>1. CASE MapMake
    <3>1. InitCap \in Nat /\ InitCap > 0
      BY MapAssumption DEF MapAssumption
    <3>2. NoEntry \in Entry
      BY DEF NoEntry, Entry
    <3>3. /\ made' /\ cap' = InitCap /\ mlen' = 0
          /\ data' = [i \in 0..InitCap-1 |-> NoEntry]
          /\ UNCHANGED <<ret, looping, idx, gone>>
      BY <2>1 DEF MapMake, range
    <3>4. data' \in [0..cap'-1 -> Entry]
      BY <3>2, <3>3
    <3>5. 0..mlen'-1 = {}
      BY <3>3
    <3>6. KeysUnique'
      BY <3>5 DEF KeysUnique
    <3>7. TypeOK'
      BY <3>1, <3>3, <3>4, <3>5 DEF TypeOK, MapInv, Entry
    <3>. QED BY <3>6, <3>7 DEF MapInv
  <2>2. ASSUME NEW k \in Word, NEW v \in Val, MapSetNil(k, v)
        PROVE  MapInv'
    BY <2>2, FrameInv DEF MapSetNil, range, MapInv, TypeOK
  <2>3. ASSUME NEW k \in Word, NEW v \in Val, MapSetUpdate(k, v)
        PROVE  MapInv'
    BY <2>3, UpdateInv
  <2>4. ASSUME NEW k \in Word, NEW v \in Val, MapSetAppend(k, v)
        PROVE  MapInv'
    BY <2>4, AppendInv
  <2>5. ASSUME NEW k \in Word, MapDelete(k)
        PROVE  MapInv'
    BY <2>5, DeleteInv
  <2>6. ASSUME NEW k \in Word, MapGet(k)
        PROVE  MapInv'
    <3>1. UNCHANGED table /\ looping' \in BOOLEAN /\ idx' \in Nat /\ gone' \in Nat
      BY <2>6 DEF MapGet, range, MapInv, TypeOK
    <3>. QED BY <2>6, <3>1, GetReturns, FrameInv
  <2>7. CASE RangeStart
    <3>1. /\ UNCHANGED table /\ looping' \in BOOLEAN /\ idx' \in Nat /\ gone' \in Nat
          /\ ret' \in (Val \cup {Zero}) \X BOOLEAN
      BY <2>7 DEF RangeStart, MapInv, TypeOK
    <3>. QED BY <3>1, FrameInv
  <2>8. CASE RangeNext
    <3>1. /\ UNCHANGED table /\ looping' \in BOOLEAN /\ idx' \in Nat /\ gone' \in Nat
          /\ ret' \in (Val \cup {Zero}) \X BOOLEAN
      BY <2>8 DEF RangeNext, MapInv, TypeOK
    <3>. QED BY <3>1, FrameInv
  <2>9. CASE RangeEnd
    <3>1. /\ UNCHANGED table /\ looping' \in BOOLEAN /\ idx' \in Nat /\ gone' \in Nat
          /\ ret' \in (Val \cup {Zero}) \X BOOLEAN
      BY <2>9 DEF RangeEnd, MapInv, TypeOK
    <3>. QED BY <3>1, FrameInv
  <2>10. CASE UNCHANGED vars
    BY <2>10, FrameInv DEF vars, range, MapInv, TypeOK
  <2>. QED
    BY <2>1, <2>2, <2>3, <2>4, <2>5, <2>6, <2>7, <2>8, <2>9, <2>10 DEF Next
<1>. QED BY <1>1, <1>2, PTL DEF Spec, MapInv

\* The table stays well formed: as many slots as cap says, an entry of the
\* program's words in each of the first mlen.
THEOREM MapTypeCorrect == Spec => []TypeOK
BY MapInvariant, PTL

-----------------------------------------------------------------------------
\* What the map seen in the table holds, entry by entry.
AbsReads ==
  /\ DOMAIN AbsMap = Keys
  /\ \A i \in 0..mlen-1 :
       /\ KeyOf(data[i].key) \in Keys
       /\ AbsMap[KeyOf(data[i].key)] = data[i].val
  /\ \A c \in Keys :
       (\A i \in 0..mlen-1 : KeyOf(data[i].key) # c) => AbsMap[c] = Absent

LEMMA AbsReadsHolds == MapInv => AbsReads
<1>. SUFFICES ASSUME MapInv PROVE AbsReads
  OBVIOUS
<1>1. \A i \in 0..mlen-1 : data[i].key \in Word
  BY DEF MapInv, TypeOK
<1>2. \A i, j \in 0..mlen-1 : KeyOf(data[i].key) = KeyOf(data[j].key) => i = j
  BY <1>1, SameKeyIsKeyOf DEF MapInv, KeysUnique, AnyWord
<1>3. ASSUME NEW i \in 0..mlen-1
      PROVE  /\ KeyOf(data[i].key) \in Keys
             /\ AbsMap[KeyOf(data[i].key)] = data[i].val
  <2>. DEFINE at == { j \in 0..mlen-1 : KeyOf(data[j].key) = KeyOf(data[i].key) }
  <2>1. at = {i}
    BY <1>2
  <2>2. (CHOOSE j \in at : TRUE) = i
    BY <2>1
  <2>3. KeyOf(data[i].key) \in Keys
    BY <1>1 DEF Keys
  <2>. HIDE DEF at
  <2>4. AbsMap[KeyOf(data[i].key)] =
          IF at = {} THEN Absent ELSE data[CHOOSE j \in at : TRUE].val
    BY <2>3 DEF AbsMap, at
  <2>. QED BY <2>1, <2>2, <2>3, <2>4
<1>4. ASSUME NEW c \in Keys, \A i \in 0..mlen-1 : KeyOf(data[i].key) # c
      PROVE  AbsMap[c] = Absent
  BY <1>4 DEF AbsMap
<1>5. DOMAIN AbsMap = Keys
  BY DEF AbsMap
<1>. QED BY <1>3, <1>4, <1>5 DEF AbsReads

\* A stored value is never the mark of an absent key, so a key is in the map
\* exactly when a search finds it.
LEMMA GetMaps ==
  ASSUME MapInv, NEW k \in Word, MapGet(k)
  PROVE  Abstract!Get(KeyOf(k))
<1>1. \A i \in 0..mlen-1 : data[i].key \in Word /\ data[i].val \in Val
  BY DEF MapInv, TypeOK
<1>2. KeyOf(k) \in Keys
  BY DEF Keys
<1>3. UNCHANGED <<data, mlen>>
  BY DEF MapGet, table
<1>4. AbsMap' = AbsMap
  BY <1>3 DEF AbsMap
<1>5. CASE Found(k)
  <2>1. AbsMap[KeyOf(k)] = data[Slot(k)].val /\ data[Slot(k)].val \in Val
    BY <1>1, <1>5, SlotFacts, AbsReadsHolds DEF AbsReads
  <2>2. AbsMap[KeyOf(k)] # Absent
    BY <2>1, MapAssumption DEF MapAssumption
  <2>. QED BY <1>4, <1>5, <2>1, <2>2 DEF Abstract!Get, MapGet
<1>6. CASE ~Found(k)
  <2>1. \A i \in 0..mlen-1 : KeyOf(data[i].key) # KeyOf(k)
    BY <1>1, <1>6, SameKeyIsKeyOf DEF Found, Hits, AnyWord
  <2>2. AbsMap[KeyOf(k)] = Absent
    BY <1>2, <2>1, AbsReadsHolds DEF AbsReads
  <2>. QED BY <1>4, <1>6, <2>2 DEF Abstract!Get, MapGet
<1>. QED BY <1>5, <1>6

\* Two maps over the same keys that agree on every key are equal.
LEMMA MapEq ==
  ASSUME NEW v, NEW e \in Keys,
         DOMAIN AbsMap = Keys, (DOMAIN AbsMap)' = Keys,
         AbsMap'[e] = v,
         \A c \in Keys : c # e => AbsMap'[c] = AbsMap[c]
  PROVE  AbsMap' = [AbsMap EXCEPT ![e] = v]
<1>1. AbsMap = [c \in Keys |-> AbsMap[c]]
  BY DEF AbsMap
<1>2. AbsMap' = [c \in Keys |-> AbsMap'[c]]
  BY DEF AbsMap
<1>. QED BY <1>1, <1>2

\* An assignment to a made map changes the map seen at its key alone.
LEMMA SetMaps ==
  ASSUME MapInv, MapInv', NEW k \in Word, NEW v \in Val,
         MapSetUpdate(k, v) \/ MapSetAppend(k, v),
         AbsReads, AbsReads'
  PROVE  Abstract!Set(KeyOf(k), v)
<1>1. KeyOf(k) \in Keys
  BY DEF Keys
<1>. DEFINE s == IF MapSetUpdate(k, v) THEN Slot(k) ELSE mlen
<1>2. /\ mlen \in Nat /\ mlen' \in Nat
      /\ s \in 0..mlen'-1
      /\ KeyOf(data'[s].key) = KeyOf(k)
      /\ data'[s].val = v
      /\ \A i \in 0..mlen-1 : KeyOf(data[i].key) # KeyOf(k)
           => i \in 0..mlen'-1 /\ data'[i] = data[i]
      /\ \A i \in 0..mlen'-1 : i # s => i \in 0..mlen-1 /\ data'[i] = data[i]
  <2>1. CASE MapSetUpdate(k, v)
    <3>1. Slot(k) \in 0..mlen-1 /\ KeyOf(data[Slot(k)].key) = KeyOf(k)
      BY <2>1, SlotFacts DEF MapSetUpdate
    <3>2. /\ mlen' = mlen /\ mlen \in Nat /\ mlen <= cap /\ cap \in Nat
          /\ data \in [0..cap-1 -> Entry]
          /\ data' = [data EXCEPT ![Slot(k)].val = v]
      BY <2>1 DEF MapSetUpdate, MapInv, TypeOK
    <3>3. Slot(k) \in 0..cap-1
      BY <3>1, <3>2
    <3>4. data'[Slot(k)].key = data[Slot(k)].key /\ data'[Slot(k)].val = v
      BY <3>2, <3>3 DEF Entry
    <3>5. \A i \in 0..mlen-1 : i # Slot(k) => data'[i] = data[i]
      BY <3>2
    <3>. QED BY <2>1, <3>1, <3>2, <3>4, <3>5
  <2>2. CASE ~MapSetUpdate(k, v)
    <3>1. MapSetAppend(k, v)
      BY <2>2
    <3>2. mlen' = mlen + 1 /\ mlen \in Nat
      BY <3>1 DEF MapSetAppend, MapInv, TypeOK
    <3>3. /\ \A i \in 0..mlen-1 : data'[i] = data[i]
          /\ data'[mlen] = [key |-> k, val |-> v]
      BY <3>1, AppendInv
    <3>4. s = mlen
      BY <2>2
    <3>5. KeyOf(data'[s].key) = KeyOf(k) /\ data'[s].val = v
      BY <3>3, <3>4
    <3>. HIDE DEF s
    <3>. QED BY <3>2, <3>3, <3>4, <3>5
  <2>. QED BY <2>1, <2>2
<1>. HIDE DEF s
<1>3. AbsMap'[KeyOf(k)] = v
  <2>1. \A i \in 0..mlen'-1 : AbsMap'[KeyOf(data'[i].key)] = data'[i].val
    BY DEF AbsReads, KeyOf
  <2>. QED BY <1>2, <2>1
<1>4. ASSUME NEW c \in Keys, c # KeyOf(k)
      PROVE  AbsMap'[c] = AbsMap[c]
  <2>0. /\ \A i \in 0..mlen'-1 : AbsMap'[KeyOf(data'[i].key)] = data'[i].val
        /\ (\A i \in 0..mlen'-1 : KeyOf(data'[i].key) # c) => AbsMap'[c] = Absent
    BY DEF AbsReads, KeyOf
  <2>1. CASE \E i \in 0..mlen-1 : KeyOf(data[i].key) = c
    <3>1. PICK i \in 0..mlen-1 : KeyOf(data[i].key) = c
      BY <2>1
    <3>2. AbsMap[c] = data[i].val
      BY <3>1 DEF AbsReads
    <3>3. i \in 0..mlen'-1 /\ data'[i] = data[i]
      BY <1>2, <1>4, <3>1
    <3>. QED BY <2>0, <3>1, <3>2, <3>3
  <2>2. CASE ~\E i \in 0..mlen-1 : KeyOf(data[i].key) = c
    <3>1. AbsMap[c] = Absent
      BY <2>2 DEF AbsReads
    <3>2. \A i \in 0..mlen'-1 : KeyOf(data'[i].key) # c
      BY <1>2, <1>4, <2>2
    <3>. QED BY <2>0, <3>1, <3>2
  <2>. QED BY <2>1, <2>2
<1>5. AbsMap' = [AbsMap EXCEPT ![KeyOf(k)] = v]
  <2>1. DOMAIN AbsMap = Keys /\ (DOMAIN AbsMap)' = Keys
    BY DEF AbsReads
  <2>. QED BY <1>1, <1>3, <1>4, <2>1, MapEq
<1>6. ret' = ret
  BY DEF MapSetUpdate, MapSetAppend
<1>. QED BY <1>5, <1>6 DEF Abstract!Set

\* A deletion takes its key out of the map seen, and no other.
LEMMA DeleteMaps ==
  ASSUME MapInv, NEW k \in Word, MapDelete(k), AbsReads, AbsReads'
  PROVE  Abstract!Delete(KeyOf(k))
<1>1. KeyOf(k) \in Keys
  BY DEF Keys
<1>2. ret' = ret
  BY DEF MapDelete
<1>3. /\ \A i \in 0..mlen'-1 : AbsMap'[KeyOf(data'[i].key)] = data'[i].val
      /\ \A c \in Keys :
           (\A i \in 0..mlen'-1 : KeyOf(data'[i].key) # c) => AbsMap'[c] = Absent
      /\ DOMAIN AbsMap = Keys /\ (DOMAIN AbsMap)' = Keys
  BY DEF AbsReads, KeyOf
<1>4. \A i \in 0..mlen-1 : data[i].key \in Word
  BY DEF MapInv, TypeOK
<1>5. /\ \A i \in 0..mlen'-1 : KeyOf(data'[i].key) # KeyOf(k)
      /\ \A i \in 0..mlen-1 : KeyOf(data[i].key) # KeyOf(k)
           => \E j \in 0..mlen'-1 : data'[j] = data[i]
      /\ \A j \in 0..mlen'-1 : \E i \in 0..mlen-1 : data'[j] = data[i]
  <2>1. CASE ~Found(k)
    <3>1. \A i \in 0..mlen-1 : KeyOf(data[i].key) # KeyOf(k)
      BY <1>4, <2>1, SameKeyIsKeyOf DEF Found, Hits, AnyWord
    <3>2. UNCHANGED <<data, mlen>>
      BY <2>1 DEF MapDelete
    <3>. QED BY <3>1, <3>2
  <2>2. CASE Found(k)
    <3>. DEFINE s == Slot(k)
    <3>1. /\ s \in 0..mlen-1 /\ mlen \in Nat
          /\ KeyOf(data[s].key) = KeyOf(k)
          /\ \A j \in 0..mlen-1 : KeyOf(data[j].key) = KeyOf(k) => j = s
      BY <2>2, SlotFacts DEF MapInv, TypeOK
    <3>2. mlen' = mlen - 1 /\ data' = Without(s)
      BY <2>2 DEF MapDelete
    <3>3. \A i \in 0..mlen-2 :
             /\ i # s => data'[i] = data[i]
             /\ i = s => data'[i] = data[mlen-1]
      BY <2>2, <3>2, WithoutFacts
    <3>. HIDE DEF s
    <3>4. mlen-1 \in 0..mlen-1 /\ 0..mlen'-1 = 0..mlen-2
      BY <3>1, <3>2
    <3>5. ASSUME NEW j \in 0..mlen-2
          PROVE  /\ KeyOf(data'[j].key) # KeyOf(k)
                 /\ \E i \in 0..mlen-1 : data'[j] = data[i]
      <4>1. CASE j = s
        <5>1. mlen-1 # s
          BY <3>1, <4>1
        <5>. QED BY <3>1, <3>3, <3>4, <4>1, <5>1
      <4>2. CASE j # s
        <5>1. j \in 0..mlen-1
          BY <3>1
        <5>. QED BY <3>1, <3>3, <4>2, <5>1
      <4>. QED BY <4>1, <4>2
    <3>6. ASSUME NEW i \in 0..mlen-1, KeyOf(data[i].key) # KeyOf(k)
          PROVE  \E j \in 0..mlen-2 : data'[j] = data[i]
      <4>1. i # s
        BY <3>1, <3>6
      <4>2. CASE i = mlen-1
        <5>1. s \in 0..mlen-2
          BY <3>1, <4>1, <4>2
        <5>. QED BY <3>3, <4>2, <5>1
      <4>3. CASE i # mlen-1
        <5>1. i \in 0..mlen-2
          BY <3>1, <4>3
        <5>. QED BY <3>3, <4>1, <5>1
      <4>. QED BY <4>2, <4>3
    <3>. QED BY <3>4, <3>5, <3>6
  <2>. QED BY <2>1, <2>2
<1>6. AbsMap'[KeyOf(k)] = Absent
  BY <1>1, <1>3, <1>5
<1>7. ASSUME NEW c \in Keys, c # KeyOf(k)
      PROVE  AbsMap'[c] = AbsMap[c]
  <2>1. CASE \E i \in 0..mlen-1 : KeyOf(data[i].key) = c
    <3>1. PICK i \in 0..mlen-1 : KeyOf(data[i].key) = c
      BY <2>1
    <3>2. AbsMap[c] = data[i].val
      BY <3>1 DEF AbsReads
    <3>3. PICK j \in 0..mlen'-1 : data'[j] = data[i]
      BY <1>5, <1>7, <3>1
    <3>. QED BY <1>3, <3>1, <3>2, <3>3
  <2>2. CASE ~\E i \in 0..mlen-1 : KeyOf(data[i].key) = c
    <3>1. AbsMap[c] = Absent
      BY <2>2 DEF AbsReads
    <3>2. \A j \in 0..mlen'-1 : KeyOf(data'[j].key) # c
      BY <1>5, <2>2
    <3>. QED BY <1>3, <3>1, <3>2
  <2>. QED BY <2>1, <2>2
<1>8. AbsMap' = [AbsMap EXCEPT ![KeyOf(k)] = Absent]
  BY <1>1, <1>3, <1>6, <1>7, MapEq
<1>. QED BY <1>2, <1>8 DEF Abstract!Delete

\* The table implements a map: what a program reads and writes through the
\* runtime is what a finite function would give it, growth, moves of entries
\* and equal texts at different addresses included.  (AbstractMap lets a step
\* do nothing, which is how an assignment to the nil map shows.)
THEOREM TableImplementsMap == Spec => ImplementsMap
<1>1. Init => Abstract!Init
  <2>. SUFFICES ASSUME Init PROVE Abstract!Init
    OBVIOUS
  <2>1. 0..mlen-1 = {}
    BY DEF Init
  <2>2. AbsMap = [c \in Keys |-> Absent]
    BY <2>1 DEF AbsMap
  <2>. QED BY <2>2 DEF Init, Abstract!Init
<1>2. MapInv /\ MapInv' /\ AbsReads /\ AbsReads' /\ [Next]_vars
        => [Abstract!Next]_(Abstract!vars)
  <2>. SUFFICES ASSUME MapInv, MapInv', AbsReads, AbsReads', [Next]_vars
                PROVE  Abstract!Next \/ UNCHANGED <<AbsMap, ret>>
    BY DEF Abstract!vars
  <2>. USE DEF Abstract!Next
  <2>0. \A k \in Word : KeyOf(k) \in Keys
    BY DEF Keys
  <2>1. ASSUME UNCHANGED <<data, mlen, ret>> PROVE UNCHANGED <<AbsMap, ret>>
    BY <2>1 DEF AbsMap
  <2>2. CASE MapMake
    <3>1. mlen = 0 /\ mlen' = 0 /\ ret' = ret
      BY <2>2 DEF MapMake, MapInv, TypeOK
    <3>2. 0..mlen-1 = {} /\ 0..mlen'-1 = {}
      BY <3>1
    <3>3. AbsMap = [c \in Keys |-> Absent]
      BY <3>2 DEF AbsMap
    <3>4. AbsMap' = [c \in Keys |-> Absent]
      BY <3>2 DEF AbsMap, KeyOf, Keys
    <3>. QED BY <3>1, <3>3, <3>4
  <2>3. ASSUME NEW k \in Word, NEW v \in Val, MapSetNil(k, v)
        PROVE  UNCHANGED <<AbsMap, ret>>
    BY <2>1, <2>3 DEF MapSetNil, table
  <2>4. ASSUME NEW k \in Word, NEW v \in Val,
               MapSetUpdate(k, v) \/ MapSetAppend(k, v)
        PROVE  Abstract!Next
    BY <2>0, <2>4, SetMaps
  <2>5. ASSUME NEW k \in Word, MapDelete(k)
        PROVE  Abstract!Next
    BY <2>0, <2>5, DeleteMaps
  <2>6. ASSUME NEW k \in Word, MapGet(k)
        PROVE  Abstract!Next
    BY <2>0, <2>6, GetMaps
  <2>7. CASE RangeStart \/ RangeNext \/ RangeEnd \/ UNCHANGED vars
    <3>1. UNCHANGED <<data, mlen, ret>>
      BY <2>7 DEF RangeStart, RangeNext, RangeEnd, vars, table
    <3>. QED BY <2>1, <3>1
  <2>. QED BY <2>2, <2>3, <2>4, <2>5, <2>6, <2>7 DEF Next
<1>3. [](MapInv => AbsReads)
  BY AbsReadsHolds, PTL
<1>4. Spec => []MapInv
  BY MapInvariant, PTL DEF MapInv
<1>. QED BY <1>1, <1>2, <1>3, <1>4, PTL DEF Spec, Abstract!Spec, ImplementsMap

-----------------------------------------------------------------------------
(* The range loop.  It walks the slots below mlen while the body moves the   *)
(* entries: what it has passed is counted slot by slot.                      *)

\* The slots the loop has passed that hold no key it produced.
Holes == { i \in 0..idx-1 : i >= mlen \/ KeyOf(data[i].key) \notin seen }

\* A hole comes up only when a key the loop produced is deleted: that is why
\* no more keys are missed than were deleted, and neither half is inductive
\* without the other.
LoopInv ==
  /\ ~looping => idx = 0 /\ seen = {} /\ stay = {} /\ gone = 0
  /\ \A c \in stay : \E i \in 0..mlen-1 : KeyOf(data[i].key) = c
  /\ \A i \in idx..mlen-1 : KeyOf(data[i].key) \notin seen \cap stay
  /\ Cardinality(Holes) <= gone

\* There are finitely many holes, and fewer of them count less.
LEMMA HolesFinite ==
  ASSUME MapInv
  PROVE  IsFiniteSet(Holes) /\ Cardinality(Holes) \in Nat
<1>1. idx \in Nat
  BY DEF MapInv, TypeOK
<1>2. IsFiniteSet(0..idx-1)
  BY <1>1, FS_Interval
<1>3. IsFiniteSet(Holes)
  BY <1>2, FS_Subset DEF Holes
<1>. QED BY <1>3, FS_CardinalityType

LEMMA NoNewHoles ==
  ASSUME MapInv, NEW H \in SUBSET Holes
  PROVE  Cardinality(H) \in Nat /\ Cardinality(H) <= Cardinality(Holes)
<1>1. IsFiniteSet(H) /\ Cardinality(H) <= Cardinality(Holes)
  BY HolesFinite, FS_Subset
<1>. QED BY <1>1, FS_CardinalityType

LEMMA HolesAddElement ==
  ASSUME MapInv, NEW x
  PROVE  /\ IsFiniteSet(Holes \cup {x})
         /\ Cardinality(Holes \cup {x}) \in Nat
         /\ Cardinality(Holes \cup {x}) <= Cardinality(Holes) + 1
BY HolesFinite, FS_AddElement, SMTT(20)

\* No two entries have the same key.
LEMMA EntriesDiffer ==
  ASSUME MapInv
  PROVE  /\ \A i \in 0..mlen-1 : data[i].key \in Word
         /\ \A i, j \in 0..mlen-1 : KeyOf(data[i].key) = KeyOf(data[j].key) => i = j
<1>1. \A i \in 0..mlen-1 : data[i].key \in Word
  BY DEF MapInv, TypeOK
<1>. QED BY <1>1, SameKeyIsKeyOf DEF MapInv, KeysUnique, AnyWord

\* A step that changes neither the loop nor the keys in their slots.
LEMMA LoopFrame ==
  ASSUME MapInv, LoopInv, UNCHANGED range, mlen' = mlen,
         \A i \in 0..mlen-1 : data'[i].key = data[i].key
  PROVE  LoopInv'
<1>1. mlen \in Nat /\ idx \in Nat
  BY DEF MapInv, TypeOK
<1>2. \A i \in 0..mlen-1 : KeyOf(data'[i].key) = KeyOf(data[i].key)
  OBVIOUS
<1>3. UNCHANGED <<looping, idx, seen, stay, gone>>
  BY DEF range
<1>4. Holes' = Holes
  <2>1. Holes' = { i \in 0..idx-1 : i >= mlen \/ KeyOf(data'[i].key) \notin seen }
    BY <1>3 DEF Holes, KeyOf
  <2>. QED BY <1>1, <1>2, <2>1 DEF Holes
<1>5. \A c \in stay : \E i \in 0..mlen-1 : KeyOf(data'[i].key) = c
  BY <1>2 DEF LoopInv
<1>6. \A i \in idx..mlen-1 : KeyOf(data'[i].key) \notin seen \cap stay
  BY <1>1, <1>2 DEF LoopInv
<1>. QED BY <1>3, <1>4, <1>5, <1>6 DEF LoopInv, KeyOf

\* A new entry: its key was in no entry, so the loop is not waiting for it.
LEMMA LoopAppend ==
  ASSUME MapInv, LoopInv, NEW k \in Word, NEW v \in Val, MapSetAppend(k, v)
  PROVE  LoopInv'
<1>1. mlen \in Nat /\ idx \in Nat
  BY DEF MapInv, TypeOK
<1>2. UNCHANGED <<looping, idx, seen, stay, gone>> /\ mlen' = mlen + 1
  BY DEF MapSetAppend, range
<1>3. /\ \A i \in 0..mlen-1 : data'[i] = data[i]
      /\ data'[mlen] = [key |-> k, val |-> v]
      /\ \A i \in 0..mlen-1 : KeyOf(data[i].key) # KeyOf(k)
  BY AppendInv
<1>4. /\ \A i \in 0..mlen-1 : KeyOf(data'[i].key) = KeyOf(data[i].key)
      /\ KeyOf(data'[mlen].key) = KeyOf(k)
  BY <1>3
<1>5. KeyOf(k) \notin stay
  BY <1>3 DEF LoopInv
<1>6. \A c \in stay : \E i \in 0..mlen'-1 : KeyOf(data'[i].key) = c
  BY <1>1, <1>2, <1>4 DEF LoopInv
<1>7. \A i \in idx..mlen'-1 : KeyOf(data'[i].key) \notin seen \cap stay
  BY <1>1, <1>2, <1>4, <1>5 DEF LoopInv
<1>8. Holes' = { i \in 0..idx-1 : i >= mlen' \/ KeyOf(data'[i].key) \notin seen }
  BY <1>2 DEF Holes, KeyOf
<1>9. Holes' \subseteq Holes
  <2>1. \A i \in 0..idx-1 : i \in Holes' => i >= mlen \/ KeyOf(data[i].key) \notin seen
    BY <1>1, <1>2, <1>4, <1>8
  <2>. QED BY <1>8, <2>1 DEF Holes
<1>10. Cardinality(Holes') <= gone
  <2>1. Cardinality(Holes') \in Nat /\ Cardinality(Holes') <= Cardinality(Holes)
    BY <1>9, NoNewHoles
  <2>2. Cardinality(Holes) \in Nat /\ Cardinality(Holes) <= gone /\ gone \in Nat
    BY HolesFinite DEF LoopInv, MapInv, TypeOK
  <2>. QED BY <2>1, <2>2
<1>. QED BY <1>2, <1>6, <1>7, <1>10 DEF LoopInv, KeyOf

\* A deletion moves the last entry into the slot it empties.  It makes a hole
\* only where the loop has produced the key.
LEMMA LoopDelete ==
  ASSUME MapInv, LoopInv, NEW k \in Word, MapDelete(k), Found(k)
  PROVE  LoopInv'
<1>. DEFINE s == Slot(k)
<1>1. mlen \in Nat /\ idx \in Nat /\ gone \in Nat
  BY DEF MapInv, TypeOK
<1>2. /\ s \in 0..mlen-1
      /\ KeyOf(data[s].key) = KeyOf(k)
  BY SlotFacts
<1>3. /\ UNCHANGED <<looping, idx, seen>>
      /\ mlen' = mlen - 1
      /\ data' = Without(s)
      /\ stay' = stay \ {KeyOf(k)}
      /\ gone' = IF looping /\ KeyOf(k) \in seen THEN gone + 1 ELSE gone
  BY DEF MapDelete
<1>4. \A i \in 0..mlen-2 :
        KeyOf(data'[i].key) = IF i = s THEN KeyOf(data[mlen-1].key) ELSE KeyOf(data[i].key)
  BY <1>3, WithoutFacts
<1>5. \A i, j \in 0..mlen-1 : KeyOf(data[i].key) = KeyOf(data[j].key) => i = j
  BY EntriesDiffer
<1>. HIDE DEF s
<1>6. \A c \in stay' : \E i \in 0..mlen'-1 : KeyOf(data'[i].key) = c
  <2>. SUFFICES ASSUME NEW c \in stay, c # KeyOf(k)
                PROVE  \E i \in 0..mlen-2 : KeyOf(data'[i].key) = c
    BY <1>1, <1>3
  <2>1. PICK i \in 0..mlen-1 : KeyOf(data[i].key) = c
    BY DEF LoopInv
  <2>2. i # s
    BY <1>2, <2>1
  <2>3. CASE i = mlen-1
    <3>1. s \in 0..mlen-2
      BY <1>1, <1>2, <2>2, <2>3
    <3>. QED BY <1>4, <2>1, <2>3, <3>1
  <2>4. CASE i # mlen-1
    <3>1. i \in 0..mlen-2
      BY <1>1, <2>4
    <3>. QED BY <1>4, <2>1, <2>2, <3>1
  <2>. QED BY <2>3, <2>4
<1>7. \A i \in idx'..mlen'-1 : KeyOf(data'[i].key) \notin seen' \cap stay'
  <2>. SUFFICES ASSUME NEW i \in idx..mlen-2
                PROVE  KeyOf(data'[i].key) \notin seen \cap stay
    BY <1>1, <1>3
  <2>1. i \in 0..mlen-2 /\ i \in idx..mlen-1 /\ mlen-1 \in idx..mlen-1
    BY <1>1
  <2>. QED BY <1>4, <2>1 DEF LoopInv
<1>8. Holes' = { i \in 0..idx-1 : i >= mlen-1 \/ KeyOf(data'[i].key) \notin seen }
  BY <1>3 DEF Holes, KeyOf
<1>9. ~looping => Holes' = {} /\ idx = 0
  BY <1>1, <1>8 DEF LoopInv
<1>10. Cardinality(Holes') <= gone'
  <2>1. CASE ~looping
    BY <1>1, <1>3, <1>9, <2>1, FS_EmptySet DEF LoopInv
  <2>2. CASE looping /\ KeyOf(k) \in seen
    <3>1. PICK x : Holes' \subseteq Holes \cup {x}
      <4>1. CASE mlen-1 < idx /\ KeyOf(data[mlen-1].key) \in seen
        <5>1. Holes' \subseteq Holes \cup {mlen-1}
          <6>. SUFFICES ASSUME NEW i \in Holes', i # mlen-1 PROVE i \in Holes
            OBVIOUS
          <6>. QED BY <1>1, <1>2, <1>4, <1>8, <4>1 DEF Holes
        <5>. QED BY <5>1
      <4>2. CASE ~(mlen-1 < idx /\ KeyOf(data[mlen-1].key) \in seen)
        <5>1. Holes' \subseteq Holes \cup {s}
          <6>. SUFFICES ASSUME NEW i \in Holes', i # s PROVE i \in Holes
            OBVIOUS
          <6>. QED BY <1>1, <1>2, <1>4, <1>8, <4>2 DEF Holes
        <5>. QED BY <5>1
      <4>. QED BY <4>1, <4>2
    <3>2. Cardinality(Holes') <= Cardinality(Holes \cup {x})
      BY <3>1, HolesAddElement, FS_Subset
    <3>3. IsFiniteSet(Holes') /\ Cardinality(Holes') \in Nat
      BY <3>1, HolesAddElement, FS_Subset, FS_CardinalityType
    <3>4. /\ Cardinality(Holes \cup {x}) \in Nat
          /\ Cardinality(Holes \cup {x}) <= Cardinality(Holes) + 1
      BY HolesAddElement
    <3>5. Cardinality(Holes) \in Nat /\ Cardinality(Holes) <= gone /\ gone' = gone + 1
      BY <1>3, <2>2, HolesFinite DEF LoopInv
    <3>. QED BY <1>1, <3>2, <3>3, <3>4, <3>5
  <2>3. CASE looping /\ KeyOf(k) \notin seen
    <3>1. CASE s < idx /\ mlen-1 < idx /\ KeyOf(data[mlen-1].key) \in seen
      <4>1. s \in Holes
        BY <1>1, <1>2, <2>3, <3>1 DEF Holes
      <4>2. Holes' \subseteq (Holes \ {s}) \cup {mlen-1}
        <5>. SUFFICES ASSUME NEW i \in Holes', i # mlen-1 PROVE i \in Holes /\ i # s
          OBVIOUS
        <5>. QED BY <1>1, <1>2, <1>4, <1>8, <3>1 DEF Holes
      <4>3. /\ IsFiniteSet(Holes \ {s})
            /\ Cardinality(Holes \ {s}) = Cardinality(Holes) - 1
        BY <4>1, HolesFinite, FS_RemoveElement
      <4>4. /\ IsFiniteSet((Holes \ {s}) \cup {mlen-1})
            /\ Cardinality((Holes \ {s}) \cup {mlen-1}) <= Cardinality(Holes)
        <5>1. Cardinality(Holes \ {s}) \in Nat /\ Cardinality(Holes) \in Nat
          BY <4>3, HolesFinite, FS_CardinalityType
        <5>2. /\ IsFiniteSet((Holes \ {s}) \cup {mlen-1})
              /\ Cardinality((Holes \ {s}) \cup {mlen-1}) =
                   IF mlen-1 \in Holes \ {s} THEN Cardinality(Holes \ {s})
                   ELSE Cardinality(Holes \ {s}) + 1
          BY <4>3, FS_AddElement
        <5>. QED BY <4>3, <5>1, <5>2
      <4>5. /\ Cardinality(Holes') <= Cardinality((Holes \ {s}) \cup {mlen-1})
            /\ Cardinality(Holes') \in Nat
            /\ Cardinality((Holes \ {s}) \cup {mlen-1}) \in Nat
        BY <4>2, <4>4, FS_Subset, FS_CardinalityType
      <4>. QED BY <1>1, <1>3, <2>3, <4>4, <4>5, HolesFinite DEF LoopInv
    <3>2. CASE ~(s < idx /\ mlen-1 < idx /\ KeyOf(data[mlen-1].key) \in seen)
      <4>1. Holes' \subseteq Holes
        <5>. SUFFICES ASSUME NEW i \in Holes' PROVE i \in Holes
          OBVIOUS
        <5>. QED BY <1>1, <1>2, <1>4, <1>8, <2>3, <3>2 DEF Holes
      <4>2. Cardinality(Holes') <= Cardinality(Holes) /\ Cardinality(Holes') \in Nat
        BY <4>1, NoNewHoles, FS_CardinalityType
      <4>. QED BY <1>1, <1>3, <2>3, <4>2, HolesFinite DEF LoopInv
    <3>. QED BY <3>1, <3>2
  <2>. QED BY <2>1, <2>2, <2>3
<1>11. ~looping' => idx' = 0 /\ seen' = {} /\ stay' = {} /\ gone' = 0
  BY <1>3 DEF LoopInv
<1>. QED BY <1>6, <1>7, <1>10, <1>11 DEF LoopInv

\* The loop produces a key: its slot is no hole, and no other slot has it.
LEMMA LoopNext ==
  ASSUME MapInv, LoopInv, RangeNext
  PROVE  LoopInv'
<1>1. mlen \in Nat /\ idx \in Nat /\ gone \in Nat
  BY DEF MapInv, TypeOK
<1>2. /\ looping /\ idx < mlen
      /\ UNCHANGED <<data, mlen, looping, stay, gone>>
      /\ seen' = seen \cup {KeyOf(data[idx].key)}
      /\ idx' = idx + 1
  BY DEF RangeNext, MapLen, MapEntryKey, table
<1>3. \A i, j \in 0..mlen-1 : KeyOf(data[i].key) = KeyOf(data[j].key) => i = j
  BY EntriesDiffer
<1>4. \A i \in idx'..mlen'-1 : KeyOf(data'[i].key) \notin seen' \cap stay'
  <2>. SUFFICES ASSUME NEW i \in idx+1..mlen-1
                PROVE  KeyOf(data[i].key) \notin (seen \cup {KeyOf(data[idx].key)}) \cap stay
    BY <1>2 DEF KeyOf
  <2>1. i \in idx..mlen-1 /\ i \in 0..mlen-1 /\ idx \in 0..mlen-1 /\ i # idx
    BY <1>1, <1>2
  <2>. QED BY <1>3, <2>1 DEF LoopInv
<1>5. Holes' = { i \in 0..idx : i >= mlen \/ KeyOf(data[i].key) \notin seen \cup {KeyOf(data[idx].key)} }
  BY <1>1, <1>2 DEF Holes, KeyOf
<1>6. Holes' \subseteq Holes
  <2>. SUFFICES ASSUME NEW i \in Holes' PROVE i \in Holes
    OBVIOUS
  <2>. QED BY <1>1, <1>2, <1>5 DEF Holes
<1>7. Cardinality(Holes') <= gone'
  BY <1>1, <1>2, <1>6, NoNewHoles, FS_CardinalityType, HolesFinite DEF LoopInv
<1>8. \A c \in stay' : \E i \in 0..mlen'-1 : KeyOf(data'[i].key) = c
  BY <1>2 DEF LoopInv, KeyOf
<1>. QED BY <1>2, <1>4, <1>7, <1>8 DEF LoopInv

\* The loop's invariant holds whatever the loop's body does.
LEMMA LoopInvariant == Spec => [](MapInv /\ LoopInv)
<1>1. Init => LoopInv
  <2>. SUFFICES ASSUME Init PROVE LoopInv
    OBVIOUS
  <2>1. Holes = {}
    BY DEF Init, Holes
  <2>. QED BY <2>1, FS_EmptySet DEF Init, LoopInv
<1>2. MapInv /\ LoopInv /\ [Next]_vars => LoopInv'
  <2>. SUFFICES ASSUME MapInv, LoopInv, [Next]_vars PROVE LoopInv'
    OBVIOUS
  <2>1. CASE MapMake
    <3>1. /\ ~looping /\ UNCHANGED <<looping, idx, seen, stay, gone>>
          /\ idx = 0 /\ seen = {} /\ stay = {} /\ gone = 0
      BY <2>1 DEF MapMake, range, LoopInv
    <3>2. Holes' = {} /\ Cardinality(Holes') <= gone'
      BY <3>1, FS_EmptySet DEF Holes
    <3>. QED BY <3>1, <3>2 DEF LoopInv
  <2>2. ASSUME NEW k \in Word, NEW v \in Val, MapSetNil(k, v)
        PROVE  LoopInv'
    BY <2>2, LoopFrame DEF MapSetNil, table
  <2>3. ASSUME NEW k \in Word, NEW v \in Val, MapSetUpdate(k, v)
        PROVE  LoopInv'
    <3>1. \A i \in 0..mlen-1 : data'[i].key = data[i].key
      <4>1. Slot(k) \in 0..mlen-1
        BY <2>3, SlotFacts DEF MapSetUpdate
      <4>. QED BY <2>3, <4>1 DEF MapInv, TypeOK, MapSetUpdate, Entry
    <3>. QED BY <2>3, <3>1, LoopFrame DEF MapSetUpdate
  <2>4. ASSUME NEW k \in Word, NEW v \in Val, MapSetAppend(k, v)
        PROVE  LoopInv'
    BY <2>4, LoopAppend
  <2>5. ASSUME NEW k \in Word, MapDelete(k)
        PROVE  LoopInv'
    <3>1. CASE Found(k)
      BY <2>5, <3>1, LoopDelete
    <3>2. CASE ~Found(k)
      <4>1. KeyOf(k) \notin stay
        <5>1. \A i \in 0..mlen-1 : KeyOf(data[i].key) # KeyOf(k)
          BY <3>2, EntriesDiffer, SameKeyIsKeyOf DEF Found, Hits, AnyWord
        <5>. QED BY <5>1 DEF LoopInv
      <4>2. UNCHANGED <<data, mlen>> /\ UNCHANGED range
        BY <2>5, <3>2, <4>1 DEF MapDelete, range
      <4>. QED BY <4>2, LoopFrame
    <3>. QED BY <3>1, <3>2
  <2>6. ASSUME NEW k \in Word, MapGet(k)
        PROVE  LoopInv'
    BY <2>6, LoopFrame DEF MapGet, table
  <2>7. CASE RangeStart
    <3>1. /\ idx' = 0 /\ seen' = {} /\ gone' = 0 /\ looping'
          /\ stay' = { KeyOf(data[i].key) : i \in 0..mlen-1 }
          /\ UNCHANGED <<data, mlen>>
      BY <2>7 DEF RangeStart, LoopInv, table
    <3>2. Holes' = {} /\ Cardinality(Holes') <= gone'
      BY <3>1, FS_EmptySet DEF Holes
    <3>3. \A c \in stay' : \E i \in 0..mlen'-1 : KeyOf(data'[i].key) = c
      BY <3>1 DEF KeyOf
    <3>. QED BY <3>1, <3>2, <3>3 DEF LoopInv
  <2>8. CASE RangeNext
    BY <2>8, LoopNext
  <2>9. CASE RangeEnd
    <3>1. idx' = 0 /\ seen' = {} /\ stay' = {} /\ gone' = 0
      BY <2>9 DEF RangeEnd
    <3>2. Holes' = {} /\ Cardinality(Holes') <= gone'
      BY <3>1, FS_EmptySet DEF Holes
    <3>. QED BY <3>1, <3>2 DEF LoopInv
  <2>10. CASE UNCHANGED vars
    BY <2>10, LoopFrame DEF vars, table
  <2>. QED
    BY <2>1, <2>2, <2>3, <2>4, <2>5, <2>6, <2>7, <2>8, <2>9, <2>10 DEF Next
<1>. QED BY <1>1, <1>2, MapInvariant, PTL DEF Spec, MapInv

\* A range loop produces no key twice, whatever its body does, unless the key
\* was deleted and set again during the loop.
THEOREM LoopProducesOnce == Spec => RangeProducesOnce
<1>1. MapInv /\ LoopInv /\ [Next]_vars
        => [RangeNext => KeyOf(MapEntryKey(idx)) \notin seen \cap stay]_vars
  <2>. SUFFICES ASSUME MapInv, LoopInv, RangeNext
                PROVE  KeyOf(MapEntryKey(idx)) \notin seen \cap stay
    OBVIOUS
  <2>1. idx \in idx..mlen-1
    BY DEF RangeNext, MapLen, MapInv, TypeOK
  <2>. QED BY <2>1 DEF LoopInv, MapEntryKey
<1>. QED BY <1>1, LoopInvariant, PTL DEF Spec, RangeProducesOnce

\* A key the loop misses, though it was in the map throughout, is matched by a
\* key the body deleted after the loop produced it.
THEOREM LoopMissesOnlyForDeleted == Spec => []RangeMissesOnlyForDeleted
<1>1. MapInv /\ LoopInv => RangeMissesOnlyForDeleted
  <2>. SUFFICES ASSUME MapInv, LoopInv PROVE Cardinality(Missed) <= gone
    BY DEF RangeMissesOnlyForDeleted
  <2>. DEFINE At(c) == CHOOSE i \in 0..mlen-1 : KeyOf(data[i].key) = c
              f == [c \in Missed |-> At(c)]
  <2>1. ASSUME NEW c \in Missed
        PROVE  At(c) \in 0..mlen-1 /\ KeyOf(data[At(c)].key) = c /\ At(c) \in Holes
    <3>1. c \in stay /\ c \notin seen /\ \A i \in idx..mlen-1 : KeyOf(data[i].key) # c
      BY DEF Missed
    <3>2. At(c) \in 0..mlen-1 /\ KeyOf(data[At(c)].key) = c
      BY <3>1 DEF LoopInv
    <3>3. idx \in Nat /\ mlen \in Nat
      BY DEF MapInv, TypeOK
    <3>. HIDE DEF At
    <3>4. At(c) \in 0..idx-1
      BY <3>1, <3>2, <3>3
    <3>. QED BY <3>1, <3>2, <3>4 DEF Holes
  <2>2. f \in Injection(Missed, Holes)
    <3>. HIDE DEF At
    <3>1. f \in [Missed -> Holes]
      BY <2>1
    <3>2. \A a, b \in Missed : f[a] = f[b] => a = b
      BY <2>1
    <3>. QED BY <3>1, <3>2 DEF Injection, IsInjective
  <2>3. /\ IsFiniteSet(Missed)
        /\ Cardinality(Missed) <= Cardinality(Holes)
    BY <2>2, HolesFinite, FS_Injection
  <2>4. Cardinality(Holes) \in Nat /\ Cardinality(Holes) <= gone /\ gone \in Nat
    BY HolesFinite DEF LoopInv, MapInv, TypeOK
  <2>. QED BY <2>3, <2>4, FS_CardinalityType
<1>. QED BY <1>1, LoopInvariant, PTL
=============================================================================
