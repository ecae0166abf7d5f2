------------------------- MODULE RuntimeSliceProofs -------------------------
(***************************************************************************)
(* Proofs about RuntimeSlice, for all programs, arrays and capacities.     *)
(***************************************************************************)
EXTENDS RuntimeSlice, SequenceTheorems, SetInduction, TLAPS

-----------------------------------------------------------------------------
(* Memcopy.                                                                  *)

\* The arrays of the same lengths as os.
Shape(os) ==
  { bs \in Seq(Seq(Elem)) :
      Len(bs) = Len(os) /\ \A a \in 1..Len(os) : Len(bs[a]) = Len(os[a]) }

\* Place j of array a overwritten with e.
Write(bs, a, j, e) == [bs EXCEPT ![a][j] = e]

\* This keeps the shape, and every other element.
WritesOne(os, bs, a, j, e) ==
  /\ Write(bs, a, j, e) \in Shape(os)
  /\ Write(bs, a, j, e)[a][j] = e
  /\ \A c \in 1..Len(os) : \A i \in 1..Len(os[c]) :
       c # a \/ i # j => Write(bs, a, j, e)[c][i] = bs[c][i]

LEMMA WriteShape ==
  ASSUME NEW os \in Seq(Seq(Elem)), NEW bs \in Shape(os),
         NEW a \in 1..Len(os), NEW j \in 1..Len(os[a]), NEW e \in Elem
  PROVE  WritesOne(os, bs, a, j, e)
<1>1. bs \in Seq(Seq(Elem)) /\ Len(bs) = Len(os) /\ \A c \in 1..Len(os) : Len(bs[c]) = Len(os[c])
  BY DEF Shape
<1>2. bs[a] \in Seq(Elem) /\ Len(bs[a]) = Len(os[a])
  BY <1>1
<1>. DEFINE row == [bs[a] EXCEPT ![j] = e]
            new == [bs EXCEPT ![a] = row]
<1>3. /\ row \in Seq(Elem) /\ Len(row) = Len(os[a])
      /\ row[j] = e
      /\ \A i \in 1..Len(os[a]) : i # j => row[i] = bs[a][i]
  <2>1. PICK r \in Seq(Elem) : r = bs[a]
    BY <1>2
  <2>. QED BY <1>2, <2>1
<1>4. Write(bs, a, j, e) = new
  BY DEF Write
<1>. HIDE DEF row
<1>5. /\ new \in Seq(Seq(Elem))
      /\ Len(new) = Len(os)
      /\ new[a] = row
      /\ \A c \in 1..Len(os) : c # a => new[c] = bs[c]
  BY <1>1, <1>3
<1>. HIDE DEF new
<1>6. new \in Shape(os)
  BY <1>1, <1>3, <1>5 DEF Shape
<1>7. new[a][j] = e /\ \A c \in 1..Len(os) : \A i \in 1..Len(os[c]) :
        c # a \/ i # j => new[c][i] = bs[c][i]
  BY <1>3, <1>5
<1>. QED BY <1>4, <1>6, <1>7 DEF WritesOne

\* A copy of nothing.
LEMMA MemcopyNothing ==
  ASSUME NEW os, NEW d, NEW p, NEW s, NEW q
  PROVE  Memcopy(os, d, p, s, q, 0) = os
<1>. DEFINE R(g) == g = [i \in 0..0 |-> IF i = 0 THEN os
                          ELSE [g[i-1] EXCEPT ![d][p + i] = g[i-1][s][q + i]]]
<1>1. R([i \in 0..0 |-> os])
  OBVIOUS
<1>2. R(CHOOSE g : R(g))
  BY <1>1
<1>3. (CHOOSE g : R(g))[0] = os
  BY <1>2
<1>. QED BY <1>3 DEF Memcopy

\* f[i]: the arrays after i elements.
CopySteps(os, d, p, s, q, n, f) ==
  /\ f \in [0..n -> Shape(os)]
  /\ f[0] = os
  /\ \A i \in 1..n : f[i] = Write(f[i-1], d, p + i, f[i-1][s][q + i])

\* Places of a copy that are there.
CopyArgs(os, d, p, s, q, n) ==
  /\ os \in Seq(Seq(Elem)) /\ d \in 1..Len(os) /\ s \in 1..Len(os)
  /\ p \in Nat /\ q \in Nat /\ n \in Nat
  /\ p + n <= Len(os[d]) /\ q + n <= Len(os[s])

\* The recursion is well defined.
LEMMA MemcopySteps ==
  ASSUME NEW os, NEW d, NEW p, NEW s, NEW q, NEW n, CopyArgs(os, d, p, s, q, n)
  PROVE  \E f : /\ CopySteps(os, d, p, s, q, n, f)
                /\ Memcopy(os, d, p, s, q, n) = f[n]
<1>. DEFINE W(bs, i) == Write(bs, d, p + i, bs[s][q + i])
            R(g) == g = [i \in 0..n |-> IF i = 0 THEN os
                          ELSE [g[i-1] EXCEPT ![d][p + i] = g[i-1][s][q + i]]]
            Up(k, f) == f[0] = os /\ \A i \in 1..k : f[i] = W(f[i-1], i)
            K == { k \in 0..n : \E f \in [0..k -> Shape(os)] : Up(k, f) }
            c == CHOOSE g : R(g)
<1>0. /\ os \in Seq(Seq(Elem)) /\ d \in 1..Len(os) /\ s \in 1..Len(os)
      /\ p \in Nat /\ q \in Nat /\ n \in Nat
      /\ p + n <= Len(os[d]) /\ q + n <= Len(os[s])
  BY DEF CopyArgs
<1>. n \in Nat
  BY <1>0
<1>1. os \in Shape(os)
  BY <1>0 DEF Shape
<1>2. ASSUME NEW bs \in Shape(os), NEW i \in 1..n PROVE W(bs, i) \in Shape(os)
  <2>1. bs[s] \in Seq(Elem) /\ Len(bs[s]) = Len(os[s])
    BY <1>0 DEF Shape
  <2>2. Len(os[s]) \in Nat /\ Len(os[d]) \in Nat
    BY <1>0, SMTT(20)
  <2>3. p + i \in 1..Len(os[d]) /\ q + i \in 1..Len(os[s])
    <3>1. p \in Nat /\ q \in Nat /\ p + n <= Len(os[d]) /\ q + n <= Len(os[s])
      BY <1>0, Zenon
    <3>. QED BY <2>2, <3>1
  <2>4. bs[s][q + i] \in Elem
    BY <2>1, <2>3
  <2>5. WritesOne(os, bs, d, p + i, bs[s][q + i])
    BY <1>0, <2>3, <2>4, WriteShape
  <2>. QED BY <2>5 DEF WritesOne
<1>3. \A g : R(g) <=> g = [i \in 0..n |-> IF i = 0 THEN os ELSE W(g[i-1], i)]
  BY DEF Write
<1>4. Memcopy(os, d, p, s, q, n) = c[n]
  BY DEF Memcopy
<1>. HIDE DEF W, R
<1>5. 0 \in K
  <2>1. Up(0, [i \in 0..0 |-> os]) /\ [i \in 0..0 |-> os] \in [0..0 -> Shape(os)]
    BY <1>1
  <2>. HIDE DEF Up
  <2>2. \E f \in [0..0 -> Shape(os)] : Up(0, f)
    BY <2>1
  <2>. QED BY <2>2
<1>6. ASSUME NEW k \in 0..n-1, k \in K PROVE k + 1 \in K
  <2>1. PICK f \in [0..k -> Shape(os)] : Up(k, f)
    BY <1>6
  <2>. DEFINE g == [i \in 0..k+1 |-> IF i = k + 1 THEN W(f[k], k + 1) ELSE f[i]]
  <2>2. W(f[k], k + 1) \in Shape(os)
    BY <1>2
  <2>3. g \in [0..k+1 -> Shape(os)] /\ g[0] = os
    BY <2>1, <2>2
  <2>4. ASSUME NEW i \in 1..k+1 PROVE g[i] = W(g[i-1], i)
    <3>1. g[i-1] = f[i-1]
      OBVIOUS
    <3>. QED BY <2>1, <3>1
  <2>5. Up(k + 1, g)
    BY <2>3, <2>4
  <2>. HIDE DEF g, Up
  <2>6. \E h \in [0..k+1 -> Shape(os)] : Up(k + 1, h)
    BY <2>3, <2>5
  <2>7. k + 1 \in 0..n
    OBVIOUS
  <2>. QED BY <2>6, <2>7, Zenon
<1>7. n \in K
  <2>. HIDE DEF K
  <2>1. \A k \in 0..n-1 : k \in K => k + 1 \in K
    BY <1>6
  <2>2. \A k \in 0..n : k \in K
    BY <1>5, <2>1, IntervalSetInduction
  <2>. QED BY <2>2
<1>8. PICK f \in [0..n -> Shape(os)] : Up(n, f)
  BY <1>7
<1>9. R(f)
  <2>1. f = [i \in 0..n |-> f[i]]
    OBVIOUS
  <2>2. \A i \in 0..n : f[i] = IF i = 0 THEN os ELSE W(f[i-1], i)
    BY <1>8
  <2>3. f = [i \in 0..n |-> IF i = 0 THEN os ELSE W(f[i-1], i)]
    BY <2>1, <2>2
  <2>. QED BY <1>3, <2>3
<1>10. R(c)
  BY <1>9
<1>. HIDE DEF c
<1>11. \A i \in 0..n : c[i] = IF i = 0 THEN os ELSE W(c[i-1], i)
  BY <1>3, <1>10
<1>12. \A i \in 0..n : c[i] = f[i]
  <2>. DEFINE S == { i \in 0..n : c[i] = f[i] }
  <2>1. 0 \in S
    BY <1>8, <1>11
  <2>2. ASSUME NEW i \in 0..n-1, i \in S PROVE i + 1 \in S
    <3>1. c[i+1] = W(c[i], i + 1)
      BY <1>11
    <3>2. f[i+1] = W(f[i], i + 1)
      BY <1>8
    <3>. QED BY <2>2, <3>1, <3>2
  <2>. HIDE DEF S
  <2>3. \A i \in 0..n : i \in S
    BY <2>1, <2>2, IntervalSetInduction
  <2>. QED BY <2>3 DEF S
<1>13. Memcopy(os, d, p, s, q, n) = f[n]
  BY <1>4, <1>12
<1>14. CopySteps(os, d, p, s, q, n, f)
  BY <1>8 DEF W, CopySteps
<1>. QED BY <1>13, <1>14

\* Array a has n elements after place p.
HasPlaces(os, a, p, n) == a \in 1..Len(os) /\ p + n <= Len(os[a])

\* bs: what a copy makes of os.  Nothing changes outside the places it writes,
\* and there are the elements it read, unless they would be copied up.
Copied(os, d, p, s, q, n, bs) ==
  /\ bs \in Shape(os)
  /\ \A a \in 1..Len(os) : \A j \in 1..Len(os[a]) :
       a # d \/ j \notin p+1..p+n => bs[a][j] = os[a][j]
  /\ ~CopiesUp(d, p, s, q, n) => \A i \in 1..n : bs[d][p + i] = os[s][q + i]

\* What no step changes stays as it is.
LEMMA NeverChanged ==
  ASSUME NEW n \in Nat, NEW v, \A i \in 0..n-1 : v[i+1] = v[i]
  PROVE  v[n] = v[0]
<1>. DEFINE U == { i \in 0..n : v[i] = v[0] }
<1>1. 0 \in U
  OBVIOUS
<1>2. \A i \in 0..n-1 : i \in U => i + 1 \in U
  OBVIOUS
<1>3. \A i \in 0..n : i \in U
  <2>. HIDE DEF U
  <2>. QED BY <1>1, <1>2, IntervalSetInduction
<1>. QED BY <1>3

\* One step writes one element.
LEMMA StepWrites ==
  ASSUME NEW os, NEW d, NEW p, NEW s, NEW q, NEW n, CopyArgs(os, d, p, s, q, n),
         NEW f, CopySteps(os, d, p, s, q, n, f), NEW k \in 0..n-1
  PROVE  /\ f[k+1][d][p + (k + 1)] = f[k][s][q + (k + 1)]
         /\ \A a \in 1..Len(os) : \A j \in 1..Len(os[a]) :
              a # d \/ j # p + (k + 1) => f[k+1][a][j] = f[k][a][j]
<1>1. os \in Seq(Seq(Elem)) /\ d \in 1..Len(os) /\ s \in 1..Len(os)
  BY DEF CopyArgs
<1>2. Len(os[d]) \in Nat /\ Len(os[s]) \in Nat
  BY <1>1
<1>3. p + (k + 1) \in 1..Len(os[d]) /\ q + (k + 1) \in 1..Len(os[s])
  <2>1. /\ p \in Nat /\ q \in Nat /\ n \in Nat
        /\ p + n <= Len(os[d]) /\ q + n <= Len(os[s])
    BY Zenon DEF CopyArgs
  <2>. QED BY <1>2, <2>1
<1>4. k \in 0..n /\ k + 1 \in 1..n /\ (k + 1) - 1 = k
  BY DEF CopyArgs
<1>5. f[k+1] = Write(f[k], d, p + (k + 1), f[k][s][q + (k + 1)])
  BY <1>4 DEF CopySteps
<1>6. f[k] \in Shape(os)
  BY <1>4 DEF CopySteps
<1>7. PICK j \in 1..Len(os[d]) : j = p + (k + 1)
  BY <1>3
<1>8. PICK i \in 1..Len(os[s]) : i = q + (k + 1)
  BY <1>3
<1>9. f[k][s] \in Seq(Elem) /\ Len(f[k][s]) = Len(os[s])
  BY <1>1, <1>6 DEF Shape
<1>10. PICK e \in Elem : e = f[k][s][i]
  BY <1>9
<1>11. f[k+1] = Write(f[k], d, j, e)
  BY <1>5, <1>7, <1>8, <1>10
<1>12. WritesOne(os, f[k], d, j, e)
  BY <1>1, <1>6, WriteShape
<1>. QED BY <1>7, <1>8, <1>10, <1>11, <1>12 DEF WritesOne

\* A place not written yet has what it had.
LEMMA NotYetWritten ==
  ASSUME NEW os, NEW d, NEW p, NEW s, NEW q, NEW n, CopyArgs(os, d, p, s, q, n),
         NEW f, CopySteps(os, d, p, s, q, n, f), NEW k \in 0..n,
         NEW a \in 1..Len(os), NEW j \in 1..Len(os[a]), a # d \/ j \notin p+1..p+k
  PROVE  f[k][a][j] = os[a][j]
<1>. DEFINE v == [i \in 0..k |-> f[i][a][j]]
<1>1. p \in Nat /\ n \in Nat /\ k \in Nat
  BY DEF CopyArgs
<1>2. ASSUME NEW i \in 0..k-1 PROVE v[i+1] = v[i]
  <2>1. i \in 0..n-1 /\ i \in 0..k /\ i + 1 \in 0..k /\ p + (i + 1) \in p+1..p+k
    BY <1>1
  <2>2. a # d \/ j # p + (i + 1)
    BY <2>1
  <2>3. f[i+1][a][j] = f[i][a][j]
    BY <2>1, <2>2, StepWrites
  <2>. QED BY <2>1, <2>3
<1>3. v[k] = v[0]
  <2>. HIDE DEF v
  <2>. QED BY <1>1, <1>2, NeverChanged
<1>4. f[0] = os
  BY DEF CopySteps
<1>. QED BY <1>1, <1>3, <1>4

\* An element copied stays, for no later step writes its place.
LEMMA CopiedStays ==
  ASSUME NEW os, NEW d, NEW p, NEW s, NEW q, NEW n, CopyArgs(os, d, p, s, q, n),
         NEW f, CopySteps(os, d, p, s, q, n, f), NEW i \in 1..n
  PROVE  f[n][d][p + i] = f[i-1][s][q + i]
<1>. DEFINE v == [h \in 0..n-i |-> f[i+h][d][p+i]]
<1>1. p \in Nat /\ n \in Nat /\ i \in Nat /\ n - i \in Nat
  BY DEF CopyArgs
<1>2. d \in 1..Len(os) /\ Len(os[d]) \in Nat
  BY DEF CopyArgs
<1>3. p + i \in 1..Len(os[d])
  BY <1>1, <1>2 DEF CopyArgs
<1>4. ASSUME NEW h \in 0..(n-i)-1 PROVE v[h+1] = v[h]
  <2>1. /\ i + h \in 0..n-1 /\ h \in 0..n-i /\ h + 1 \in 0..n-i
        /\ i + (h + 1) = (i + h) + 1 /\ p + i # p + ((i + h) + 1)
    BY <1>1
  <2>2. f[(i+h)+1][d][p+i] = f[i+h][d][p+i]
    BY <1>2, <1>3, <2>1, StepWrites
  <2>. QED BY <2>1, <2>2
<1>5. v[n-i] = v[0]
  <2>. HIDE DEF v
  <2>. QED BY <1>1, <1>4, NeverChanged
<1>6. f[n][d][p+i] = f[i][d][p+i]
  <2>1. n - i \in 0..n-i /\ 0 \in 0..n-i /\ i + (n - i) = n /\ i + 0 = i
    BY <1>1
  <2>. QED BY <1>5, <2>1
<1>7. i - 1 \in 0..n-1 /\ (i - 1) + 1 = i
  BY <1>1
<1>8. f[(i-1)+1][d][p + ((i-1)+1)] = f[i-1][s][q + ((i-1)+1)]
  BY <1>7, StepWrites
<1>. QED BY <1>6, <1>7, <1>8

LEMMA MemcopyPlaces ==
  ASSUME NEW os, NEW d, NEW p, NEW s, NEW q, NEW n, CopyArgs(os, d, p, s, q, n)
  PROVE  Copied(os, d, p, s, q, n, Memcopy(os, d, p, s, q, n))
<1>1. PICK f : CopySteps(os, d, p, s, q, n, f) /\ Memcopy(os, d, p, s, q, n) = f[n]
  BY MemcopySteps
<1>2. p \in Nat /\ q \in Nat /\ n \in Nat /\ n \in 0..n
  BY DEF CopyArgs
<1>3. f[n] \in Shape(os)
  BY <1>1, <1>2 DEF CopySteps
<1>4. \A a \in 1..Len(os) : \A j \in 1..Len(os[a]) :
        a # d \/ j \notin p+1..p+n => f[n][a][j] = os[a][j]
  BY <1>1, <1>2, NotYetWritten
<1>5. ASSUME ~CopiesUp(d, p, s, q, n), NEW i \in 1..n
      PROVE  f[n][d][p + i] = os[s][q + i]
  <2>1. i - 1 \in 0..n
    BY <1>2
  <2>2. s # d \/ q + i \notin p+1..p+(i-1)
    BY <1>2, <1>5 DEF CopiesUp
  <2>3. s \in 1..Len(os) /\ Len(os[s]) \in Nat
    BY DEF CopyArgs
  <2>4. q + i \in 1..Len(os[s])
    BY <1>2, <2>3 DEF CopyArgs
  <2>5. f[i-1][s][q + i] = os[s][q + i]
    BY <1>1, <2>1, <2>2, <2>3, <2>4, NotYetWritten
  <2>6. f[n][d][p + i] = f[i-1][s][q + i]
    BY <1>1, CopiedStays
  <2>. QED BY <2>5, <2>6
<1>. QED BY <1>1, <1>3, <1>4, <1>5 DEF Copied

LEMMA MemcopyEffect ==
  ASSUME NEW os \in Seq(Seq(Elem)), NEW d \in Nat, NEW s \in Nat,
         NEW p \in Nat, NEW q \in Nat, NEW n \in Nat,
         HasPlaces(os, d, p, n), HasPlaces(os, s, q, n)
  PROVE  Copied(os, d, p, s, q, n, Memcopy(os, d, p, s, q, n))
<1>1. CopyArgs(os, d, p, s, q, n)
  BY DEF CopyArgs, HasPlaces
<1>. QED BY <1>1, MemcopyPlaces

-----------------------------------------------------------------------------
(* Headers and arrays that fit together.                                     *)

Header == [arr : Nat, off : Nat, len : Nat, cap : Nat]

\* What w reaches is inside its array.
Reaches(w, os) ==
  /\ w.arr \in 0..Len(os)
  /\ w.len <= w.cap
  /\ w.off + w.cap <= (IF w.arr = 0 THEN 0 ELSE Len(os[w.arr]))

Fits(hs, os) ==
  /\ os \in Seq(Seq(Elem))
  /\ hs \in Seq(Header)
  /\ \A h \in 1..Len(hs) : Reaches(hs[h], os)

\* A sequence is one of the set its elements are in.
LEMMA SeqOfElements ==
  ASSUME NEW S, NEW s \in Seq(S)
  PROVE  /\ \A i \in 1..Len(s) : s[i] \in S
         /\ \A T : (\A i \in 1..Len(s) : s[i] \in T) => s \in Seq(T)
<1>1. \A i \in 1..Len(s) : s[i] \in S
  OBVIOUS
<1>2. ASSUME NEW T, \A i \in 1..Len(s) : s[i] \in T PROVE s \in Seq(T)
  <2>1. Len(s) \in Nat /\ s = [i \in 1..Len(s) |-> s[i]]
    OBVIOUS
  <2>. QED BY <1>2, <2>1
<1>. QED BY <1>1, <1>2

\* In these terms the invariants say:
LEMMA FitsInvariants ==
  hdr \in Seq([arr : 0..Len(array), off : Nat, len : Nat, cap : Nat])
    /\ array \in Seq(Seq(Elem)) /\ SlicesInArrays
  <=> Fits(hdr, array)
<1>1. ASSUME hdr \in Seq([arr : 0..Len(array), off : Nat, len : Nat, cap : Nat]),
             array \in Seq(Seq(Elem)), SlicesInArrays
      PROVE  Fits(hdr, array)
  <2>1. Len(array) \in Nat
    BY <1>1
  <2>2. \A h \in 1..Len(hdr) : hdr[h] \in [arr : 0..Len(array), off : Nat, len : Nat, cap : Nat]
    BY <1>1, SeqOfElements
  <2>3. ASSUME NEW h \in 1..Len(hdr) PROVE hdr[h] \in Header /\ Reaches(hdr[h], array)
    <3>1. hdr[h] \in [arr : 0..Len(array), off : Nat, len : Nat, cap : Nat]
      BY <2>2
    <3>2. /\ hdr[h].len <= hdr[h].cap
          /\ hdr[h].off + hdr[h].cap <= IF hdr[h].arr = 0 THEN 0 ELSE Len(array[hdr[h].arr])
      BY <1>1 DEF SlicesInArrays
    <3>. QED BY <2>1, <3>1, <3>2 DEF Header, Reaches
  <2>4. hdr \in Seq(Header)
    BY <1>1, <2>3, SeqOfElements
  <2>. QED BY <1>1, <2>3, <2>4 DEF Fits
<1>2. ASSUME Fits(hdr, array)
      PROVE  /\ hdr \in Seq([arr : 0..Len(array), off : Nat, len : Nat, cap : Nat])
             /\ array \in Seq(Seq(Elem)) /\ SlicesInArrays
  <2>1. \A h \in 1..Len(hdr) : hdr[h] \in Header /\ Reaches(hdr[h], array)
    BY <1>2 DEF Fits
  <2>2. \A h \in 1..Len(hdr) : hdr[h] \in [arr : 0..Len(array), off : Nat, len : Nat, cap : Nat]
    BY <2>1 DEF Header, Reaches
  <2>3. hdr \in Seq([arr : 0..Len(array), off : Nat, len : Nat, cap : Nat])
    <3>1. hdr \in Seq(Header)
      BY <1>2 DEF Fits
    <3>. QED BY <2>2, <3>1, SeqOfElements
  <2>4. SlicesInArrays
    BY <2>1 DEF SlicesInArrays, Reaches
  <2>. QED BY <1>2, <2>3, <2>4 DEF Fits
<1>. QED BY <1>1, <1>2

\* Arrays of the same shape hold the same headers.
LEMMA FitsShape ==
  ASSUME NEW hs, NEW os, Fits(hs, os), NEW bs \in Shape(os)
  PROVE  Fits(hs, bs)
<1>1. /\ bs \in Seq(Seq(Elem)) /\ Len(bs) = Len(os)
      /\ \A a \in 1..Len(os) : Len(bs[a]) = Len(os[a])
  BY DEF Shape
<1>2. ASSUME NEW h \in 1..Len(hs) PROVE Reaches(hs[h], bs)
  <2>1. Reaches(hs[h], os) /\ hs[h] \in Header /\ Len(os) \in Nat
    BY DEF Fits
  <2>. QED BY <1>1, <2>1 DEF Reaches, Header
<1>. QED BY <1>1, <1>2 DEF Fits

\* So do those with one more array.
LEMMA FitsAppend ==
  ASSUME NEW hs, NEW os, Fits(hs, os), NEW r \in Seq(Elem)
  PROVE  /\ Fits(hs, Append(os, r))
         /\ Len(Append(os, r)) = Len(os) + 1
         /\ Append(os, r)[Len(os) + 1] = r
         /\ \A a \in 1..Len(os) : Append(os, r)[a] = os[a]
<1>1. os \in Seq(Seq(Elem))
  BY DEF Fits
<1>2. /\ Append(os, r) \in Seq(Seq(Elem)) /\ Len(Append(os, r)) = Len(os) + 1
      /\ Append(os, r)[Len(os) + 1] = r
      /\ \A a \in 1..Len(os) : Append(os, r)[a] = os[a]
  BY <1>1
<1>3. ASSUME NEW h \in 1..Len(hs) PROVE Reaches(hs[h], Append(os, r))
  <2>1. Reaches(hs[h], os) /\ hs[h] \in Header /\ Len(os) \in Nat
    BY <1>1 DEF Fits
  <2>. QED BY <1>2, <2>1, SMTT(20) DEF Reaches, Header
<1>. QED BY <1>2, <1>3 DEF Fits

\* A header more.
LEMMA FitsHeader ==
  ASSUME NEW hs, NEW os, Fits(hs, os), NEW w \in Header, Reaches(w, os)
  PROVE  /\ Fits(Append(hs, w), os)
         /\ Len(Append(hs, w)) = Len(hs) + 1
         /\ Append(hs, w)[Len(hs) + 1] = w
         /\ \A h \in 1..Len(hs) : Append(hs, w)[h] = hs[h]
<1>1. hs \in Seq(Header) /\ os \in Seq(Seq(Elem)) /\ \A h \in 1..Len(hs) : Reaches(hs[h], os)
  BY DEF Fits
<1>2. /\ Append(hs, w) \in Seq(Header) /\ Len(Append(hs, w)) = Len(hs) + 1
      /\ Append(hs, w)[Len(hs) + 1] = w
      /\ \A h \in 1..Len(hs) : Append(hs, w)[h] = hs[h]
  BY <1>1
<1>3. \A h \in 1..Len(hs) + 1 : Reaches(Append(hs, w)[h], os)
  <2>1. Len(hs) \in Nat
    BY <1>1
  <2>. QED BY <1>1, <1>2, <2>1
<1>. QED BY <1>1, <1>2, <1>3 DEF Fits

\* A header changed.
LEMMA FitsChange ==
  ASSUME NEW hs, NEW os, Fits(hs, os), NEW h \in 1..Len(hs),
         NEW w \in Header, Reaches(w, os)
  PROVE  /\ Fits([hs EXCEPT ![h] = w], os)
         /\ Len([hs EXCEPT ![h] = w]) = Len(hs)
         /\ [hs EXCEPT ![h] = w][h] = w
         /\ \A g \in 1..Len(hs) : g # h => [hs EXCEPT ![h] = w][g] = hs[g]
<1>1. hs \in Seq(Header) /\ os \in Seq(Seq(Elem)) /\ \A g \in 1..Len(hs) : Reaches(hs[g], os)
  BY DEF Fits
<1>. DEFINE new == [hs EXCEPT ![h] = w]
<1>2. /\ new \in Seq(Header) /\ Len(new) = Len(hs) /\ new[h] = w
      /\ \A g \in 1..Len(hs) : g # h => new[g] = hs[g]
  BY <1>1
<1>. HIDE DEF new
<1>3. \A g \in 1..Len(hs) : Reaches(new[g], os)
  BY <1>1, <1>2
<1>4. Fits(new, os)
  BY <1>1, <1>2, <1>3 DEF Fits
<1>. QED BY <1>2, <1>4 DEF new

-----------------------------------------------------------------------------
(* Room to append.                                                           *)

Sound == Fits(hdr, array) /\ var \in [Var -> 0..Len(hdr)]

\* With headers hs and arrays os, header h has the elements of y and room for n
\* more: it is the header of y, or one of a new array.
Ready(hs, os, h, y, n) ==
  /\ Fits(hs, os)
  /\ h \in 1..Len(hs)
  /\ Len(hdr) <= Len(hs)
  /\ \A g \in 1..Len(hdr) : g # var[y] => hs[g] = hdr[g]
  /\ hs[h].len = Slice(y).len
  /\ Slice(y).len + n <= hs[h].cap
  /\ \A i \in 1..Slice(y).len :
       os[hs[h].arr][hs[h].off + i] = array[Slice(y).arr][Slice(y).off + i]
  /\ \/ var[y] # 0 /\ h = var[y] /\ hs = hdr /\ os = array
     \/ /\ h = IF var[y] = 0 THEN Len(hdr) + 1 ELSE var[y]
        /\ Slice(y).len + n > Slice(y).cap
        /\ hs[h].arr = Len(array) + 1
        /\ hs[h].off = 0
        /\ Len(os) = Len(array) + 1
        /\ \A a \in 1..Len(array) : os[a] = array[a]
        /\ Len(os[Len(array) + 1]) = hs[h].cap
        /\ \A i \in Slice(y).len+1..hs[h].cap : os[Len(array) + 1][i] = Zero

LEMMA FreshFacts ==
  ASSUME NEW c \in Nat
  PROVE  /\ Fresh(c) \in Seq(Elem) /\ Len(Fresh(c)) = c
         /\ \A i \in 1..c : Fresh(c)[i] = Zero
BY SliceAssumption DEF Fresh

LEMMA SliceFacts ==
  ASSUME Sound, NEW y \in Var
  PROVE  /\ Slice(y) \in Header /\ Reaches(Slice(y), array)
         /\ var[y] = 0 => Slice(y) = NoData
         /\ var[y] # 0 => var[y] \in 1..Len(hdr) /\ Slice(y) = hdr[var[y]]
<1>1. array \in Seq(Seq(Elem)) /\ var[y] \in 0..Len(hdr) /\ Len(hdr) \in Nat
  BY DEF Sound, Fits
<1>2. CASE var[y] = 0
  <2>1. Slice(y) = NoData
    BY <1>2 DEF Slice, Window
  <2>2. NoData \in Header /\ Reaches(NoData, array)
    BY <1>1 DEF NoData, Header, Reaches
  <2>. QED BY <1>2, <2>1, <2>2
<1>3. CASE var[y] # 0
  <2>1. Slice(y) = hdr[var[y]] /\ var[y] \in 1..Len(hdr)
    BY <1>1, <1>3 DEF Slice, Window
  <2>2. hdr[var[y]] \in Header /\ Reaches(hdr[var[y]], array)
    BY <2>1 DEF Sound, Fits
  <2>. QED BY <1>3, <2>1, <2>2
<1>. QED BY <1>2, <1>3

LEMMA ReadyHere ==
  ASSUME Sound, NEW y \in Var, NEW n \in Nat, var[y] # 0,
         Slice(y).len + n <= Slice(y).cap
  PROVE  Ready(hdr, array, var[y], y, n)
<1>1. var[y] \in 1..Len(hdr) /\ Slice(y) = hdr[var[y]]
  BY SliceFacts
<1>2. Fits(hdr, array) /\ Len(hdr) \in Nat
  BY DEF Sound, Fits
<1>. QED BY <1>1, <1>2 DEF Ready

\* A nil slice.
LEMMA ReadyNew ==
  ASSUME Sound, NEW y \in Var, var[y] = 0, NEW c \in Nat, NEW n \in 1..c
  PROVE  /\ Ready(Ensured(y, c).hs, Ensured(y, c).as, Ensured(y, c).h, y, n)
         /\ Ensured(y, c).hs[Ensured(y, c).h].len = 0
         /\ Ensured(y, c).hs[Ensured(y, c).h].cap = c
<1>. DEFINE w == [arr |-> Len(array) + 1, off |-> 0, len |-> 0, cap |-> c]
            os == Append(array, Fresh(c))
            hs == Append(hdr, w)
            h == Len(hdr) + 1
<1>1. Ensured(y, c) = [hs |-> hs, as |-> os, h |-> h]
  BY DEF Ensured
<1>2. Fits(hdr, array) /\ Len(array) \in Nat /\ Len(hdr) \in Nat
  BY DEF Sound, Fits
<1>3. /\ Fits(hdr, os) /\ Len(os) = Len(array) + 1 /\ os[Len(array) + 1] = Fresh(c)
      /\ \A a \in 1..Len(array) : os[a] = array[a]
  BY <1>2, FreshFacts, FitsAppend
<1>. HIDE DEF os
<1>4. Len(os[Len(array) + 1]) = c /\ \A i \in 1..c : os[Len(array) + 1][i] = Zero
  BY <1>3, FreshFacts
<1>5. w.arr = Len(array) + 1 /\ w.off = 0 /\ w.len = 0 /\ w.cap = c /\ w \in Header
  BY <1>2 DEF Header
<1>. HIDE DEF w
<1>6. Reaches(w, os)
  BY <1>2, <1>3, <1>4, <1>5 DEF Reaches
<1>7. /\ Fits(hs, os) /\ Len(hs) = Len(hdr) + 1 /\ hs[h] = w
      /\ \A g \in 1..Len(hdr) : hs[g] = hdr[g]
  BY <1>3, <1>5, <1>6, FitsHeader
<1>. HIDE DEF hs
<1>8. Slice(y).len = 0 /\ Slice(y).cap = 0
  BY SliceFacts DEF NoData
<1>9. Ready(hs, os, h, y, n)
  BY <1>2, <1>3, <1>4, <1>5, <1>7, <1>8 DEF Ready
<1>. QED BY <1>1, <1>5, <1>7, <1>9

\* os: the arrays os with one of c elements, k of them those after place q of
\* array s, the others zero.
Grown(os, c, s, q, k, bs) ==
  /\ bs \in Shape(Append(os, Fresh(c)))
  /\ Len(bs) = Len(os) + 1 /\ Len(bs[Len(os) + 1]) = c
  /\ \A a \in 1..Len(os) : bs[a] = os[a]
  /\ \A i \in 1..k : bs[Len(os) + 1][i] = os[s][q + i]
  /\ \A i \in k+1..c : bs[Len(os) + 1][i] = Zero

LEMMA GrownArray ==
  ASSUME NEW os \in Seq(Seq(Elem)), NEW c \in Nat, NEW s \in Nat, NEW q \in Nat,
         NEW k \in Nat, k <= c, k = 0 \/ HasPlaces(os, s, q, k)
  PROVE  Grown(os, c, s, q, k, Memcopy(Append(os, Fresh(c)), Len(os) + 1, 0, s, q, k))
<1>1. PICK old : old = Append(os, Fresh(c))
  OBVIOUS
<1>2. PICK b \in Nat : b = Len(os) + 1
  OBVIOUS
<1>3. PICK p \in Nat : p = 0
  OBVIOUS
<1>4. PICK bs : bs = Memcopy(old, b, p, s, q, k)
  OBVIOUS
<1>5. /\ old \in Seq(Seq(Elem)) /\ Len(old) = b /\ Len(os) \in Nat /\ old[b] = Fresh(c)
      /\ \A a \in 1..Len(os) : old[a] = os[a]
  <2>1. Fresh(c) \in Seq(Elem)
    BY FreshFacts
  <2>. QED BY <1>1, <1>2, <2>1
<1>6. /\ Len(old[b]) = c /\ \A i \in 1..c : old[b][i] = Zero
      /\ b \in 1..Len(old)
  <2>1. Len(Fresh(c)) = c
    BY FreshFacts
  <2>2. \A i \in 1..c : Fresh(c)[i] = Zero
    BY FreshFacts
  <2>3. b \in 1..Len(old)
    BY <1>2, <1>5
  <2>4. old[b] = Fresh(c)
    BY <1>5
  <2>. QED BY <2>1, <2>2, <2>3, <2>4, Zenon
<1>7. old \in Shape(old)
  BY <1>5 DEF Shape
<1>8. /\ bs \in Shape(old)
      /\ \A a \in 1..Len(old) : \A j \in 1..Len(old[a]) :
           a # b \/ j \notin 1..k => bs[a][j] = old[a][j]
      /\ \A i \in 1..k : bs[b][i] = os[s][q + i]
  <2>1. CASE k = 0
    <3>1. bs = old
      BY <1>4, <2>1, MemcopyNothing
    <3>. QED BY <1>7, <2>1, <3>1
  <2>2. CASE k # 0
    <3>1. s \in 1..Len(os) /\ q + k <= Len(os[s])
      BY <2>2 DEF HasPlaces
    <3>2. HasPlaces(old, s, q, k) /\ old[s] = os[s] /\ s # b
      BY <1>2, <1>5, <3>1, SMTT(20) DEF HasPlaces
    <3>3. HasPlaces(old, b, p, k)
      BY <1>3, <1>6 DEF HasPlaces
    <3>4. ~CopiesUp(b, p, s, q, k)
      BY <3>2 DEF CopiesUp
    <3>5. Copied(old, b, p, s, q, k, bs)
      BY <1>4, <1>5, <3>2, <3>3, MemcopyEffect
    <3>. QED BY <1>3, <3>2, <3>4, <3>5, SMTT(20) DEF Copied
  <2>. QED BY <2>1, <2>2
<1>9. /\ bs \in Seq(Seq(Elem)) /\ Len(bs) = b
      /\ \A a \in 1..Len(old) : Len(bs[a]) = Len(old[a])
  BY <1>5, <1>8 DEF Shape
<1>10. ASSUME NEW a \in 1..Len(os) PROVE bs[a] = os[a]
  <2>1. a \in 1..Len(old) /\ a # b /\ old[a] = os[a]
    BY <1>2, <1>5
  <2>2. bs[a] \in Seq(Elem) /\ os[a] \in Seq(Elem) /\ Len(bs[a]) = Len(os[a])
    BY <1>5, <1>9, <2>1
  <2>3. \A j \in 1..Len(os[a]) : bs[a][j] = os[a][j]
    BY <1>8, <2>1
  <2>. QED BY <2>2, <2>3, SeqEqual
<1>11. ASSUME NEW i \in k+1..c PROVE bs[b][i] = Zero
  <2>1. i \in 1..Len(old[b]) /\ i \notin 1..k /\ i \in 1..c
    BY <1>6
  <2>2. bs[b][i] = old[b][i]
    BY <1>6, <1>8, <2>1
  <2>. QED BY <1>6, <2>1, <2>2
<1>12. Len(bs[b]) = c
  BY <1>6, <1>9
<1>13. Grown(os, c, s, q, k, bs)
  BY <1>1, <1>2, <1>8, <1>9, <1>10, <1>11, <1>12 DEF Grown
<1>. QED BY <1>1, <1>2, <1>3, <1>4, <1>13

\* A slice without room.
LEMMA ReadyThere ==
  ASSUME Sound, NEW y \in Var, var[y] # 0, NEW n \in Nat, NEW c \in Nat,
         Slice(y).len + n > Slice(y).cap, Slice(y).len + n <= c
  PROVE  LET m == Regrown([hs |-> hdr, as |-> array, h |-> var[y]], c)
         IN  Ready(m.hs, m.as, m.h, y, n)
<1>. DEFINE w == Slice(y)
            b == Len(array) + 1
            v == [arr |-> b, off |-> 0, len |-> w.len, cap |-> c]
            os == Memcopy(Append(array, Fresh(c)), b, 0, w.arr, w.off, w.len)
            hs == [hdr EXCEPT ![var[y]] = v]
            m == Regrown([hs |-> hdr, as |-> array, h |-> var[y]], c)
<1>1. /\ w \in Header /\ Reaches(w, array)
      /\ var[y] \in 1..Len(hdr) /\ w = hdr[var[y]]
  BY SliceFacts
<1>2. m.hs = hs /\ m.as = os /\ m.h = var[y]
  BY <1>1 DEF Regrown
<1>3. Fits(hdr, array) /\ Len(array) \in Nat /\ Len(hdr) \in Nat /\ array \in Seq(Seq(Elem))
  BY DEF Sound, Fits
<1>4. PICK k \in Nat, q \in Nat, s \in Nat : k = w.len /\ q = w.off /\ s = w.arr
  BY <1>1 DEF Header
<1>5. k <= c /\ (k = 0 \/ HasPlaces(array, s, q, k))
  <2>1. w.cap \in Nat
    BY <1>1 DEF Header
  <2>2. s \in 0..Len(array) /\ k <= w.cap
    BY <1>1, <1>4 DEF Reaches
  <2>3. k <= c
    BY <1>4
  <2>4. CASE s = 0
    <3>1. q + w.cap <= 0
      BY <1>1, <1>4, <2>4 DEF Reaches
    <3>. QED BY <2>1, <2>2, <2>3, <3>1
  <2>5. CASE s # 0
    <3>1. q + w.cap <= Len(array[s])
      BY <1>1, <1>4, <2>5 DEF Reaches
    <3>2. s \in 1..Len(array) /\ Len(array[s]) \in Nat
      BY <1>3, <2>2, <2>5
    <3>. QED BY <2>1, <2>2, <2>3, <3>1, <3>2 DEF HasPlaces
  <2>. QED BY <2>4, <2>5
<1>6. /\ v.arr = b /\ v.off = 0 /\ v.len = k /\ v.cap = c /\ v \in Header
  BY <1>3, <1>4 DEF Header
<1>7. os = Memcopy(Append(array, Fresh(c)), Len(array) + 1, 0, s, q, k)
  BY <1>4
<1>. HIDE DEF m, v, os
<1>8. /\ os \in Shape(Append(array, Fresh(c)))
      /\ Len(os) = b /\ Len(os[b]) = c
      /\ \A a \in 1..Len(array) : os[a] = array[a]
      /\ \A i \in 1..k : os[b][i] = array[s][q + i]
      /\ \A i \in k+1..c : os[b][i] = Zero
  <2>1. Grown(array, c, s, q, k, os)
    BY <1>3, <1>5, <1>7, GrownArray
  <2>. QED BY <2>1 DEF Grown
<1>9. Fits(hdr, os)
  <2>1. Fits(hdr, Append(array, Fresh(c)))
    BY <1>3, FreshFacts, FitsAppend
  <2>. QED BY <1>8, <2>1, FitsShape
<1>10. Reaches(v, os)
  BY <1>3, <1>5, <1>6, <1>8 DEF Reaches
<1>11. /\ Fits(hs, os) /\ Len(hs) = Len(hdr) /\ hs[var[y]] = v
       /\ \A g \in 1..Len(hdr) : g # var[y] => hs[g] = hdr[g]
  BY <1>1, <1>6, <1>9, <1>10, FitsChange
<1>. HIDE DEF hs
<1>12. /\ hs[var[y]].len = w.len /\ hs[var[y]].cap = c
       /\ hs[var[y]].arr = b /\ hs[var[y]].off = 0
  BY <1>4, <1>6, <1>11
<1>13. \A i \in 1..w.len : os[b][0 + i] = array[w.arr][w.off + i]
  BY <1>4, <1>8
<1>14. \A i \in w.len+1..c : os[b][i] = Zero
  BY <1>4, <1>8
<1>15. var[y] \in 1..Len(hs) /\ Len(hdr) <= Len(hs)
  BY <1>1, <1>3, <1>11
<1>16. Ready(hs, os, var[y], y, n)
  BY <1>8, <1>11, <1>12, <1>13, <1>14, <1>15 DEF Ready
<1>. QED BY <1>2, <1>16 DEF m

\* The header both kinds of append begin with.
LEMMA EnsuredHeader ==
  ASSUME Sound, NEW y \in Var, NEW c \in Nat \ {0}
  PROVE  LET m1 == Ensured(y, c)
             w1 == m1.hs[m1.h]
         IN  /\ w1.len = Slice(y).len /\ w1.len \in Nat /\ w1.cap \in Nat
             /\ var[y] # 0 => w1.cap = Slice(y).cap
<1>1. CASE var[y] = 0
  <2>1. 1 \in 1..c
    OBVIOUS
  <2>2. LET m1 == Ensured(y, c) IN m1.hs[m1.h].len = 0 /\ m1.hs[m1.h].cap = c
    BY <1>1, <2>1, ReadyNew
  <2>3. Slice(y).len = 0
    BY <1>1, SliceFacts DEF NoData
  <2>. QED BY <1>1, <2>2, <2>3
<1>2. CASE var[y] # 0
  <2>1. Ensured(y, c) = [hs |-> hdr, as |-> array, h |-> var[y]] /\ Slice(y) = hdr[var[y]]
    BY <1>2, SliceFacts DEF Ensured
  <2>2. Slice(y).len \in Nat /\ Slice(y).cap \in Nat
    BY SliceFacts DEF Header
  <2>. QED BY <2>1, <2>2
<1>. QED BY <1>1, <1>2

\* What they do to have room.
LEMMA Room ==
  ASSUME Sound, NEW y \in Var, NEW n \in Nat \ {0}, NEW c \in Nat, n <= c, NEW d,
         var[y] # 0 => d \in Nat /\ Slice(y).len + n <= d
  PROVE  LET m1 == Ensured(y, c)
             w1 == m1.hs[m1.h]
             m == IF w1.len + n > w1.cap THEN Regrown(m1, d) ELSE m1
         IN  Ready(m.hs, m.as, m.h, y, n)
<1>. DEFINE m1 == Ensured(y, c)
            w1 == m1.hs[m1.h]
            m == IF w1.len + n > w1.cap THEN Regrown(m1, d) ELSE m1
<1>1. CASE var[y] = 0
  <2>1. Ready(m1.hs, m1.as, m1.h, y, n) /\ w1.len = 0 /\ w1.cap = c
    <3>1. n \in 1..c
      OBVIOUS
    <3>. QED BY <1>1, <3>1, ReadyNew
  <2>. HIDE DEF m1
  <2>2. ~(w1.len + n > w1.cap)
    BY <2>1
  <2>3. m = m1
    BY <2>2
  <2>. QED BY <2>1, <2>3 DEF m1
<1>2. CASE var[y] # 0
  <2>1. m1 = [hs |-> hdr, as |-> array, h |-> var[y]] /\ Slice(y) = hdr[var[y]]
    BY <1>2, SliceFacts DEF Ensured
  <2>2. m1.hs = hdr /\ m1.as = array /\ m1.h = var[y]
    BY <2>1
  <2>3. w1 = Slice(y) /\ Slice(y).len \in Nat /\ Slice(y).cap \in Nat
    BY <2>1, <2>2, SliceFacts DEF Header
  <2>. HIDE DEF m1
  <2>4. CASE Slice(y).len + n > Slice(y).cap
    <3>1. m = Regrown([hs |-> hdr, as |-> array, h |-> var[y]], d)
      BY <2>1, <2>3, <2>4
    <3>2. LET r == Regrown([hs |-> hdr, as |-> array, h |-> var[y]], d)
          IN  Ready(r.hs, r.as, r.h, y, n)
      BY <1>2, <2>4, ReadyThere
    <3>. HIDE DEF m
    <3>3. Ready(m.hs, m.as, m.h, y, n)
      BY <3>1, <3>2
    <3>. QED BY <3>3 DEF m, m1
  <2>5. CASE ~(Slice(y).len + n > Slice(y).cap)
    <3>1. Slice(y).len + n <= Slice(y).cap
      BY <2>3, <2>5
    <3>2. Ready(hdr, array, var[y], y, n)
      BY <1>2, <3>1, ReadyHere
    <3>3. m = m1
      BY <2>3, <2>5
    <3>. HIDE DEF m
    <3>4. Ready(m.hs, m.as, m.h, y, n)
      BY <2>2, <3>2, <3>3
    <3>. QED BY <3>4 DEF m, m1
  <2>. QED BY <2>4, <2>5
<1>. QED BY <1>1, <1>2

-----------------------------------------------------------------------------
(* The statements in other words.                                            *)

\* What an append of n elements leaves, the elements themselves aside.
Appended(x, y, n, hs, os, h) ==
  /\ Ready(hs, os, h, y, n)
  /\ MayAppend(x, y)
  /\ \A b \in 1..Len(os) : Len(os[b]) <= prog.cap
  /\ hdr' = [hs EXCEPT ![h].len = Slice(y).len + n]
  /\ var' = [var EXCEPT ![x] = h]
  /\ UNCHANGED <<iter, idx, val, ret, panicked>>

LEMMA AppendForm ==
  ASSUME Sound, NEW x \in Var, NEW y \in Var, NEW e \in Elem, SliceAppend(x, y, e)
  PROVE  \E hs, os, h :
           /\ Appended(x, y, 1, hs, os, h)
           /\ array' = Write(os, hs[h].arr, hs[h].off + Slice(y).len + 1, e)
<1>. DEFINE m1 == Ensured(y, InitCap)
            w1 == m1.hs[m1.h]
            newCap == IF w1.cap = 0 THEN InitCap ELSE 2 * w1.cap
            m == IF w1.len >= w1.cap THEN Regrown(m1, newCap) ELSE m1
            r == IF w1.len + 1 > w1.cap THEN Regrown(m1, newCap) ELSE m1
            w == m.hs[m.h]
<1>1. /\ MayAppend(x, y)
      /\ WithinBounds(m)
      /\ array' = [m.as EXCEPT ![w.arr][w.off + w.len + 1] = e]
      /\ hdr' = [m.hs EXCEPT ![m.h].len = @ + 1]
      /\ var' = [var EXCEPT ![x] = m.h]
      /\ UNCHANGED <<iter, idx, val, ret, panicked>>
  BY DEF SliceAppend
<1>2. InitCap \in Nat \ {0}
  BY SliceAssumption
<1>3. /\ w1.len = Slice(y).len /\ w1.len \in Nat /\ w1.cap \in Nat
      /\ var[y] # 0 => w1.cap = Slice(y).cap
  BY <1>2, EnsuredHeader
<1>4. Reaches(Slice(y), array)
  BY SliceFacts
<1>. HIDE DEF m1
<1>5. m = r
  BY <1>3
<1>6. var[y] # 0 => newCap \in Nat /\ Slice(y).len + 1 <= newCap
  BY <1>2, <1>3, <1>4, SMTT(20) DEF Reaches
<1>. HIDE DEF newCap
<1>7. Ready(r.hs, r.as, r.h, y, 1)
  <2>1. 1 \in Nat \ {0} /\ 1 <= InitCap /\ InitCap \in Nat
    BY <1>2
  <2>. QED BY <1>6, <2>1, Room DEF m1
<1>. HIDE DEF m, r
<1>8. PICK hs, os, h : hs = m.hs /\ os = m.as /\ h = m.h
  OBVIOUS
<1>9. Ready(hs, os, h, y, 1)
  BY <1>5, <1>7, <1>8
<1>10. hs[h].len = Slice(y).len
  BY <1>9 DEF Ready
<1>11. \A b \in 1..Len(os) : Len(os[b]) <= prog.cap
  BY <1>1, <1>8 DEF WithinBounds
<1>12. hdr' = [hs EXCEPT ![h].len = Slice(y).len + 1]
  BY <1>1, <1>8, <1>10
<1>13. array' = Write(os, hs[h].arr, hs[h].off + Slice(y).len + 1, e)
  BY <1>1, <1>8, <1>10, SMTT(20) DEF Write
<1>14. Appended(x, y, 1, hs, os, h)
  BY <1>1, <1>8, <1>9, <1>11, <1>12 DEF Appended
<1>. QED BY <1>13, <1>14, SMTT(20)

LEMMA AppendSliceForm ==
  ASSUME Sound, NEW x \in Var, NEW y \in Var, NEW z \in Var, SliceAppendSlice(x, y, z)
  PROVE  /\ Slice(z).len \in Nat \ {0}
         /\ \E hs, os, h :
              /\ Appended(x, y, Slice(z).len, hs, os, h)
              /\ prog.overlap \/ ~CopiesUp(hs[h].arr, hs[h].off + Slice(y).len,
                                          hs[var[z]].arr, hs[var[z]].off, Slice(z).len)
              /\ array' = Memcopy(os, hs[h].arr, hs[h].off + Slice(y).len,
                                  hs[var[z]].arr, hs[var[z]].off, Slice(z).len)
<1>. DEFINE n == Slice(z).len
            m1 == Ensured(y, n)
            w1 == m1.hs[m1.h]
            needed == w1.len + n
            newCap == IF 2 * w1.cap < needed THEN needed ELSE 2 * w1.cap
            m == IF needed > w1.cap THEN Regrown(m1, newCap) ELSE m1
            w == m.hs[m.h]
            src == m.hs[var[z]]
<1>1. /\ n > 0
      /\ MayAppend(x, y)
      /\ WithinBounds(m)
      /\ prog.overlap \/ ~CopiesUp(w.arr, w.off + w.len, src.arr, src.off, n)
      /\ array' = Memcopy(m.as, w.arr, w.off + w.len, src.arr, src.off, n)
      /\ hdr' = [m.hs EXCEPT ![m.h].len = needed]
      /\ var' = [var EXCEPT ![x] = m.h]
      /\ UNCHANGED <<iter, idx, val, ret, panicked>>
  BY DEF SliceAppendSlice
<1>2. n \in Nat \ {0}
  <2>1. Slice(z) \in Header
    BY SliceFacts
  <2>2. n \in Nat
    BY <2>1, SMTT(20) DEF Header
  <2>3. n > 0
    BY DEF SliceAppendSlice
  <2>. HIDE DEF n
  <2>. QED BY <2>2, <2>3
<1>. HIDE DEF n
<1>3. /\ w1.len = Slice(y).len /\ w1.len \in Nat /\ w1.cap \in Nat
      /\ var[y] # 0 => w1.cap = Slice(y).cap
  BY <1>2, EnsuredHeader
<1>. HIDE DEF m1
<1>4. needed = Slice(y).len + n /\ needed \in Nat
  BY <1>2, <1>3
<1>5. var[y] # 0 => newCap \in Nat /\ Slice(y).len + n <= newCap
  BY <1>3, <1>4
<1>. HIDE DEF newCap
<1>6. Ready(m.hs, m.as, m.h, y, n)
  <2>1. n <= n /\ n \in Nat
    BY <1>2
  <2>. QED BY <1>2, <1>5, <2>1, Room DEF m1
<1>. HIDE DEF m, needed
<1>7. PICK hs, os, h : hs = m.hs /\ os = m.as /\ h = m.h
  OBVIOUS
<1>8. Ready(hs, os, h, y, n)
  BY <1>6, <1>7
<1>9. hs[h].len = Slice(y).len
  BY <1>8 DEF Ready
<1>10. \A b \in 1..Len(os) : Len(os[b]) <= prog.cap
  BY <1>1, <1>7 DEF WithinBounds
<1>11. hdr' = [hs EXCEPT ![h].len = Slice(y).len + n]
  BY <1>1, <1>4, <1>7
<1>12. Appended(x, y, n, hs, os, h)
  BY <1>1, <1>7, <1>8, <1>10, <1>11 DEF Appended
<1>13. /\ prog.overlap \/ ~CopiesUp(hs[h].arr, hs[h].off + Slice(y).len,
                                   hs[var[z]].arr, hs[var[z]].off, n)
       /\ array' = Memcopy(os, hs[h].arr, hs[h].off + Slice(y).len,
                           hs[var[z]].arr, hs[var[z]].off, n)
  BY <1>1, <1>7, <1>9
<1>. QED BY <1>2, <1>12, <1>13, SMTT(20) DEF n

\* The places an append writes to.
LEMMA ReadyPlaces ==
  ASSUME Sound, NEW y \in Var, NEW n \in Nat \ {0}, NEW hs, NEW os, NEW h,
         Ready(hs, os, h, y, n)
  PROVE  /\ hs[h] \in Header /\ Reaches(hs[h], os)
         /\ Slice(y).len \in Nat
         /\ HasPlaces(os, hs[h].arr, hs[h].off + Slice(y).len, n)
<1>1. hs[h] \in Header /\ Reaches(hs[h], os) /\ os \in Seq(Seq(Elem))
  BY DEF Ready, Fits
<1>2. hs[h].len = Slice(y).len /\ Slice(y).len + n <= hs[h].cap
  BY DEF Ready
<1>3. hs[h].arr \in Nat /\ hs[h].off \in Nat /\ hs[h].len \in Nat /\ hs[h].cap \in Nat
  BY <1>1 DEF Header
<1>4. hs[h].arr # 0
  BY <1>1, <1>2, <1>3, SMTT(20) DEF Reaches
<1>5. hs[h].arr \in 1..Len(os)
  BY <1>1, <1>3, <1>4 DEF Reaches
<1>6. Len(os[hs[h].arr]) \in Nat
  BY <1>1, <1>5
<1>7. hs[h].off + Slice(y).len + n <= Len(os[hs[h].arr])
  <2>1. hs[h].off + hs[h].cap <= Len(os[hs[h].arr])
    BY <1>1, <1>4 DEF Reaches
  <2>2. PICK o \in Nat, k \in Nat, c \in Nat, l \in Nat :
          o = hs[h].off /\ k = Slice(y).len /\ c = hs[h].cap /\ l = Len(os[hs[h].arr])
    BY <1>2, <1>3, <1>6
  <2>3. o + c <= l /\ k + n <= c
    BY <1>2, <2>1, <2>2
  <2>4. o + k + n <= l
    BY <2>3
  <2>. QED BY <2>2, <2>4
<1>. QED BY <1>1, <1>2, <1>3, <1>5, <1>7 DEF HasPlaces

\* The invariants after an append, and no header gets shorter.
LEMMA AppendedSound ==
  ASSUME Sound, NEW x \in Var, NEW y \in Var, NEW n \in Nat \ {0}, NEW hs, NEW os, NEW h,
         Appended(x, y, n, hs, os, h), array' \in Shape(os)
  PROVE  /\ Sound'
         /\ Len(hdr') >= Len(hdr)
         /\ \A g \in 1..Len(hdr) : hdr'[g].len >= hdr[g].len
         /\ hdr'[h] = [hs[h] EXCEPT !.len = Slice(y).len + n]
         /\ \A g \in 1..Len(hs) : g # h => hdr'[g] = hs[g]
<1>1. Ready(hs, os, h, y, n)
  BY DEF Appended
<1>2. /\ hs[h] \in Header /\ Reaches(hs[h], os) /\ Slice(y).len \in Nat
  BY <1>1, ReadyPlaces
<1>3. /\ Fits(hs, os) /\ h \in 1..Len(hs) /\ Len(hdr) <= Len(hs)
      /\ Slice(y).len + n <= hs[h].cap
      /\ \A g \in 1..Len(hdr) : g # var[y] => hs[g] = hdr[g]
  BY <1>1 DEF Ready
<1>. DEFINE v == [hs[h] EXCEPT !.len = Slice(y).len + n]
<1>4. v \in Header /\ Reaches(v, os) /\ v.len = Slice(y).len + n
  <2>1. PICK r \in Header : r = hs[h]
    BY <1>2
  <2>2. PICK k \in Nat : k = Slice(y).len + n
    BY <1>2
  <2>3. v = [r EXCEPT !.len = k]
    BY <2>1, <2>2
  <2>4. [r EXCEPT !.len = k] = [arr |-> r.arr, off |-> r.off, len |-> k, cap |-> r.cap]
    BY DEF Header
  <2>5. v \in Header /\ v.arr = r.arr /\ v.off = r.off /\ v.len = k /\ v.cap = r.cap
    BY <2>3, <2>4 DEF Header
  <2>. HIDE DEF v
  <2>. QED BY <1>2, <1>3, <2>1, <2>2, <2>5 DEF Reaches
<1>5. hdr' = [hs EXCEPT ![h] = v] /\ var' = [var EXCEPT ![x] = h]
  BY DEF Appended
<1>. HIDE DEF v
<1>6. /\ Fits(hdr', os) /\ Len(hdr') = Len(hs) /\ hdr'[h] = v
      /\ \A g \in 1..Len(hs) : g # h => hdr'[g] = hs[g]
  <2>. DEFINE new == [hs EXCEPT ![h] = v]
  <2>1. /\ Fits(new, os) /\ Len(new) = Len(hs) /\ new[h] = v
        /\ \A g \in 1..Len(hs) : g # h => new[g] = hs[g]
    BY <1>3, <1>4, FitsChange
  <2>2. hdr' = new
    BY <1>5
  <2>. HIDE DEF new
  <2>. QED BY <2>1, <2>2
<1>7. Fits(hdr', array')
  BY <1>6, FitsShape
<1>8. Len(hs) \in Nat /\ Len(hdr) \in Nat
  BY <1>3 DEF Fits, Sound
<1>9. var' \in [Var -> 0..Len(hdr')]
  BY <1>3, <1>5, <1>6, <1>8 DEF Sound
<1>10. Sound'
  BY <1>7, <1>9 DEF Sound
<1>11. ASSUME NEW g \in 1..Len(hdr) PROVE hdr'[g].len >= hdr[g].len
  <2>1. hdr[g].len \in Nat /\ g \in 1..Len(hs)
    <3>1. hdr \in Seq(Header)
      BY DEF Sound, Fits
    <3>2. hdr[g] \in Header
      BY <3>1
    <3>. QED BY <1>3, <1>8, <3>2 DEF Header
  <2>2. CASE g = h
    <3>1. g = var[y] /\ Slice(y) = hdr[g]
      BY <1>1, <1>8, <2>2, SliceFacts DEF Ready
    <3>. QED BY <1>2, <1>4, <1>6, <2>1, <2>2, <3>1
  <2>3. CASE g # h
    <3>1. hdr'[g] = hs[g]
      BY <1>6, <2>1, <2>3
    <3>2. hs[g] = hdr[g]
      BY <1>1, <1>8, <2>3 DEF Ready
    <3>. QED BY <2>1, <3>1, <3>2
  <2>. QED BY <2>2, <2>3
<1>. QED BY <1>3, <1>6, <1>8, <1>10, <1>11 DEF v

\* The element an append writes, and what it leaves of the others.
LEMMA AppendWrites ==
  ASSUME Sound, NEW y \in Var, NEW e \in Elem, NEW hs, NEW os, NEW h,
         Ready(hs, os, h, y, 1)
  PROVE  LET w == hs[h]
             bs == Write(os, w.arr, w.off + Slice(y).len + 1, e)
         IN  /\ bs \in Shape(os)
             /\ bs[w.arr][w.off + Slice(y).len + 1] = e
             /\ \A a \in 1..Len(os) : \A j \in 1..Len(os[a]) :
                  a # w.arr \/ j # w.off + Slice(y).len + 1 => bs[a][j] = os[a][j]
<1>1. hs[h] \in Header /\ Slice(y).len \in Nat
      /\ HasPlaces(os, hs[h].arr, hs[h].off + Slice(y).len, 1)
  <2>1. 1 \in Nat \ {0}
    OBVIOUS
  <2>. QED BY <2>1, ReadyPlaces
<1>2. PICK a \in 1..Len(os) : a = hs[h].arr
  BY <1>1 DEF HasPlaces
<1>3. os \in Seq(Seq(Elem)) /\ Len(os[a]) \in Nat
  BY <1>2, SMTT(20) DEF Ready, Fits
<1>4. PICK p \in Nat : p = hs[h].off + Slice(y).len
  BY <1>1 DEF Header
<1>5. PICK j \in 1..Len(os[a]) : j = p + 1
  BY <1>1, <1>2, <1>3, <1>4 DEF HasPlaces
<1>6. os \in Shape(os)
  BY <1>3 DEF Shape
<1>7. /\ Write(os, a, j, e) \in Shape(os)
      /\ Write(os, a, j, e)[a][j] = e
      /\ \A c \in 1..Len(os) : \A i \in 1..Len(os[c]) :
           c # a \/ i # j => Write(os, a, j, e)[c][i] = os[c][i]
  <2>1. PICK r \in Shape(os) : r = os
    BY <1>6
  <2>2. \A i \in 1..Len(os[a]), d \in Elem :
          /\ Write(r, a, i, d) \in Shape(os)
          /\ Write(r, a, i, d)[a][i] = d
          /\ \A c \in 1..Len(os) : \A k \in 1..Len(os[c]) :
               c # a \/ k # i => Write(r, a, i, d)[c][k] = r[c][k]
    BY <1>3, WriteShape DEF WritesOne
  <2>. QED BY <2>1, <2>2, SMTT(20)
<1>8. j = hs[h].off + Slice(y).len + 1
  BY <1>4, <1>5
<1>. QED BY <1>2, <1>7, <1>8

\* The places the elements to append come from.
LEMMA ReadySource ==
  ASSUME Sound, NEW y \in Var, NEW z \in Var, Slice(z).len \in Nat \ {0},
         NEW hs, NEW os, NEW h, Ready(hs, os, h, y, Slice(z).len)
  PROVE  /\ hs[var[z]] \in Header /\ var[z] \in 1..Len(hdr)
         /\ HasPlaces(os, hs[var[z]].arr, hs[var[z]].off, Slice(z).len)
<1>1. var[z] \in 1..Len(hdr) /\ Slice(z) = hdr[var[z]]
  <2>1. NoData.len = 0
    BY DEF NoData
  <2>. QED BY <2>1, SliceFacts
<1>2. /\ Fits(hs, os) /\ h \in 1..Len(hs) /\ Len(hdr) <= Len(hs)
      /\ hs[h].len = Slice(y).len
      /\ \A g \in 1..Len(hdr) : g # var[y] => hs[g] = hdr[g]
      /\ h = var[y] \/ h = Len(hdr) + 1
      /\ var[y] # 0 => h = var[y]
  BY DEF Ready
<1>3. Len(hdr) \in Nat /\ Len(hs) \in Nat
  BY <1>2 DEF Sound, Fits
<1>4. hs[var[z]].len = Slice(z).len
  <2>1. CASE var[z] = var[y]
    <3>1. Slice(y) = Slice(z)
      BY <2>1 DEF Slice
    <3>. QED BY <1>1, <1>2, <2>1, <3>1
  <2>2. CASE var[z] # var[y]
    BY <1>1, <1>2, <2>2
  <2>. QED BY <2>1, <2>2
<1>5. var[z] \in 1..Len(hs)
  BY <1>1, <1>2, <1>3
<1>6. PICK r \in Header : r = hs[var[z]] /\ Reaches(r, os)
  BY <1>2, <1>5 DEF Fits
<1>7. r.arr \in Nat /\ r.off \in Nat /\ r.len \in Nat /\ r.cap \in Nat /\ r.len # 0
  BY <1>4, <1>6 DEF Header
<1>8. r.arr # 0
  BY <1>6, <1>7, SMTT(20) DEF Reaches
<1>9. r.arr \in 1..Len(os)
  BY <1>6, <1>7, <1>8 DEF Reaches
<1>10. Len(os[r.arr]) \in Nat
  BY <1>2, <1>9 DEF Fits
<1>11. r.off + r.len <= Len(os[r.arr])
  BY <1>6, <1>7, <1>8, <1>10, SMTT(20) DEF Reaches
<1>. QED BY <1>1, <1>4, <1>6, <1>9, <1>11 DEF HasPlaces

\* The elements an append of a slice writes.
LEMMA AppendCopies ==
  ASSUME Sound, NEW y \in Var, NEW z \in Var, Slice(z).len \in Nat \ {0},
         NEW hs, NEW os, NEW h, Ready(hs, os, h, y, Slice(z).len)
  PROVE  LET w == hs[h]
             v == hs[var[z]]
             p == w.off + Slice(y).len
         IN  Copied(os, w.arr, p, v.arr, v.off, Slice(z).len,
                    Memcopy(os, w.arr, p, v.arr, v.off, Slice(z).len))
<1>1. /\ hs[h] \in Header /\ Slice(y).len \in Nat
      /\ HasPlaces(os, hs[h].arr, hs[h].off + Slice(y).len, Slice(z).len)
  BY ReadyPlaces
<1>2. /\ hs[var[z]] \in Header
      /\ HasPlaces(os, hs[var[z]].arr, hs[var[z]].off, Slice(z).len)
  BY ReadySource
<1>3. PICK d \in Nat, p \in Nat : d = hs[h].arr /\ p = hs[h].off + Slice(y).len
  BY <1>1 DEF Header
<1>4. PICK s \in Nat, q \in Nat, n \in Nat :
        s = hs[var[z]].arr /\ q = hs[var[z]].off /\ n = Slice(z).len
  BY <1>2 DEF Header
<1>5. os \in Seq(Seq(Elem))
  BY DEF Ready, Fits
<1>6. Copied(os, d, p, s, q, n, Memcopy(os, d, p, s, q, n))
  BY <1>1, <1>2, <1>3, <1>4, <1>5, MemcopyEffect
<1>. QED BY <1>3, <1>4, <1>6

\* What copy does.
LEMMA CopyEffect ==
  ASSUME Sound, NEW x \in Var, NEW y \in Var, SliceCopy(x, y)
  PROVE  /\ array' \in Shape(array)
         /\ ret' \in Nat
         /\ ret' = IF Slice(y).len < Slice(x).len THEN Slice(y).len ELSE Slice(x).len
         /\ ret' = 0 => array' = array
         /\ ret' # 0 => Copied(array, Slice(x).arr, Slice(x).off,
                               Slice(y).arr, Slice(y).off, ret', array')
<1>1. /\ Slice(x) \in Header /\ Reaches(Slice(x), array)
      /\ Slice(y) \in Header /\ Reaches(Slice(y), array)
      /\ array \in Seq(Seq(Elem))
  BY SliceFacts DEF Sound, Fits
<1>2. PICK d \in Header, s \in Header : d = Slice(x) /\ s = Slice(y)
  BY <1>1
<1>3. /\ d.arr \in Nat /\ d.off \in Nat /\ d.len \in Nat /\ d.cap \in Nat
      /\ s.arr \in Nat /\ s.off \in Nat /\ s.len \in Nat /\ s.cap \in Nat
  BY DEF Header
<1>4. PICK n \in Nat : n = IF s.len < d.len THEN s.len ELSE d.len
  BY <1>3
<1>5. array' = Memcopy(array, d.arr, d.off, s.arr, s.off, n) /\ ret' = n
  BY <1>2, <1>4 DEF SliceCopy
<1>6. array \in Shape(array)
  BY <1>1 DEF Shape
<1>7. CASE n = 0
  <2>1. array' = array
    BY <1>5, <1>7, MemcopyNothing
  <2>. QED BY <1>2, <1>4, <1>5, <1>6, <1>7, <2>1
<1>8. CASE n # 0
  <2>1. ASSUME NEW r \in Header, Reaches(r, array), n <= r.len
        PROVE  HasPlaces(array, r.arr, r.off, n)
    <3>1. r.arr \in Nat /\ r.off \in Nat /\ r.len \in Nat /\ r.cap \in Nat
      BY DEF Header
    <3>2. r.arr # 0
      BY <1>8, <2>1, <3>1 DEF Reaches
    <3>3. r.arr \in 1..Len(array)
      BY <2>1, <3>1, <3>2 DEF Reaches
    <3>4. Len(array[r.arr]) \in Nat
      BY <1>1, <3>3
    <3>5. r.off + n <= Len(array[r.arr])
      BY <2>1, <3>1, <3>2, <3>4, SMTT(20) DEF Reaches
    <3>. QED BY <3>3, <3>5 DEF HasPlaces
  <2>2. n <= d.len /\ n <= s.len
    BY <1>3, <1>4
  <2>3. HasPlaces(array, d.arr, d.off, n) /\ HasPlaces(array, s.arr, s.off, n)
    BY <1>1, <1>2, <2>1, <2>2
  <2>4. Copied(array, d.arr, d.off, s.arr, s.off, n, array')
    <3>1. PICK a \in Nat, p \in Nat, b \in Nat, q \in Nat :
            a = d.arr /\ p = d.off /\ b = s.arr /\ q = s.off
      BY <1>3
    <3>2. Copied(array, a, p, b, q, n, Memcopy(array, a, p, b, q, n))
      BY <1>1, <2>3, <3>1, MemcopyEffect
    <3>. QED BY <1>5, <3>1, <3>2
  <2>. QED BY <1>2, <1>4, <1>5, <1>8, <2>4 DEF Copied
<1>. QED BY <1>7, <1>8

-----------------------------------------------------------------------------
(* The inductive invariant.                                                  *)

\* A header is never shortened, so that a range loop never runs past the end.
SliceInv ==
  /\ prog \in Kinds
  /\ Sound
  /\ iter \in 0..Len(hdr)
  /\ idx \in Nat
  /\ idx <= Window(iter).len
  /\ panicked \in BOOLEAN

Lasting ==
  /\ Len(hdr') >= Len(hdr)
  /\ \A g \in 1..Len(hdr) : hdr'[g].len >= hdr[g].len

LEMMA SoundFacts ==
  ASSUME Sound
  PROVE  /\ array \in Seq(Seq(Elem)) /\ Len(array) \in Nat
         /\ hdr \in Seq(Header) /\ Len(hdr) \in Nat
         /\ \A g \in 1..Len(hdr) : hdr[g] \in Header /\ hdr[g].len \in Nat
         /\ var \in [Var -> 0..Len(hdr)]
<1>1. hdr \in Seq(Header) /\ array \in Seq(Seq(Elem)) /\ var \in [Var -> 0..Len(hdr)]
  BY DEF Sound, Fits
<1>2. \A g \in 1..Len(hdr) : hdr[g] \in Header
  BY <1>1
<1>. QED BY <1>1, <1>2, SMTT(20) DEF Header

\* The headers as they were.
LEMMA SameHeaders ==
  ASSUME Sound, UNCHANGED hdr, array' \in Shape(array), var' \in [Var -> 0..Len(hdr)]
  PROVE  Sound' /\ Lasting
<1>1. Fits(hdr, array')
  BY FitsShape DEF Sound
<1>2. Sound'
  BY <1>1 DEF Sound
<1>3. \A g \in 1..Len(hdr) : hdr[g].len \in Nat
  BY SoundFacts
<1>4. Len(hdr) \in Nat
  BY SoundFacts
<1>. QED BY <1>2, <1>3, <1>4 DEF Lasting

LEMMA SameArrays ==
  ASSUME Sound
  PROVE  array \in Shape(array)
<1>1. array \in Seq(Seq(Elem))
  BY SoundFacts
<1>. QED BY <1>1 DEF Shape

\* A header more, of an array that is there.
LEMMA OneMoreHeader ==
  ASSUME Sound, Fits(hdr, array'), NEW x \in Var, NEW w \in Header, Reaches(w, array'),
         NewHeader(x, w)
  PROVE  /\ Sound' /\ Lasting
         /\ var'[x] = Len(hdr) + 1 /\ hdr'[Len(hdr) + 1] = w
         /\ \A g \in 1..Len(hdr) : hdr'[g] = hdr[g]
<1>1. hdr' = Append(hdr, w) /\ var' = [var EXCEPT ![x] = Len(hdr) + 1]
  BY DEF NewHeader
<1>2. /\ Fits(hdr', array') /\ Len(hdr') = Len(hdr) + 1 /\ hdr'[Len(hdr) + 1] = w
      /\ \A g \in 1..Len(hdr) : hdr'[g] = hdr[g]
  <2>. DEFINE new == Append(hdr, w)
  <2>1. /\ Fits(new, array') /\ Len(new) = Len(hdr) + 1 /\ new[Len(hdr) + 1] = w
        /\ \A g \in 1..Len(hdr) : new[g] = hdr[g]
    BY FitsHeader
  <2>2. hdr' = new
    BY <1>1
  <2>. HIDE DEF new
  <2>. QED BY <2>1, <2>2
<1>3. Len(hdr) \in Nat /\ var \in [Var -> 0..Len(hdr)]
  BY SoundFacts
<1>4. var' \in [Var -> 0..Len(hdr')]
  BY <1>1, <1>2, <1>3
<1>5. Sound'
  BY <1>2, <1>4 DEF Sound
<1>6. \A g \in 1..Len(hdr) : hdr[g].len \in Nat
  BY SoundFacts
<1>7. Lasting
  BY <1>2, <1>3, <1>6 DEF Lasting
<1>8. var'[x] = Len(hdr) + 1
  BY <1>1, <1>3
<1>. QED BY <1>2, <1>5, <1>7, <1>8

LEMMA AssignSound ==
  ASSUME Sound, NEW x \in Var, NEW y \in Var, Assign(x, y)
  PROVE  Sound' /\ Lasting
<1>1. var' \in [Var -> 0..Len(hdr)] /\ UNCHANGED <<array, hdr>>
  BY SoundFacts DEF Assign
<1>. QED BY <1>1, SameArrays, SameHeaders

LEMMA MakeSound ==
  ASSUME Sound, NEW x \in Var, NEW c \in Nat, NEW n \in 0..c, SliceMakeCap(x, n, c)
  PROVE  Sound' /\ Lasting
<1>1. CASE c > 0
  <2>. DEFINE w == [arr |-> Len(array) + 1, off |-> 0, len |-> n, cap |-> c]
  <2>1. array' = Append(array, Fresh(c)) /\ NewHeader(x, w)
    BY <1>1 DEF SliceMakeCap
  <2>2. Len(array) \in Nat /\ Fits(hdr, array)
    BY SoundFacts DEF Sound
  <2>3. /\ Fits(hdr, array') /\ Len(array') = Len(array) + 1
        /\ array'[Len(array) + 1] = Fresh(c)
    BY <2>1, <2>2, FreshFacts, FitsAppend
  <2>4. w \in Header /\ w.arr = Len(array) + 1 /\ w.off = 0 /\ w.len = n /\ w.cap = c
    BY <2>2 DEF Header
  <2>. HIDE DEF w
  <2>5. Len(array'[Len(array) + 1]) = c
    BY <2>3, FreshFacts
  <2>6. Reaches(w, array')
    BY <2>2, <2>3, <2>4, <2>5 DEF Reaches
  <2>. QED BY <2>1, <2>3, <2>4, <2>6, OneMoreHeader
<1>2. CASE c = 0
  <2>1. array' = array /\ NewHeader(x, NoData)
    BY <1>2 DEF SliceMakeCap
  <2>2. NoData \in Header /\ Reaches(NoData, array')
    <3>1. Len(array) \in Nat
      BY SoundFacts
    <3>. QED BY <2>1, <3>1 DEF NoData, Header, Reaches
  <2>3. Fits(hdr, array')
    BY <2>1 DEF Sound
  <2>. QED BY <2>1, <2>2, <2>3, OneMoreHeader
<1>. QED BY <1>1, <1>2

LEMMA AppendSound ==
  ASSUME Sound, NEW x \in Var, NEW y \in Var, NEW e \in Elem, SliceAppend(x, y, e)
  PROVE  Sound' /\ Lasting
<1>1. PICK hs, os, h :
        /\ Appended(x, y, 1, hs, os, h)
        /\ array' = Write(os, hs[h].arr, hs[h].off + Slice(y).len + 1, e)
  BY AppendForm
<1>2. Ready(hs, os, h, y, 1)
  BY <1>1 DEF Appended
<1>3. array' \in Shape(os)
  BY <1>1, <1>2, AppendWrites
<1>4. 1 \in Nat \ {0}
  OBVIOUS
<1>. QED BY <1>1, <1>3, <1>4, AppendedSound DEF Lasting

LEMMA AppendSliceSound ==
  ASSUME Sound, NEW x \in Var, NEW y \in Var, NEW z \in Var, SliceAppendSlice(x, y, z)
  PROVE  Sound' /\ Lasting
<1>1. Slice(z).len \in Nat \ {0}
  BY AppendSliceForm
<1>2. PICK hs, os, h :
        /\ Appended(x, y, Slice(z).len, hs, os, h)
        /\ array' = Memcopy(os, hs[h].arr, hs[h].off + Slice(y).len,
                            hs[var[z]].arr, hs[var[z]].off, Slice(z).len)
  BY AppendSliceForm
<1>3. Ready(hs, os, h, y, Slice(z).len)
  BY <1>2 DEF Appended
<1>4. array' \in Shape(os)
  BY <1>1, <1>2, <1>3, AppendCopies DEF Copied
<1>. QED BY <1>1, <1>2, <1>4, AppendedSound DEF Lasting

LEMMA CopySound ==
  ASSUME Sound, NEW x \in Var, NEW y \in Var, SliceCopy(x, y)
  PROVE  Sound' /\ Lasting
<1>1. array' \in Shape(array) /\ UNCHANGED <<hdr, var>>
  BY CopyEffect DEF SliceCopy
<1>. QED BY <1>1, SoundFacts, SameHeaders

LEMMA ResliceSound ==
  ASSUME Sound, NEW x \in Var, NEW y \in Var, NEW low \in Nat, NEW high \in Nat,
         SliceReslice(x, y, low, high)
  PROVE  Sound' /\ Lasting
<1>1. /\ low <= high /\ high <= Slice(y).cap
      /\ NewHeader(x, Resliced(Slice(y), low, high))
      /\ UNCHANGED array
  BY DEF SliceReslice
<1>2. Slice(y) \in Header /\ Reaches(Slice(y), array) /\ array \in Seq(Seq(Elem))
  BY SliceFacts, SoundFacts
<1>3. PICK w \in Header : w = Slice(y)
  BY <1>2
<1>. DEFINE v == Resliced(w, low, high)
<1>4. w.arr \in Nat /\ w.off \in Nat /\ w.len \in Nat /\ w.cap \in Nat
  BY DEF Header
<1>5. v = [arr |-> w.arr, off |-> w.off + low, len |-> high - low, cap |-> w.cap - low]
  BY DEF Resliced
<1>6. /\ v.arr = w.arr /\ v.off = w.off + low /\ v.len = high - low /\ v.cap = w.cap - low
      /\ v \in Header
  BY <1>1, <1>3, <1>4, <1>5 DEF Header
<1>. HIDE DEF v
<1>7. Reaches(v, array)
  <2>1. v.off + v.cap = w.off + w.cap /\ v.len <= v.cap
    BY <1>1, <1>3, <1>4, <1>6
  <2>. QED BY <1>2, <1>3, <1>6, <2>1 DEF Reaches
<1>8. Fits(hdr, array') /\ Reaches(v, array')
  BY <1>1, <1>7 DEF Sound
<1>9. NewHeader(x, v)
  BY <1>1, <1>3 DEF v
<1>. QED BY <1>6, <1>8, <1>9, OneMoreHeader

LEMMA ResliceNilSound ==
  ASSUME Sound, NEW x \in Var, NEW y \in Var, NEW low, NEW high,
         SliceResliceNil(x, y, low, high)
  PROVE  Sound' /\ Lasting
<1>1. var' \in [Var -> 0..Len(hdr)] /\ UNCHANGED <<array, hdr>>
  BY SoundFacts DEF SliceResliceNil
<1>. QED BY <1>1, SameArrays, SameHeaders

LEMMA SetSound ==
  ASSUME Sound, NEW x \in Var, NEW i \in Nat, NEW e \in Elem, Set(x, i, e)
  PROVE  Sound' /\ Lasting
<1>1. /\ i \in 1..Slice(x).len
      /\ array' = Write(array, Slice(x).arr, Slice(x).off + i, e)
      /\ UNCHANGED <<hdr, var>>
  BY DEF Set, Write
<1>2. array' \in Shape(array)
  <2>1. Slice(x) \in Header /\ Reaches(Slice(x), array) /\ array \in Seq(Seq(Elem))
    BY SliceFacts, SoundFacts
  <2>2. PICK w \in Header : w = Slice(x)
    BY <2>1
  <2>3. w.arr \in Nat /\ w.off \in Nat /\ w.len \in Nat /\ w.cap \in Nat
    BY DEF Header
  <2>4. w.arr # 0
    BY <1>1, <2>1, <2>2, <2>3 DEF Reaches
  <2>5. PICK a \in 1..Len(array) : a = w.arr
    BY <2>1, <2>2, <2>3, <2>4 DEF Reaches
  <2>6. Len(array[a]) \in Nat /\ w.off + w.cap <= Len(array[a]) /\ w.len <= w.cap
    BY <2>1, <2>2, <2>4, <2>5 DEF Reaches
  <2>7. PICK j \in 1..Len(array[a]) : j = w.off + i
    BY <1>1, <2>2, <2>3, <2>6
  <2>8. PICK r \in Shape(array) : r = array
    BY SameArrays
  <2>9. Write(r, a, j, e) \in Shape(array)
    BY <2>1, WriteShape DEF WritesOne
  <2>. QED BY <1>1, <2>2, <2>5, <2>7, <2>8, <2>9
<1>. QED BY <1>1, <1>2, SoundFacts, SameHeaders

LEMMA ProgFacts ==
  ASSUME prog \in Kinds
  PROVE  /\ prog.cap \in Nat /\ prog.cap <= MaxCap /\ MaxCap \in Nat
         /\ prog.own \in BOOLEAN /\ prog.overlap \in BOOLEAN
BY SliceAssumption

\* The loop goes on over a header that is not shortened.
LEMMA LoopLasts ==
  ASSUME SliceInv, Sound', Lasting, UNCHANGED <<prog, iter, idx>>, panicked' \in BOOLEAN
  PROVE  SliceInv'
<1>1. Len(hdr) \in Nat /\ Len(hdr') \in Nat /\ Len(hdr') >= Len(hdr)
  BY SoundFacts DEF SliceInv, Sound, Fits, Lasting
<1>2. iter' \in 0..Len(hdr')
  BY <1>1 DEF SliceInv
<1>3. idx' <= Window(iter)'.len
  <2>1. CASE iter = 0
    BY <2>1 DEF SliceInv, Window, NoData
  <2>2. CASE iter # 0
    <3>1. iter \in 1..Len(hdr) /\ idx <= hdr[iter].len /\ idx \in Nat
      BY <1>1, <2>2 DEF SliceInv, Window
    <3>2. hdr'[iter].len >= hdr[iter].len /\ hdr[iter].len \in Nat
      BY <3>1, SoundFacts DEF SliceInv, Lasting
    <3>3. hdr'[iter].len \in Nat
      <4>1. iter \in 1..Len(hdr')
        BY <1>1, <3>1
      <4>2. hdr' \in Seq(Header)
        BY DEF Sound, Fits
      <4>3. hdr'[iter] \in Header
        BY <4>1, <4>2
      <4>. QED BY <4>3 DEF Header
    <3>. QED BY <2>2, <3>1, <3>2, <3>3 DEF Window
  <2>. QED BY <2>1, <2>2
<1>. QED BY <1>2, <1>3 DEF SliceInv

LEMMA SliceInvInit == Init => SliceInv
<1>. SUFFICES ASSUME Init PROVE SliceInv
  OBVIOUS
<1>1. <<>> \in Seq(Header) /\ Len(<<>>) = 0 /\ <<>> \in Seq(Seq(Elem))
  OBVIOUS
<1>2. Fits(hdr, array) /\ Len(hdr) = 0
  BY <1>1 DEF Init, Fits
<1>3. Sound
  BY <1>2 DEF Sound, Init
<1>4. iter = 0 /\ idx = 0 /\ panicked = FALSE /\ prog \in Kinds
  BY DEF Init
<1>5. Window(iter).len = 0
  BY <1>4 DEF Window, NoData
<1>6. iter \in 0..Len(hdr) /\ idx \in Nat /\ idx <= Window(iter).len
  BY <1>2, <1>4, <1>5
<1>7. panicked \in BOOLEAN
  BY <1>4
<1>. QED BY <1>3, <1>4, <1>6, <1>7 DEF SliceInv

LEMMA SliceInvNext == SliceInv /\ [Next]_vars => SliceInv'
<1>. SUFFICES ASSUME SliceInv, [Next]_vars PROVE SliceInv'
  OBVIOUS
<1>1. Sound /\ prog \in Kinds /\ panicked \in BOOLEAN
  BY DEF SliceInv
<1>2. prog.cap \in Nat
  BY <1>1, ProgFacts
<1>3. CASE UNCHANGED vars
  BY <1>3 DEF vars, SliceInv, Sound, Window
<1>4. ASSUME Next PROVE Step /\ UNCHANGED prog
  BY <1>4 DEF Next
<1>5. ASSUME Next, NEW x \in Var, NEW y \in Var, Assign(x, y) PROVE SliceInv'
  BY <1>1, <1>4, <1>5, AssignSound, LoopLasts DEF Assign
<1>6. ASSUME Next, NEW x \in Var, NEW c \in 0..prog.cap, NEW n \in 0..c, SliceMakeCap(x, n, c)
      PROVE  SliceInv'
  <2>1. c \in Nat
    BY <1>2
  <2>. QED BY <1>1, <1>4, <1>6, <2>1, MakeSound, LoopLasts DEF SliceMakeCap
<1>7. ASSUME Next, NEW x \in Var, NEW y \in Var, NEW e \in Elem, SliceAppend(x, y, e)
      PROVE  SliceInv'
  <2>1. UNCHANGED <<iter, idx, panicked>>
    BY <1>7 DEF SliceAppend
  <2>. QED BY <1>1, <1>4, <1>7, <2>1, AppendSound, LoopLasts
<1>8. ASSUME Next, NEW x \in Var, NEW y \in Var, NEW z \in Var, SliceAppendSlice(x, y, z)
      PROVE  SliceInv'
  <2>1. UNCHANGED <<iter, idx, panicked>>
    BY <1>8 DEF SliceAppendSlice
  <2>. QED BY <1>1, <1>4, <1>8, <2>1, AppendSliceSound, LoopLasts, SMTT(20)
<1>9. ASSUME Next, NEW x \in Var, NEW y \in Var, SliceCopy(x, y) PROVE SliceInv'
  BY <1>1, <1>4, <1>9, CopySound, LoopLasts DEF SliceCopy
<1>10. ASSUME Next, NEW x \in Var, NEW y \in Var, NEW low \in 0..prog.cap,
              NEW high \in 0..prog.cap, SliceReslice(x, y, low, high)
       PROVE  SliceInv'
  <2>1. low \in Nat /\ high \in Nat
    BY <1>2
  <2>2. UNCHANGED <<iter, idx, panicked>>
    BY <1>10 DEF SliceReslice
  <2>. QED BY <1>1, <1>4, <1>10, <2>1, <2>2, ResliceSound, LoopLasts
<1>11. ASSUME Next, NEW x \in Var, NEW y \in Var, NEW low \in 0..prog.cap,
              NEW high \in 0..prog.cap, SliceResliceNil(x, y, low, high)
       PROVE  SliceInv'
  <2>1. UNCHANGED <<iter, idx>> /\ panicked' \in BOOLEAN
    BY <1>11 DEF SliceResliceNil
  <2>. QED BY <1>1, <1>4, <1>11, <2>1, ResliceNilSound, LoopLasts
<1>12. ASSUME Next, NEW x \in Var, NEW i \in 1..prog.cap, NEW e \in Elem, Set(x, i, e)
       PROVE  SliceInv'
  <2>1. i \in Nat
    BY <1>2
  <2>2. UNCHANGED <<iter, idx, panicked>>
    BY <1>12 DEF Set
  <2>. QED BY <1>1, <1>4, <1>12, <2>1, <2>2, SetSound, LoopLasts
<1>13. ASSUME Next, NEW x \in Var, RangeStart(x) PROVE SliceInv'
  <2>1. iter' = var[x] /\ var[x] # 0 /\ idx' = 0 /\ UNCHANGED <<array, hdr, var, panicked, prog>>
    BY <1>4, <1>13 DEF RangeStart
  <2>2. var[x] \in 1..Len(hdr) /\ hdr[var[x]].len \in Nat
    BY <1>1, <2>1, SoundFacts
  <2>. QED BY <1>1, <2>1, <2>2 DEF SliceInv, Sound, Window
<1>14. ASSUME Next, RangeNext PROVE SliceInv'
  <2>1. /\ iter # 0 /\ idx < hdr[iter].len /\ idx' = idx + 1
        /\ UNCHANGED <<array, hdr, var, iter, panicked, prog>>
    BY <1>4, <1>14 DEF RangeNext
  <2>2. iter \in 0..Len(hdr) /\ idx \in Nat
    BY DEF SliceInv
  <2>3. hdr[iter].len \in Nat
    BY <1>1, <2>1, <2>2, SoundFacts
  <2>4. idx' \in Nat /\ idx' <= hdr[iter].len
    BY <2>1, <2>2, <2>3
  <2>. QED BY <1>1, <2>1, <2>2, <2>4 DEF SliceInv, Sound, Window
<1>15. ASSUME Next, RangeEnd PROVE SliceInv'
  <2>1. iter' = 0 /\ idx' = 0 /\ UNCHANGED <<array, hdr, var, panicked, prog>>
    BY <1>4, <1>15 DEF RangeEnd
  <2>2. Len(hdr) \in Nat
    BY <1>1, SoundFacts
  <2>. QED BY <1>1, <2>1, <2>2 DEF SliceInv, Sound, Window, NoData
<1>16. CASE Next
  <2>. USE <1>16
  <2>1. CASE \E x, y \in Var : Assign(x, y)
    BY <1>5, <2>1
  <2>2. CASE \E x \in Var, c \in 0..prog.cap :
               SliceMake(x, c) \/ \E n \in 0..c-1 : SliceMakeCap(x, n, c)
    <3>1. PICK x \in Var, c \in 0..prog.cap :
            SliceMake(x, c) \/ \E n \in 0..c-1 : SliceMakeCap(x, n, c)
      BY <2>2
    <3>2. c \in 0..c /\ \A n \in 0..c-1 : n \in 0..c
      BY <1>2
    <3>. QED BY <1>6, <3>1, <3>2 DEF SliceMake
  <2>3. CASE \E x, y \in Var, e \in Elem : SliceAppend(x, y, e)
    BY <1>7, <2>3
  <2>4. CASE \E x, y, z \in Var : SliceAppendSlice(x, y, z) \/ SliceAppendNothing(x, y, z)
    BY <1>5, <1>8, <2>4 DEF SliceAppendNothing
  <2>5. CASE \E x, y \in Var : SliceCopy(x, y)
    BY <1>9, <2>5
  <2>6. CASE \E x, y \in Var, low, high \in 0..prog.cap :
               SliceReslice(x, y, low, high) \/ SliceResliceNil(x, y, low, high)
    BY <1>10, <1>11, <2>6
  <2>7. CASE \E x \in Var, i \in 1..prog.cap, e \in Elem : Set(x, i, e)
    BY <1>12, <2>7
  <2>8. CASE RangeNext \/ RangeEnd \/ \E x \in Var : RangeStart(x)
    BY <1>13, <1>14, <1>15, <2>8
  <2>. QED BY <1>4, <2>1, <2>2, <2>3, <2>4, <2>5, <2>6, <2>7, <2>8 DEF Step
<1>. QED BY <1>3, <1>16

\* The inductive invariant holds: headers fit their arrays, and a range loop
\* never runs past the end of the header it began with.
THEOREM SliceInvariant == Spec => []SliceInv
BY SliceInvInit, SliceInvNext, PTL DEF Spec

\* The variables of the model keep their types.
THEOREM SliceTypeCorrect == Spec => []TypeOK
<1>1. SliceInv => TypeOK
  BY FitsInvariants DEF SliceInv, Sound, TypeOK
<1>. QED BY <1>1, SliceInvariant, PTL

\* Whatever is cut, grown or copied, what a header says can be reached from it
\* is inside its array: append writes in the block (runtime.go, SliceAppend).
THEOREM HeadersStayInArrays == Spec => []SlicesInArrays
<1>1. SliceInv => SlicesInArrays
  BY FitsInvariants DEF SliceInv, Sound
<1>. QED BY <1>1, SliceInvariant, PTL

-----------------------------------------------------------------------------
(* What append does to elements.                                             *)

\* The header of the result.
LEMMA AppendedHeader ==
  ASSUME Sound, NEW x \in Var, NEW y \in Var, NEW n \in Nat \ {0}, NEW hs, NEW os, NEW h,
         Appended(x, y, n, hs, os, h), array' \in Shape(os)
  PROVE  /\ Slice(x)' = [arr |-> hs[h].arr, off |-> hs[h].off,
                         len |-> Slice(y).len + n, cap |-> hs[h].cap]
         /\ \A z \in Var \ {x} : var[z] # var[y] => Slice(z)' = Slice(z)
<1>1. /\ Sound'
      /\ hdr'[h] = [hs[h] EXCEPT !.len = Slice(y).len + n]
      /\ \A g \in 1..Len(hs) : g # h => hdr'[g] = hs[g]
  BY AppendedSound
<1>2. Ready(hs, os, h, y, n) /\ var' = [var EXCEPT ![x] = h]
  BY DEF Appended
<1>3. /\ h \in 1..Len(hs) /\ Len(hdr) <= Len(hs) /\ Fits(hs, os)
      /\ \A g \in 1..Len(hdr) : g # var[y] => hs[g] = hdr[g]
      /\ h = var[y] \/ h = Len(hdr) + 1
  BY <1>2 DEF Ready
<1>4. Len(hs) \in Nat /\ Len(hdr) \in Nat /\ var \in [Var -> 0..Len(hdr)]
  BY <1>3, SoundFacts DEF Fits
<1>5. hdr'[h] = [arr |-> hs[h].arr, off |-> hs[h].off,
                 len |-> Slice(y).len + n, cap |-> hs[h].cap]
  <2>1. PICK r \in Header : r = hs[h]
    BY <1>3 DEF Fits
  <2>2. [r EXCEPT !.len = Slice(y).len + n]
        = [arr |-> r.arr, off |-> r.off, len |-> Slice(y).len + n, cap |-> r.cap]
    BY DEF Header
  <2>. QED BY <1>1, <2>1, <2>2
<1>6. Slice(x)' = hdr'[h]
  <2>1. var'[x] = h /\ h # 0
    BY <1>2, <1>3, <1>4
  <2>. QED BY <2>1 DEF Slice, Window
<1>7. ASSUME NEW z \in Var \ {x}, var[z] # var[y] PROVE Slice(z)' = Slice(z)
  <2>1. var'[z] = var[z] /\ var[z] \in 0..Len(hdr)
    BY <1>2, <1>4
  <2>2. CASE var[z] = 0
    BY <2>1, <2>2 DEF Slice, Window, NoData
  <2>3. CASE var[z] # 0
    <3>1. var[z] \in 1..Len(hdr) /\ var[z] \in 1..Len(hs) /\ var[z] # h
      BY <1>3, <1>4, <1>7, <2>1, <2>3
    <3>2. hdr'[var[z]] = hdr[var[z]]
      BY <1>1, <1>3, <1>7, <3>1
    <3>. QED BY <2>1, <2>3, <3>2 DEF Slice, Window
  <2>. QED BY <2>2, <2>3
<1>. QED BY <1>5, <1>6, <1>7

\* A window of slice y has its elements in the array it names.
LEMMA WindowInArray ==
  ASSUME Sound, NEW y \in Var
  PROVE  /\ Slice(y).arr \in Nat /\ Slice(y).off \in Nat
         /\ Slice(y).len \in Nat /\ Slice(y).cap \in Nat
         /\ Slice(y).len <= Slice(y).cap
         /\ Slice(y).cap # 0 =>
              /\ Slice(y).arr \in 1..Len(array)
              /\ Slice(y).off + Slice(y).cap <= Len(array[Slice(y).arr])
         /\ \A i \in 1..Slice(y).len :
              /\ Slice(y).arr \in 1..Len(array)
              /\ Slice(y).off + i \in 1..Len(array[Slice(y).arr])
              /\ array[Slice(y).arr][Slice(y).off + i] \in Elem
<1>1. Slice(y) \in Header /\ Reaches(Slice(y), array)
  BY SliceFacts
<1>2. PICK w \in Header : w = Slice(y)
  BY <1>1
<1>3. w.arr \in Nat /\ w.off \in Nat /\ w.len \in Nat /\ w.cap \in Nat /\ w.len <= w.cap
  BY <1>1, <1>2 DEF Header, Reaches
<1>4. array \in Seq(Seq(Elem)) /\ Len(array) \in Nat
  BY SoundFacts
<1>5. ASSUME w.cap # 0
      PROVE  w.arr \in 1..Len(array) /\ w.off + w.cap <= Len(array[w.arr])
  <2>1. w.arr # 0
    BY <1>1, <1>2, <1>3, <1>5 DEF Reaches
  <2>. QED BY <1>1, <1>2, <1>3, <1>4, <2>1 DEF Reaches
<1>6. ASSUME NEW i \in 1..w.len
      PROVE  /\ w.arr \in 1..Len(array)
             /\ w.off + i \in 1..Len(array[w.arr])
             /\ array[w.arr][w.off + i] \in Elem
  <2>1. w.cap # 0
    BY <1>3
  <2>2. PICK a \in 1..Len(array) : a = w.arr
    BY <1>5, <2>1
  <2>3. array[a] \in Seq(Elem) /\ Len(array[a]) \in Nat
    BY <1>4
  <2>4. PICK j \in 1..Len(array[a]) : j = w.off + i
    BY <1>3, <1>5, <2>1, <2>2, <2>3, SMTT(20)
  <2>5. array[a][j] \in Elem
    BY <2>3, ElementOfSeq
  <2>. QED BY <2>2, <2>4, <2>5
<1>. QED BY <1>2, <1>3, <1>5, <1>6

LEMMA AppendElements ==
  ASSUME Sound, NEW x \in Var, NEW y \in Var, NEW e \in Elem, SliceAppend(x, y, e)
  PROVE  /\ Elements(x)' = Append(Elements(y), e)
         /\ \A z \in Var \ {x} : var[z] # var[y] =>
              \/ Elements(z)' = Elements(z)
              \/ /\ Slice(z).arr = Slice(y).arr
                 /\ Slice(z).off + Slice(z).len > Slice(y).off + Slice(y).len
<1>1. PICK hs, os, h :
        /\ Appended(x, y, 1, hs, os, h)
        /\ array' = Write(os, hs[h].arr, hs[h].off + Slice(y).len + 1, e)
  BY AppendForm
<1>2. Ready(hs, os, h, y, 1)
  BY <1>1 DEF Appended
<1>3. PICK a \in Nat, o \in Nat, k \in Nat : a = hs[h].arr /\ o = hs[h].off /\ k = Slice(y).len
  <2>1. 1 \in Nat \ {0}
    OBVIOUS
  <2>2. hs[h] \in Header /\ Slice(y).len \in Nat
    BY <1>2, <2>1, ReadyPlaces
  <2>. QED BY <2>2 DEF Header
<1>4. /\ array' \in Shape(os)
      /\ array'[a][o + k + 1] = e
      /\ \A b \in 1..Len(os) : \A j \in 1..Len(os[b]) :
           b # a \/ j # o + k + 1 => array'[b][j] = os[b][j]
  BY <1>1, <1>2, <1>3, AppendWrites, SMTT(20)
<1>5. /\ Slice(x)' = [arr |-> a, off |-> o, len |-> k + 1, cap |-> hs[h].cap]
      /\ \A z \in Var \ {x} : var[z] # var[y] => Slice(z)' = Slice(z)
  <2>1. 1 \in Nat \ {0}
    OBVIOUS
  <2>. QED BY <1>1, <1>3, <1>4, <2>1, AppendedHeader
<1>6. /\ a \in 1..Len(os) /\ o + k + 1 <= Len(os[a])
      /\ \A i \in 1..k : os[a][o + i] = array[Slice(y).arr][Slice(y).off + i]
  <2>1. 1 \in Nat \ {0}
    OBVIOUS
  <2>2. HasPlaces(os, hs[h].arr, hs[h].off + Slice(y).len, 1)
    BY <1>2, <2>1, ReadyPlaces
  <2>3. HasPlaces(os, a, o + k, 1)
    BY <1>3, <2>2
  <2>4. \A i \in 1..k : os[a][o + i] = array[Slice(y).arr][Slice(y).off + i]
    BY <1>2, <1>3 DEF Ready
  <2>. QED BY <2>3, <2>4 DEF HasPlaces
<1>7. os \in Seq(Seq(Elem)) /\ Len(os[a]) \in Nat
  BY <1>2, <1>6 DEF Ready, Fits
<1>8. Elements(x)' = Append(Elements(y), e)
  <2>1. Elements(x)' = [i \in 1..k+1 |-> array'[a][o + i]]
    BY <1>5 DEF Elements
  <2>2. Elements(y) = [i \in 1..k |-> array[Slice(y).arr][Slice(y).off + i]]
    BY <1>3 DEF Elements
  <2>3. Elements(y) \in Seq(Elem) /\ Len(Elements(y)) = k
    <3>1. \A i \in 1..k : array[Slice(y).arr][Slice(y).off + i] \in Elem
      BY <1>3, WindowInArray
    <3>. QED BY <2>2, <3>1
  <2>4. PICK f \in Seq(Elem) : f = Elements(y)
    BY <2>3
  <2>5. \A i \in 1..k : array'[a][o + i] = f[i]
    <3>. SUFFICES ASSUME NEW i \in 1..k PROVE array'[a][o + i] = f[i]
      OBVIOUS
    <3>1. PICK j \in 1..Len(os[a]) : j = o + i /\ j # o + k + 1
      BY <1>6, <1>7
    <3>2. array'[a][j] = os[a][j]
      BY <1>4, <1>6, <3>1
    <3>. QED BY <1>6, <2>2, <2>4, <3>1, <3>2
  <2>6. Append(f, e) = [i \in 1..k+1 |-> IF i = k + 1 THEN e ELSE f[i]]
    <3>. DEFINE g == [i \in 1..k+1 |-> IF i = k + 1 THEN e ELSE f[i]]
    <3>1. Len(f) = k
      BY <2>3, <2>4
    <3>2. g \in Seq(Elem) /\ Len(g) = k + 1
      BY <3>1
    <3>3. /\ Append(f, e) \in Seq(Elem) /\ Len(Append(f, e)) = k + 1
          /\ Append(f, e)[k + 1] = e /\ \A i \in 1..k : Append(f, e)[i] = f[i]
      BY <3>1
    <3>4. \A i \in 1..k+1 : Append(f, e)[i] = g[i]
      BY <3>3
    <3>. HIDE DEF g
    <3>5. Append(f, e) = g
      BY <3>2, <3>3, <3>4, SeqEqual
    <3>. QED BY <3>5 DEF g
  <2>7. \A i \in 1..k+1 : array'[a][o + i] = IF i = k + 1 THEN e ELSE f[i]
    <3>1. array'[a][o + (k + 1)] = e
      <4>1. o + (k + 1) = o + k + 1
        OBVIOUS
      <4>. QED BY <1>4, <4>1
    <3>2. \A i \in 1..k+1 : i # k + 1 => i \in 1..k
      OBVIOUS
    <3>. QED BY <2>5, <3>1, <3>2
  <2>. QED BY <2>1, <2>4, <2>6, <2>7
<1>9. ASSUME NEW z \in Var \ {x}, var[z] # var[y],
             ~(/\ Slice(z).arr = Slice(y).arr
               /\ Slice(z).off + Slice(z).len > Slice(y).off + Slice(y).len)
      PROVE  Elements(z)' = Elements(z)
  <2>1. Slice(z)' = Slice(z)
    BY <1>5, <1>9
  <2>2. ASSUME NEW i \in 1..Slice(z).len
        PROVE  array'[Slice(z).arr][Slice(z).off + i] = array[Slice(z).arr][Slice(z).off + i]
    <3>1. PICK b \in 1..Len(array) : b = Slice(z).arr
      BY WindowInArray
    <3>2. PICK j \in 1..Len(array[b]) : j = Slice(z).off + i
      BY <3>1, WindowInArray
    <3>3. CASE os = array /\ hs = hdr /\ h = var[y] /\ var[y] # 0
      <4>1. Slice(y) = hs[h]
        BY <3>3 DEF Slice, Window
      <4>2. b # a \/ j # o + k + 1
        <5>1. PICK m \in Nat, p \in Nat : m = Slice(z).len /\ p = Slice(z).off
          BY WindowInArray
        <5>2. b = a => ~(p + m > o + k)
          BY <1>3, <1>9, <3>1, <4>1, <5>1
        <5>3. j = p + i /\ i \in 1..m
          BY <3>2, <5>1
        <5>. QED BY <5>2, <5>3
      <4>3. array'[b][j] = os[b][j]
        BY <1>4, <3>3, <4>2
      <4>. QED BY <3>1, <3>2, <3>3, <4>3
    <3>4. CASE a = Len(array) + 1 /\ Len(os) = Len(array) + 1
               /\ \A c \in 1..Len(array) : os[c] = array[c]
      <4>1. Len(array) \in Nat
        BY SoundFacts
      <4>2. b # a /\ b \in 1..Len(os) /\ os[b] = array[b]
        BY <3>4, <4>1
      <4>3. array'[b][j] = os[b][j]
        BY <1>4, <4>2
      <4>. QED BY <3>1, <3>2, <4>2, <4>3
    <3>. QED BY <1>2, <1>3, <3>3, <3>4 DEF Ready
  <2>3. Elements(z)' = [i \in 1..Slice(z).len |-> array'[Slice(z).arr][Slice(z).off + i]]
    BY <2>1 DEF Elements
  <2>. QED BY <2>2, <2>3 DEF Elements
<1>. QED BY <1>8, <1>9

\* append yields the elements it was given with the new one after them, and
\* changes other slices only past its length, for all programs and capacities.
THEOREM AppendYieldsElements == Spec => AppendKeepsElements
<1>1. SliceInv =>
        \A x, y \in Var, e \in Elem : SliceAppend(x, y, e) =>
          /\ Elements(x)' = Append(Elements(y), e)
          /\ \A z \in Var \ {x} : var[z] # var[y] =>
               \/ Elements(z)' = Elements(z)
               \/ /\ Slice(z).arr = Slice(y).arr
                  /\ Slice(z).off + Slice(z).len > Slice(y).off + Slice(y).len
  BY AppendElements DEF SliceInv
<1>. QED BY <1>1, SliceInvariant, PTL DEF AppendKeepsElements

-----------------------------------------------------------------------------
(* What programs that append to a slice through the only variable that     *)
(* holds its header, and copy nothing up into its own window, see: the     *)
(* slices of AbstractSlice.                                                *)

LEMMA Seen ==
  ASSUME ~Blind, UNCHANGED prog
  PROVE  /\ SeenArray = array /\ SeenArray' = array'
         /\ SeenSlice = [z \in Var |-> Slice(z)]
         /\ SeenSlice' = [z \in Var |-> Slice(z)']
         /\ SeenRet = ret /\ SeenRet' = ret'
<1>1. ~Blind'
  BY DEF Blind
<1>. QED BY <1>1 DEF SeenArray, SeenSlice, SeenRet

\* Their loops.
LEMMA SeenOfLoop ==
  ASSUME ~LoopBlind, UNCHANGED prog
  PROVE  /\ SeenLoop = Window(iter) /\ SeenLoop' = Window(iter)'
         /\ SeenIdx = idx /\ SeenIdx' = idx'
         /\ SeenVal = val /\ SeenVal' = val'
<1>1. ~LoopBlind'
  BY DEF LoopBlind, Blind
<1>. QED BY <1>1 DEF SeenLoop, SeenIdx, SeenVal

LEMMA UnseenLoop ==
  ASSUME LoopBlind, UNCHANGED prog
  PROVE  UNCHANGED <<SeenLoop, SeenIdx, SeenVal>>
<1>1. LoopBlind'
  BY DEF LoopBlind, Blind
<1>. QED BY <1>1 DEF SeenLoop, SeenIdx, SeenVal

\* One variable changes.
LEMMA SeenChange ==
  ASSUME ~Blind, UNCHANGED prog, NEW x \in Var, NEW w, Slice(x)' = w,
         \A z \in Var \ {x} : Slice(z)' = Slice(z)
  PROVE  SeenSlice' = [SeenSlice EXCEPT ![x] = w]
BY Seen

LEMMA SeenSame ==
  ASSUME ~Blind, UNCHANGED <<prog, hdr, var>>
  PROVE  UNCHANGED SeenSlice
<1>1. \A z \in Var : Slice(z)' = Slice(z)
  BY DEF Slice, Window
<1>. QED BY <1>1, Seen

LEMMA SeenLoopSame ==
  ASSUME UNCHANGED <<prog, iter, idx, val>>,
         iter # 0 /\ ~LoopBlind => hdr'[iter] = hdr[iter]
  PROVE  UNCHANGED <<SeenLoop, SeenIdx, SeenVal>>
<1>1. CASE ~LoopBlind
  <2>1. Window(iter)' = Window(iter)
    BY <1>1 DEF Window, NoData
  <2>. QED BY <1>1, <2>1, SeenOfLoop
<1>2. CASE LoopBlind
  BY <1>2, UnseenLoop
<1>. QED BY <1>1, <1>2

\* bs: os with us in array d, after place p.
RowOf(os, d, p, us, bs) ==
  /\ bs \in Shape(os)
  /\ p + Len(us) <= Len(os[d])
  /\ \A a \in 1..Len(os) : \A j \in 1..Len(os[a]) :
       a # d \/ j \notin p+1..p+Len(us) => bs[a][j] = os[a][j]
  /\ \A i \in 1..Len(us) : bs[d][p + i] = us[i]

LEMMA RowOfElements ==
  ASSUME NEW os \in Seq(Seq(Elem)), NEW d \in 1..Len(os), NEW p \in Nat,
         NEW us \in Seq(Elem), NEW bs, RowOf(os, d, p, us, bs)
  PROVE  bs = [os EXCEPT ![d] = Go!Written(os[d], p, us)]
<1>. /\ bs \in Shape(os)
     /\ p + Len(us) <= Len(os[d])
     /\ \A a \in 1..Len(os) : \A j \in 1..Len(os[a]) :
          a # d \/ j \notin p+1..p+Len(us) => bs[a][j] = os[a][j]
     /\ \A i \in 1..Len(us) : bs[d][p + i] = us[i]
  BY DEF RowOf
<1>1. /\ bs \in Seq(Seq(Elem)) /\ Len(bs) = Len(os)
      /\ \A a \in 1..Len(os) : Len(bs[a]) = Len(os[a])
  BY DEF Shape
<1>2. bs[d] = Go!Written(os[d], p, us)
  <2>1. PICK r \in Seq(Elem) : r = os[d]
    OBVIOUS
  <2>2. PICK t \in Seq(Elem) : t = bs[d]
    BY <1>1, SMTT(20)
  <2>3. Len(t) = Len(r) /\ Len(us) \in Nat /\ Len(r) \in Nat
    BY <1>1, <2>1, <2>2
  <2>4. \A j \in 1..Len(r) : t[j] = IF j \in p+1..p+Len(us) THEN us[j - p] ELSE r[j]
    <3>. SUFFICES ASSUME NEW j \in 1..Len(r)
                  PROVE  t[j] = IF j \in p+1..p+Len(us) THEN us[j - p] ELSE r[j]
      OBVIOUS
    <3>1. CASE j \in p+1..p+Len(us)
      <4>1. PICK i \in 1..Len(us) : i = j - p /\ p + i = j
        BY <2>3, <3>1
      <4>. QED BY <2>2, <3>1, <4>1
    <3>2. CASE j \notin p+1..p+Len(us)
      BY <2>1, <2>2, <3>2
    <3>. QED BY <3>1, <3>2
  <2>5. t = [j \in 1..Len(r) |-> IF j \in p+1..p+Len(us) THEN us[j - p] ELSE r[j]]
    BY <2>3, <2>4, SMTT(20)
  <2>6. DOMAIN r = 1..Len(r)
    OBVIOUS
  <2>7. Go!Written(r, p, us)
        = [j \in 1..Len(r) |-> IF j \in p+1..p+Len(us) THEN us[j - p] ELSE r[j]]
    BY <2>6 DEF Go!Written
  <2>. QED BY <2>1, <2>2, <2>5, <2>7
<1>3. ASSUME NEW a \in 1..Len(os), a # d PROVE bs[a] = os[a]
  <2>1. bs[a] \in Seq(Elem) /\ os[a] \in Seq(Elem) /\ Len(bs[a]) = Len(os[a])
    BY <1>1
  <2>2. \A j \in 1..Len(os[a]) : bs[a][j] = os[a][j]
    BY <1>3
  <2>. QED BY <2>1, <2>2, SeqEqual
<1>4. PICK r : r = Go!Written(os[d], p, us)
  OBVIOUS
<1>5. bs = [a \in 1..Len(os) |-> bs[a]] /\ DOMAIN os = 1..Len(os)
  BY <1>1
<1>6. bs = [os EXCEPT ![d] = r]
  BY <1>2, <1>3, <1>4, <1>5
<1>. QED BY <1>4, <1>6

-----------------------------------------------------------------------------
(* Each statement is one of AbstractSlice.                                   *)

LEMMA AssignRefines ==
  ASSUME ~Blind, SliceInv, UNCHANGED prog, NEW x \in Var, NEW y \in Var, Assign(x, y)
  PROVE  Go!Assign(x, y)
<1>1. UNCHANGED <<array, hdr, iter, idx, val, ret>> /\ var' = [var EXCEPT ![x] = var[y]]
  BY DEF Assign
<1>2. var \in [Var -> 0..Len(hdr)]
  BY SoundFacts DEF SliceInv
<1>3. Slice(x)' = Slice(y) /\ \A z \in Var \ {x} : Slice(z)' = Slice(z)
  BY <1>1, <1>2 DEF Slice, Window
<1>4. SeenSlice' = [SeenSlice EXCEPT ![x] = Slice(y)] /\ SeenSlice[y] = Slice(y)
  BY <1>3, Seen, SeenChange
<1>5. UNCHANGED <<SeenArray, SeenLoop, SeenIdx, SeenVal, SeenRet>>
  BY <1>1, Seen, SeenLoopSame
<1>. QED BY <1>4, <1>5 DEF Go!Assign

\* A new header is seen in x alone.
LEMMA NewHeaderSeen ==
  ASSUME ~Blind, SliceInv, UNCHANGED <<prog, iter, idx, val, ret>>, Fits(hdr, array'),
         NEW x \in Var, NEW w \in Header, Reaches(w, array'), NewHeader(x, w)
  PROVE  /\ SeenSlice' = [SeenSlice EXCEPT ![x] = w]
         /\ UNCHANGED <<SeenLoop, SeenIdx, SeenVal, SeenRet>>
<1>1. /\ var'[x] = Len(hdr) + 1 /\ hdr'[Len(hdr) + 1] = w
      /\ \A g \in 1..Len(hdr) : hdr'[g] = hdr[g]
  BY OneMoreHeader DEF SliceInv
<1>2. /\ var \in [Var -> 0..Len(hdr)] /\ Len(hdr) \in Nat
      /\ var' = [var EXCEPT ![x] = Len(hdr) + 1] /\ iter \in 0..Len(hdr)
  BY SoundFacts DEF SliceInv, NewHeader
<1>3. Slice(x)' = w
  <2>1. Len(hdr) + 1 # 0
    BY <1>2
  <2>. QED BY <1>1, <2>1 DEF Slice, Window
<1>4. ASSUME NEW z \in Var \ {x} PROVE Slice(z)' = Slice(z)
  <2>1. var'[z] = var[z] /\ (var[z] = 0 \/ var[z] \in 1..Len(hdr))
    BY <1>2
  <2>. QED BY <1>1, <2>1 DEF Slice, Window, NoData
<1>5. SeenSlice' = [SeenSlice EXCEPT ![x] = w]
  BY <1>3, <1>4, SeenChange
<1>6. iter # 0 => hdr'[iter] = hdr[iter]
  BY <1>1, <1>2
<1>. QED BY <1>5, <1>6, Seen, SeenLoopSame

LEMMA MakeRefines ==
  ASSUME ~Blind, SliceInv, UNCHANGED prog, NEW x \in Var, NEW c \in Nat, NEW n \in 0..c,
         SliceMakeCap(x, n, c)
  PROVE  Go!Make(x, n, c)
<1>1. Len(array) \in Nat /\ Fits(hdr, array) /\ UNCHANGED <<iter, idx, val, ret>>
  BY SoundFacts DEF SliceInv, Sound, SliceMakeCap
<1>2. CASE c > 0
  <2>. DEFINE w == [arr |-> Len(array) + 1, off |-> 0, len |-> n, cap |-> c]
  <2>1. array' = Append(array, Fresh(c)) /\ NewHeader(x, w)
    BY <1>2 DEF SliceMakeCap
  <2>2. /\ Fits(hdr, array') /\ Len(array') = Len(array) + 1
        /\ array'[Len(array) + 1] = Fresh(c)
    BY <1>1, <2>1, FreshFacts, FitsAppend
  <2>3. w \in Header /\ w.arr = Len(array) + 1 /\ w.off = 0 /\ w.len = n /\ w.cap = c
    BY <1>1 DEF Header
  <2>. HIDE DEF w
  <2>4. Len(array'[Len(array) + 1]) = c
    BY <2>2, FreshFacts
  <2>5. Reaches(w, array')
    BY <1>1, <2>2, <2>3, <2>4 DEF Reaches
  <2>6. SeenSlice' = [SeenSlice EXCEPT ![x] = w] /\ UNCHANGED <<SeenLoop, SeenIdx, SeenVal, SeenRet>>
    BY <1>1, <2>1, <2>2, <2>3, <2>5, NewHeaderSeen
  <2>7. SeenArray = array /\ SeenArray' = array'
    BY Seen
  <2>8. Go!Fresh(c) = Fresh(c)
    BY DEF Go!Fresh, Fresh
  <2>9. c # 0
    BY <1>2
  <2>. QED BY <2>1, <2>6, <2>7, <2>8, <2>9 DEF Go!Make, w
<1>3. CASE c = 0
  <2>1. array' = array /\ NewHeader(x, NoData)
    BY <1>3 DEF SliceMakeCap
  <2>2. NoData \in Header /\ Reaches(NoData, array')
    BY <1>1, <2>1 DEF NoData, Header, Reaches
  <2>3. SeenSlice' = [SeenSlice EXCEPT ![x] = NoData]
        /\ UNCHANGED <<SeenLoop, SeenIdx, SeenVal, SeenRet>>
    BY <1>1, <2>1, <2>2, NewHeaderSeen
  <2>4. SeenArray = array /\ SeenArray' = array' /\ Go!Nil = NoData
    BY Seen DEF Go!Nil, NoData
  <2>. QED BY <1>3, <2>1, <2>3, <2>4 DEF Go!Make
<1>. QED BY <1>2, <1>3

LEMMA ResliceRefines ==
  ASSUME ~Blind, SliceInv, UNCHANGED prog, NEW x \in Var, NEW y \in Var,
         NEW low \in Nat, NEW high \in Nat, SliceReslice(x, y, low, high)
  PROVE  Go!Reslice(x, y, low, high)
<1>1. /\ var[y] # 0 /\ low <= high /\ high <= Slice(y).cap
      /\ NewHeader(x, Resliced(Slice(y), low, high))
      /\ UNCHANGED <<array, iter, idx, val, ret>>
  BY DEF SliceReslice
<1>2. PICK s \in Header : s = Slice(y) /\ Reaches(s, array)
  BY SliceFacts DEF SliceInv
<1>3. /\ s.arr \in Nat /\ s.off \in Nat /\ s.len \in Nat /\ s.cap \in Nat
      /\ high <= s.cap
  BY <1>1, <1>2 DEF Header
<1>4. PICK l \in Nat, k \in Nat, o \in Nat :
        l = high - low /\ k = s.cap - low /\ o = s.off + low
  <2>1. high - low \in Nat /\ s.cap - low \in Nat /\ s.off + low \in Nat
    BY <1>1, <1>3
  <2>. QED BY <2>1
<1>. DEFINE w == [arr |-> s.arr, off |-> o, len |-> l, cap |-> k]
<1>5. NewHeader(x, w)
  BY <1>1, <1>2, <1>4 DEF Resliced
<1>6. w \in Header /\ w.arr = s.arr /\ w.off = o /\ w.len = l /\ w.cap = k
  BY <1>3 DEF Header
<1>7. s.arr = 0 => s.off = 0 /\ s.cap = 0
  BY <1>2, <1>3 DEF Reaches
<1>8. Reaches(w, array)
  <2>1. l <= k
    BY <1>1, <1>3, <1>4
  <2>2. o + k = s.off + s.cap
    BY <1>3, <1>4
  <2>. HIDE DEF w
  <2>. QED BY <1>2, <1>6, <2>1, <2>2 DEF Reaches
<1>9. s = NoData => w = NoData
  <2>1. ASSUME s = NoData PROVE o = 0 /\ l = 0 /\ k = 0 /\ s.arr = 0
    BY <1>1, <1>3, <1>4, <2>1 DEF NoData
  <2>. QED BY <2>1 DEF NoData
<1>10. SeenSlice' = [SeenSlice EXCEPT ![x] = w] /\ UNCHANGED <<SeenLoop, SeenIdx, SeenVal, SeenRet>>
  <2>1. Fits(hdr, array') /\ UNCHANGED <<prog, iter, idx, val, ret>> /\ array' = array
    BY <1>1 DEF SliceInv, Sound
  <2>. HIDE DEF w
  <2>. QED BY <1>5, <1>6, <1>8, <2>1, NewHeaderSeen
<1>11. SeenSlice[y] = s /\ UNCHANGED SeenArray
  BY <1>1, <1>2, Seen
<1>12. w = IF s = NoData THEN NoData
           ELSE [arr |-> s.arr, off |-> s.off + low, len |-> high - low, cap |-> s.cap - low]
  BY <1>4, <1>9
<1>13. Go!Nil = NoData
  BY DEF Go!Nil, NoData
<1>. HIDE DEF w
<1>14. SeenSlice' = [SeenSlice EXCEPT ![x] =
         IF SeenSlice[y] = Go!Nil THEN Go!Nil
         ELSE [arr |-> SeenSlice[y].arr, off |-> SeenSlice[y].off + low,
               len |-> high - low, cap |-> SeenSlice[y].cap - low]]
  BY <1>10, <1>11, <1>12, <1>13
<1>15. low <= high /\ high <= SeenSlice[y].cap
  BY <1>1, <1>3, <1>11
<1>. QED BY <1>10, <1>11, <1>14, <1>15, Zenon DEF Go!Reslice

LEMMA ResliceNilRefines ==
  ASSUME ~Blind, SliceInv, UNCHANGED prog, NEW x \in Var, NEW y \in Var,
         NEW low \in Nat, NEW high \in Nat, SliceResliceNil(x, y, low, high)
  PROVE  Go!Reslice(x, y, low, high) \/ UNCHANGED Go!vars
<1>1. var[y] = 0 /\ UNCHANGED <<array, hdr, iter, idx, val, ret>>
  BY DEF SliceResliceNil
<1>2. UNCHANGED <<SeenArray, SeenLoop, SeenIdx, SeenVal, SeenRet>>
  BY <1>1, Seen, SeenLoopSame
<1>3. CASE low = 0 /\ high = 0
  <2>1. var' = [var EXCEPT ![x] = 0]
    BY <1>3 DEF SliceResliceNil
  <2>2. var \in [Var -> 0..Len(hdr)]
    BY SoundFacts DEF SliceInv
  <2>3. Slice(x)' = NoData /\ \A z \in Var \ {x} : Slice(z)' = Slice(z)
    BY <1>1, <2>1, <2>2 DEF Slice, Window, NoData
  <2>4. SeenSlice' = [SeenSlice EXCEPT ![x] = NoData] /\ SeenSlice[y] = NoData
    <3>1. Slice(y) = NoData
      BY <1>1 DEF Slice, Window
    <3>. QED BY <2>3, <3>1, Seen, SeenChange
  <2>5. Go!Nil = NoData /\ NoData.cap = 0 /\ low <= high /\ high <= 0
    BY <1>3 DEF Go!Nil, NoData
  <2>. QED BY <1>2, <2>4, <2>5 DEF Go!Reslice
<1>4. CASE ~(low = 0 /\ high = 0)
  <2>1. var' = var
    BY <1>4 DEF SliceResliceNil
  <2>2. UNCHANGED SeenSlice
    BY <1>1, <2>1, SeenSame
  <2>. QED BY <1>2, <2>2 DEF Go!vars
<1>. QED BY <1>3, <1>4

LEMMA SetRefines ==
  ASSUME ~Blind, SliceInv, UNCHANGED prog, NEW x \in Var, NEW i \in Nat, NEW e \in Elem,
         Set(x, i, e)
  PROVE  Go!Set(x, i, e)
<1>1. /\ i \in 1..Slice(x).len
      /\ array' = [array EXCEPT ![Slice(x).arr][Slice(x).off + i] = e]
      /\ UNCHANGED <<hdr, var, iter, idx, val, ret>>
  BY DEF Set
<1>2. UNCHANGED <<SeenSlice, SeenLoop, SeenIdx, SeenVal, SeenRet>>
  BY <1>1, Seen, SeenSame, SeenLoopSame
<1>3. SeenSlice[x] = Slice(x) /\ SeenArray = array /\ SeenArray' = array'
  BY Seen
<1>. QED BY <1>1, <1>2, <1>3 DEF Go!Set

LEMMA RangeStartRefines ==
  ASSUME ~LoopBlind, SliceInv, UNCHANGED prog, NEW x \in Var, RangeStart(x)
  PROVE  Go!RangeStart(x)
<1>. ~Blind
  BY DEF LoopBlind
<1>1. iter' = var[x] /\ idx' = 0 /\ UNCHANGED <<array, hdr, var, val, ret>>
  BY DEF RangeStart
<1>2. Window(iter)' = Slice(x) /\ SeenSlice[x] = Slice(x)
  BY <1>1, Seen DEF Slice, Window
<1>3. SeenLoop' = SeenSlice[x] /\ SeenIdx' = 0 /\ UNCHANGED SeenVal
  BY <1>1, <1>2, SeenOfLoop
<1>4. UNCHANGED <<SeenArray, SeenSlice, SeenRet>>
  BY <1>1, Seen, SeenSame
<1>. QED BY <1>3, <1>4 DEF Go!RangeStart

LEMMA RangeNextRefines ==
  ASSUME ~LoopBlind, SliceInv, UNCHANGED prog, RangeNext
  PROVE  Go!RangeNext
<1>. ~Blind
  BY DEF LoopBlind
<1>1. /\ iter # 0 /\ idx < hdr[iter].len /\ idx' = idx + 1
      /\ val' = array[hdr[iter].arr][hdr[iter].off + idx + 1]
      /\ UNCHANGED <<array, hdr, var, iter, ret>>
  BY DEF RangeNext
<1>2. PICK w \in Header : w = hdr[iter] /\ w.len \in Nat /\ w.off \in Nat
  <2>1. iter \in 1..Len(hdr)
    BY <1>1, SoundFacts DEF SliceInv
  <2>2. hdr[iter] \in Header
    BY <2>1, SoundFacts DEF SliceInv
  <2>. QED BY <2>2 DEF Header
<1>3. /\ SeenLoop = w /\ SeenIdx = idx /\ SeenIdx' = idx' /\ SeenArray = array
      /\ SeenVal' = val' /\ SeenArray' = array'
  BY <1>1, <1>2, Seen, SeenOfLoop DEF Window
<1>4. UNCHANGED <<SeenArray, SeenSlice, SeenRet>>
  BY <1>1, <1>3, Seen, SeenSame
<1>5. UNCHANGED SeenLoop
  <2>1. Window(iter)' = Window(iter)
    BY <1>1 DEF Window
  <2>. QED BY <2>1, SeenOfLoop
<1>6. idx \in Nat
  BY DEF SliceInv
<1>7. Go!Elements(w)[idx + 1] = array[w.arr][w.off + idx + 1]
  <2>1. PICK j \in 1..w.len : j = idx + 1 /\ w.off + j = w.off + idx + 1
    BY <1>1, <1>2, <1>6
  <2>2. Go!Elements(w)[j] = array[w.arr][w.off + j]
    BY <1>3, <2>1 DEF Go!Elements
  <2>. QED BY <2>1, <2>2
<1>8. SeenVal' = Go!Elements(SeenLoop)[SeenIdx + 1]
  BY <1>1, <1>2, <1>3, <1>7
<1>9. SeenIdx < SeenLoop.len /\ SeenIdx' = SeenIdx + 1
  BY <1>1, <1>2, <1>3
<1>. QED BY <1>4, <1>5, <1>8, <1>9 DEF Go!RangeNext

LEMMA RangeEndRefines ==
  ASSUME ~LoopBlind, SliceInv, UNCHANGED prog, RangeEnd
  PROVE  Go!RangeEnd
<1>. ~Blind
  BY DEF LoopBlind
<1>1. /\ iter # 0 /\ idx >= hdr[iter].len /\ iter' = 0 /\ idx' = 0 /\ val' = Zero
      /\ UNCHANGED <<array, hdr, var, ret>>
  BY DEF RangeEnd
<1>2. Window(iter) = hdr[iter] /\ Window(iter)' = NoData
  BY <1>1 DEF Window, NoData
<1>3. idx = Window(iter).len
  <2>1. iter \in 1..Len(hdr)
    BY <1>1, SoundFacts DEF SliceInv
  <2>2. hdr[iter].len \in Nat /\ idx \in Nat /\ idx <= hdr[iter].len
    BY <1>2, <2>1, SoundFacts DEF SliceInv
  <2>. QED BY <1>1, <1>2, <2>2
<1>4. SeenIdx = SeenLoop.len /\ SeenLoop' = NoData /\ SeenIdx' = 0 /\ SeenVal' = Zero
  BY <1>1, <1>2, <1>3, SeenOfLoop
<1>5. UNCHANGED <<SeenArray, SeenSlice, SeenRet>>
  BY <1>1, Seen, SeenSame
<1>6. Go!Nil = NoData
  BY DEF Go!Nil, NoData
<1>. QED BY <1>4, <1>5, <1>6 DEF Go!RangeEnd

\* The loops of programs that append to the slice they range over are not seen.
LEMMA UnseenRangeStutters ==
  ASSUME ~Blind, LoopBlind, SliceInv, UNCHANGED prog,
         RangeNext \/ RangeEnd \/ \E x \in Var : RangeStart(x)
  PROVE  UNCHANGED Go!vars
<1>1. UNCHANGED <<array, hdr, var, ret>>
  BY DEF RangeNext, RangeEnd, RangeStart
<1>2. UNCHANGED <<SeenArray, SeenSlice, SeenRet>>
  BY <1>1, Seen, SeenSame
<1>. QED BY <1>2, UnseenLoop DEF Go!vars

\* The elements of a window.
LEMMA SeenElements ==
  ASSUME ~Blind, SliceInv, UNCHANGED prog, NEW y \in Var
  PROVE  /\ Go!Elements(SeenSlice[y]) \in Seq(Elem)
         /\ Len(Go!Elements(SeenSlice[y])) = Slice(y).len
         /\ \A i \in 1..Slice(y).len :
              Go!Elements(SeenSlice[y])[i] = array[Slice(y).arr][Slice(y).off + i]
<1>1. SeenSlice[y] = Slice(y) /\ SeenArray = array
  BY Seen
<1>2. /\ Slice(y).len \in Nat
      /\ \A i \in 1..Slice(y).len : array[Slice(y).arr][Slice(y).off + i] \in Elem
  BY WindowInArray DEF SliceInv
<1>3. Go!Elements(Slice(y)) = [i \in 1..Slice(y).len |-> array[Slice(y).arr][Slice(y).off + i]]
  BY <1>1 DEF Go!Elements
<1>. QED BY <1>1, <1>2, <1>3

LEMMA CopyRefines ==
  ASSUME ~Blind, SliceInv, UNCHANGED prog, NEW x \in Var, NEW y \in Var, SliceCopy(x, y)
  PROVE  Go!Copy(x, y)
<1>1. /\ array' \in Shape(array) /\ ret' \in Nat
      /\ ret' = IF Slice(y).len < Slice(x).len THEN Slice(y).len ELSE Slice(x).len
      /\ ret' = 0 => array' = array
      /\ ret' # 0 => Copied(array, Slice(x).arr, Slice(x).off,
                            Slice(y).arr, Slice(y).off, ret', array')
  BY CopyEffect DEF SliceInv
<1>2. /\ prog.overlap = FALSE
      /\ UNCHANGED <<hdr, var, iter, idx, val>>
      /\ prog.overlap \/ ~CopiesUp(Slice(x).arr, Slice(x).off, Slice(y).arr, Slice(y).off, ret')
  BY <1>1, ProgFacts DEF SliceCopy, Blind, SliceInv
<1>3. UNCHANGED <<SeenSlice, SeenLoop, SeenIdx, SeenVal>>
  BY <1>2, Seen, SeenSame, SeenLoopSame
<1>4. /\ SeenSlice[x] = Slice(x) /\ SeenSlice[y] = Slice(y)
      /\ SeenArray = array /\ SeenArray' = array' /\ SeenRet' = ret'
  BY Seen
<1>5. CASE ret' = 0
  BY <1>1, <1>3, <1>4, <1>5 DEF Go!Copy
<1>6. CASE ret' # 0
  <2>1. PICK n \in Nat \ {0} : n = ret'
    BY <1>1, <1>6
  <2>2. /\ Slice(x).arr \in Nat /\ Slice(x).off \in Nat
        /\ Slice(x).len \in Nat /\ Slice(x).cap \in Nat /\ Slice(x).len <= Slice(x).cap
        /\ Slice(x).cap # 0 =>
             /\ Slice(x).arr \in 1..Len(array)
             /\ Slice(x).off + Slice(x).cap <= Len(array[Slice(x).arr])
        /\ Slice(y).len \in Nat
    BY WindowInArray DEF SliceInv
  <2>3. n <= Slice(x).len /\ n <= Slice(y).len /\ Slice(x).cap # 0
    BY <1>1, <2>1, <2>2
  <2>4. PICK d \in 1..Len(array), p \in Nat : d = Slice(x).arr /\ p = Slice(x).off
    BY <2>2, <2>3
  <2>5. array \in Seq(Seq(Elem)) /\ Len(array[d]) \in Nat
    BY SoundFacts DEF SliceInv
  <2>6. p + n <= Len(array[d])
    <3>1. PICK l \in Nat, k \in Nat : l = Slice(x).len /\ k = Slice(x).cap
      BY <2>2
    <3>2. n <= l /\ l <= k /\ p + k <= Len(array[d])
      BY <2>2, <2>3, <2>4, <3>1
    <3>. QED BY <2>5, <3>2
  <2>7. PICK f \in Seq(Elem) : f = Go!Elements(SeenSlice[y])
    BY SeenElements
  <2>8. Len(f) = Slice(y).len /\ \A i \in 1..Slice(y).len :
          f[i] = array[Slice(y).arr][Slice(y).off + i]
    BY <2>7, SeenElements
  <2>. DEFINE us == SubSeq(f, 1, n)
  <2>9. us \in Seq(Elem) /\ Len(us) = n /\ \A i \in 1..n : us[i] = f[i]
    BY <2>2, <2>3, <2>8
  <2>. HIDE DEF us
  <2>10. /\ \A a \in 1..Len(array) : \A j \in 1..Len(array[a]) :
              a # d \/ j \notin p+1..p+n => array'[a][j] = array[a][j]
         /\ \A i \in 1..n : array'[d][p + i] = array[Slice(y).arr][Slice(y).off + i]
    BY <1>1, <1>2, <1>6, <2>1, <2>4 DEF Copied
  <2>11. array' = [array EXCEPT ![d] = Go!Written(array[d], p, us)]
    <3>1. PICK bs \in Shape(array) : bs = array'
      BY <1>1
    <3>2. \A i \in 1..Len(us) : bs[d][p + i] = us[i]
      <4>. SUFFICES ASSUME NEW i \in 1..n PROVE bs[d][p + i] = us[i]
        BY <2>9
      <4>1. i \in 1..Slice(y).len
        BY <2>2, <2>3
      <4>. QED BY <2>8, <2>9, <2>10, <3>1, <4>1
    <3>3. p + Len(us) <= Len(array[d])
      BY <2>6, <2>9
    <3>4. \A a \in 1..Len(array) : \A j \in 1..Len(array[a]) :
            a # d \/ j \notin p+1..p+Len(us) => bs[a][j] = array[a][j]
      BY <2>9, <2>10, <3>1
    <3>5. RowOf(array, d, p, us, bs)
      BY <3>1, <3>2, <3>3, <3>4 DEF RowOf
    <3>6. bs = [array EXCEPT ![d] = Go!Written(array[d], p, us)]
      BY <2>5, <2>9, <3>5, RowOfElements
    <3>. QED BY <3>1, <3>6
  <2>. QED BY <1>1, <1>3, <1>4, <1>6, <2>1, <2>4, <2>7, <2>11 DEF Go!Copy, us
<1>. QED BY <1>5, <1>6

\* One row more.
LEMMA OneMoreRow ==
  ASSUME NEW os \in Seq(Seq(Elem)), NEW bs \in Seq(Seq(Elem)), Len(bs) = Len(os) + 1,
         \A a \in 1..Len(os) : bs[a] = os[a]
  PROVE  bs = Append(os, bs[Len(os) + 1])
<1>1. Len(os) \in Nat
  OBVIOUS
<1>2. PICK r \in Seq(Elem) : r = bs[Len(os) + 1]
  BY <1>1
<1>3. /\ Append(os, r) \in Seq(Seq(Elem)) /\ Len(Append(os, r)) = Len(os) + 1
      /\ Append(os, r)[Len(os) + 1] = r
      /\ \A a \in 1..Len(os) : Append(os, r)[a] = os[a]
  OBVIOUS
<1>4. \A a \in 1..Len(bs) : bs[a] = Append(os, r)[a]
  BY <1>1, <1>2, <1>3, SMTT(20)
<1>5. bs = Append(os, r)
  BY <1>3, <1>4, SeqEqual
<1>. QED BY <1>2, <1>5

\* A row of c places: f, and zeros.
Padded(r, f, c) ==
  /\ r \in Seq(Elem) /\ Len(r) = c
  /\ \A i \in 1..Len(f) : r[i] = f[i]
  /\ \A i \in Len(f)+1..c : r[i] = Zero

LEMMA PaddedRow ==
  ASSUME NEW c \in Nat, NEW f \in Seq(Elem), NEW us \in Seq(Elem), NEW r,
         Padded(r, f, c), Len(f) + Len(us) <= c
  PROVE  Go!Written(r, Len(f), us) = Go!Written(Go!Fresh(c), 0, f \o us)
<1>1. /\ r \in Seq(Elem) /\ Len(r) = c
      /\ \A i \in 1..Len(f) : r[i] = f[i]
      /\ \A i \in Len(f)+1..c : r[i] = Zero
  BY DEF Padded
<1>2. PICK k \in Nat, m \in Nat : k = Len(f) /\ m = Len(us)
  OBVIOUS
<1>3. PICK g \in Seq(Elem) : g = f \o us
  <2>1. f \o us \in Seq(Elem)
    OBVIOUS
  <2>. QED BY <2>1
<1>4. /\ Len(g) = k + m
      /\ \A i \in 1..k : g[i] = f[i]
      /\ \A i \in 1..k+m : i \notin 1..k => g[i] = us[i - k]
  <2>1. Len(f \o us) = k + m /\ \A i \in 1..k+m : (f \o us)[i] = IF i <= k THEN f[i] ELSE us[i - k]
    BY <1>2
  <2>. QED BY <1>2, <1>3, <2>1
<1>5. DOMAIN r = 1..c /\ DOMAIN Go!Fresh(c) = 1..c /\ \A i \in 1..c : Go!Fresh(c)[i] = Zero
  BY <1>1 DEF Go!Fresh
<1>6. Go!Written(r, k, us) = [i \in 1..c |-> IF i \in k+1..k+m THEN us[i - k] ELSE r[i]]
  BY <1>2, <1>5 DEF Go!Written
<1>7. Go!Written(Go!Fresh(c), 0, g) = [i \in 1..c |-> IF i \in 1..k+m THEN g[i] ELSE Zero]
  <2>1. 0 + 1 = 1 /\ 0 + (k + m) = k + m
    OBVIOUS
  <2>2. PICK fr : fr = Go!Fresh(c)
    OBVIOUS
  <2>3. DOMAIN fr = 1..c /\ \A i \in 1..c : fr[i] = Zero
    BY <1>5, <2>2
  <2>4. Go!Written(fr, 0, g) = [i \in 1..c |-> IF i \in 0+1..0+Len(g) THEN g[i - 0] ELSE fr[i]]
    BY <2>3 DEF Go!Written
  <2>5. \A i \in 1..c : i - 0 = i
    OBVIOUS
  <2>6. \A i \in 1..c : (IF i \in 0+1..0+Len(g) THEN g[i - 0] ELSE fr[i])
                        = IF i \in 1..k+m THEN g[i] ELSE Zero
    BY <1>4, <2>1, <2>3, <2>5
  <2>. QED BY <2>2, <2>4, <2>6
<1>8. ASSUME NEW i \in 1..c
      PROVE  (IF i \in k+1..k+m THEN us[i - k] ELSE r[i])
             = IF i \in 1..k+m THEN g[i] ELSE Zero
  <2>1. CASE i \in 1..k
    <3>1. i \notin k+1..k+m /\ i \in 1..k+m
      BY <2>1
    <3>2. r[i] = f[i] /\ g[i] = f[i]
      BY <1>1, <1>2, <1>4, <2>1
    <3>. QED BY <3>1, <3>2
  <2>2. CASE i \in k+1..k+m
    <3>1. i \in 1..k+m /\ i \notin 1..k
      BY <2>2
    <3>. QED BY <1>4, <2>2, <3>1
  <2>3. CASE i \notin 1..k /\ i \notin k+1..k+m
    <3>1. i \in k+1..c /\ i \notin 1..k+m
      BY <2>3
    <3>. QED BY <1>1, <1>2, <2>3, <3>1
  <2>. QED BY <2>1, <2>2, <2>3
<1>9. Go!Written(r, k, us) = Go!Written(Go!Fresh(c), 0, g)
  BY <1>6, <1>7, <1>8
<1>. QED BY <1>2, <1>3, <1>9

\* An append through the only holder of a header changes no other slice, and
\* not the one a loop runs over, in programs that do not do that.
LEMMA AppendSeen ==
  ASSUME ~Blind, SliceInv, UNCHANGED prog, NEW x \in Var, NEW y \in Var,
         NEW n \in Nat \ {0}, NEW hs, NEW os, NEW h, Appended(x, y, n, hs, os, h),
         array' \in Shape(os)
  PROVE  /\ SeenSlice' = [SeenSlice EXCEPT ![x] =
              [arr |-> hs[h].arr, off |-> hs[h].off, len |-> Slice(y).len + n, cap |-> hs[h].cap]]
         /\ UNCHANGED <<SeenLoop, SeenIdx, SeenVal, SeenRet>>
<1>1. /\ Ready(hs, os, h, y, n) /\ MayAppend(x, y)
      /\ var' = [var EXCEPT ![x] = h] /\ UNCHANGED <<iter, idx, val, ret>>
  BY DEF Appended
<1>2. /\ Slice(x)' = [arr |-> hs[h].arr, off |-> hs[h].off,
                      len |-> Slice(y).len + n, cap |-> hs[h].cap]
      /\ \A z \in Var \ {x} : var[z] # var[y] => Slice(z)' = Slice(z)
  BY AppendedHeader DEF SliceInv
<1>3. prog.own = TRUE
  BY ProgFacts DEF Blind, SliceInv
<1>4. var[y] # 0 => Holders(var[y]) = {y} /\ x = y /\ (iter = var[y] => prog.grows)
  BY <1>1, <1>3 DEF MayAppend
<1>5. var \in [Var -> 0..Len(hdr)] /\ Len(hdr) \in Nat /\ iter \in 0..Len(hdr)
  BY SoundFacts DEF SliceInv
<1>6. ASSUME NEW z \in Var \ {x} PROVE Slice(z)' = Slice(z)
  <2>1. CASE var[y] # 0
    <3>1. var[z] # var[y]
      BY <1>4, <2>1 DEF Holders
    <3>. QED BY <1>2, <3>1
  <2>2. CASE var[y] = 0 /\ var[z] # 0
    BY <1>2, <2>2
  <2>3. CASE var[z] = 0
    <3>1. var'[z] = 0
      BY <1>1, <1>5, <2>3
    <3>. QED BY <2>3, <3>1 DEF Slice, Window, NoData
  <2>. QED BY <2>1, <2>2, <2>3
<1>7. ASSUME iter # 0, ~LoopBlind PROVE hdr'[iter] = hdr[iter]
  <2>1. /\ h \in 1..Len(hs) /\ Len(hdr) <= Len(hs) /\ Len(hs) \in Nat
        /\ \A g \in 1..Len(hdr) : g # var[y] => hs[g] = hdr[g]
        /\ h = IF var[y] = 0 THEN Len(hdr) + 1 ELSE var[y]
    BY <1>1 DEF Ready, Fits
  <2>2. iter \in 1..Len(hdr) /\ iter # var[y]
    BY <1>4, <1>5, <1>7 DEF LoopBlind
  <2>3. iter # h /\ iter \in 1..Len(hs)
    BY <1>5, <2>1, <2>2
  <2>4. \A g \in 1..Len(hs) : g # h => hdr'[g] = hs[g]
    <3>1. Sound
      BY DEF SliceInv
    <3>. HIDE <1>7
    <3>2. /\ Sound'
          /\ hdr'[h] = [hs[h] EXCEPT !.len = Slice(y).len + n]
          /\ \A g \in 1..Len(hs) : g # h => hdr'[g] = hs[g]
      BY <3>1, AppendedSound
    <3>. QED BY <3>2
  <2>. QED BY <2>1, <2>2, <2>3, <2>4
<1>8. SeenSlice' = [SeenSlice EXCEPT ![x] = Slice(x)']
  BY <1>6, SeenChange
<1>. QED BY <1>1, <1>2, <1>7, <1>8, Seen, SeenLoopSame

\* What both kinds of append do, seen from outside.
LEMMA AppendRefines ==
  ASSUME ~Blind, SliceInv, UNCHANGED prog, NEW x \in Var, NEW y \in Var,
         NEW us \in Seq(Elem), Len(us) # 0, NEW hs, NEW os, NEW h,
         Appended(x, y, Len(us), hs, os, h),
         RowOf(os, hs[h].arr, hs[h].off + Slice(y).len, us, array')
  PROVE  Go!AppendTo(x, y, us)
<1>1. PICK n \in Nat \ {0} : n = Len(us)
  OBVIOUS
<1>2. Ready(hs, os, h, y, n) /\ Sound /\ \A b \in 1..Len(os) : Len(os[b]) <= prog.cap
  BY <1>1 DEF Appended, SliceInv
<1>3. /\ hs[h] \in Header /\ Reaches(hs[h], os) /\ Slice(y).len \in Nat
      /\ HasPlaces(os, hs[h].arr, hs[h].off + Slice(y).len, n)
  BY <1>2, ReadyPlaces
<1>4. PICK d \in 1..Len(os), o \in Nat, c \in Nat, k \in Nat :
        d = hs[h].arr /\ o = hs[h].off /\ c = hs[h].cap /\ k = Slice(y).len
  BY <1>3 DEF HasPlaces, Header
<1>5. array' \in Shape(os)
  BY DEF RowOf
<1>6. /\ SeenSlice' = [SeenSlice EXCEPT ![x] = [arr |-> d, off |-> o, len |-> k + n, cap |-> c]]
      /\ UNCHANGED <<SeenLoop, SeenIdx, SeenVal, SeenRet>>
  <2>1. Appended(x, y, n, hs, os, h)
    BY <1>1
  <2>. QED BY <1>4, <1>5, <2>1, AppendSeen
<1>7. SeenArray = array /\ SeenArray' = array' /\ SeenSlice[y] = Slice(y)
  BY Seen
<1>8. os \in Seq(Seq(Elem))
  BY <1>2 DEF Ready, Fits
<1>9. array' = [os EXCEPT ![d] = Go!Written(os[d], o + k, us)]
  <2>1. PICK bs : bs = array'
    OBVIOUS
  <2>2. PICK p \in Nat : p = o + k
    OBVIOUS
  <2>3. RowOf(os, d, p, us, bs)
    BY <1>4, <2>1, <2>2
  <2>4. bs = [os EXCEPT ![d] = Go!Written(os[d], p, us)]
    BY <1>8, <2>3, RowOfElements
  <2>. QED BY <2>1, <2>2, <2>4
<1>10. CASE var[y] # 0 /\ h = var[y] /\ hs = hdr /\ os = array
  <2>1. PICK s \in Header : s = Slice(y) /\ s = hs[h]
    BY <1>2, <1>10, SliceFacts
  <2>2. s.arr = d /\ s.off = o /\ s.len = k /\ s.cap = c
    BY <1>4, <2>1
  <2>3. k + n <= c
    BY <1>2, <1>4 DEF Ready
  <2>4. [s EXCEPT !.len = k + n] = [arr |-> d, off |-> o, len |-> k + n, cap |-> c]
    BY <2>2 DEF Header
  <2>5. SeenSlice' = [SeenSlice EXCEPT ![x] = [s EXCEPT !.len = k + n]]
    BY <1>6, <2>4
  <2>6. SeenArray' = [SeenArray EXCEPT ![s.arr] = Go!Written(SeenArray[s.arr], s.off + s.len, us)]
    BY <1>7, <1>9, <1>10, <2>2
  <2>. QED BY <1>1, <1>6, <1>7, <2>1, <2>2, <2>3, <2>5, <2>6 DEF Go!AppendTo
<1>11. CASE /\ k + n > Slice(y).cap
            /\ d = Len(array) + 1 /\ o = 0
            /\ Len(os) = Len(array) + 1
            /\ \A a \in 1..Len(array) : os[a] = array[a]
            /\ Len(os[d]) = c
            /\ \A i \in k+1..c : os[d][i] = Zero
            /\ \A i \in 1..k : os[d][i] = array[Slice(y).arr][Slice(y).off + i]
  <2>1. k + n <= c
    BY <1>2, <1>4 DEF Ready
  <2>2. c <= MaxCap /\ MaxCap \in Nat
    <3>1. c <= prog.cap
      BY <1>2, <1>11
    <3>2. prog.cap \in Nat /\ prog.cap <= MaxCap /\ MaxCap \in Nat
      BY ProgFacts DEF SliceInv
    <3>. QED BY <3>1, <3>2
  <2>3. PICK f \in Seq(Elem) : f = Go!Elements(SeenSlice[y])
    BY SeenElements
  <2>4. Len(f) = k /\ \A i \in 1..k : f[i] = array[Slice(y).arr][Slice(y).off + i]
    BY <1>4, <2>3, SeenElements
  <2>5. PICK r \in Seq(Elem) : r = os[d]
    BY <1>8
  <2>6. Padded(r, f, c)
    BY <1>11, <2>4, <2>5 DEF Padded
  <2>7. Go!Written(r, k, us) = Go!Written(Go!Fresh(c), 0, f \o us)
    <3>1. Len(f) + Len(us) <= c
      BY <1>1, <2>1, <2>4
    <3>2. Go!Written(r, Len(f), us) = Go!Written(Go!Fresh(c), 0, f \o us)
      BY <2>6, <3>1, PaddedRow
    <3>. QED BY <2>4, <3>2
  <2>8. array' = Append(array, Go!Written(r, k, us))
    <3>1. PICK bs : bs = array'
      OBVIOUS
    <3>2. bs \in Seq(Seq(Elem)) /\ Len(bs) = Len(os)
      BY <1>5, <3>1 DEF Shape
    <3>3. array \in Seq(Seq(Elem)) /\ Len(array) \in Nat
      BY <1>2, SoundFacts
    <3>4. PICK t : t = Go!Written(r, k, us)
      OBVIOUS
    <3>5. bs = [os EXCEPT ![d] = t]
      <4>1. o + k = k
        BY <1>11
      <4>. QED BY <1>9, <2>5, <3>1, <3>4, <4>1
    <3>6. bs[Len(array) + 1] = t /\ \A a \in 1..Len(array) : bs[a] = array[a]
      BY <1>8, <1>11, <3>3, <3>5
    <3>7. bs = Append(array, bs[Len(array) + 1])
      BY <1>11, <3>2, <3>3, <3>6, OneMoreRow
    <3>. QED BY <3>1, <3>4, <3>6, <3>7
  <2>9. SeenArray' = Append(SeenArray, Go!Written(Go!Fresh(c), 0, f \o us))
    BY <1>7, <2>7, <2>8
  <2>10. SeenSlice' = [SeenSlice EXCEPT ![x] =
           [arr |-> Len(SeenArray) + 1, off |-> 0, len |-> k + n, cap |-> c]]
    BY <1>6, <1>7, <1>11
  <2>11. c \in k+n..MaxCap /\ k + n > SeenSlice[y].cap /\ SeenSlice[y].len = k
    BY <1>4, <1>7, <1>11, <2>1, <2>2
  <2>. QED BY <1>1, <1>6, <2>3, <2>9, <2>10, <2>11 DEF Go!AppendTo
<1>12. ASSUME ~(var[y] # 0 /\ h = var[y] /\ hs = hdr /\ os = array)
       PROVE  /\ k + n > Slice(y).cap
              /\ d = Len(array) + 1 /\ o = 0
              /\ Len(os) = Len(array) + 1
              /\ \A a \in 1..Len(array) : os[a] = array[a]
              /\ Len(os[d]) = c
              /\ \A i \in k+1..c : os[d][i] = Zero
              /\ \A i \in 1..k : os[d][i] = array[Slice(y).arr][Slice(y).off + i]
  <2>1. /\ k + n > Slice(y).cap
        /\ d = Len(array) + 1 /\ o = 0
        /\ Len(os) = Len(array) + 1
        /\ \A a \in 1..Len(array) : os[a] = array[a]
        /\ Len(os[d]) = c
        /\ \A i \in k+1..c : os[d][i] = Zero
    BY <1>2, <1>4, <1>12 DEF Ready
  <2>2. \A i \in 1..k : os[d][o + i] = array[Slice(y).arr][Slice(y).off + i]
    BY <1>2, <1>4 DEF Ready
  <2>3. \A i \in 1..k : o + i = i
    BY <2>1
  <2>. QED BY <2>1, <2>2, <2>3
<1>. QED BY <1>10, <1>11, <1>12

LEMMA AppendOneRefines ==
  ASSUME ~Blind, SliceInv, UNCHANGED prog, NEW x \in Var, NEW y \in Var, NEW e \in Elem,
         SliceAppend(x, y, e)
  PROVE  Go!AppendTo(x, y, <<e>>)
<1>1. Sound
  BY DEF SliceInv
<1>2. PICK hs, os, h :
        /\ Appended(x, y, 1, hs, os, h)
        /\ array' = Write(os, hs[h].arr, hs[h].off + Slice(y).len + 1, e)
  BY <1>1, AppendForm
<1>3. Ready(hs, os, h, y, 1)
  BY <1>2 DEF Appended
<1>4. PICK d \in Nat, p \in Nat : d = hs[h].arr /\ p = hs[h].off + Slice(y).len
  <2>1. 1 \in Nat \ {0}
    OBVIOUS
  <2>2. hs[h] \in Header /\ Slice(y).len \in Nat
    BY <1>1, <1>3, <2>1, ReadyPlaces
  <2>. QED BY <2>2 DEF Header
<1>5. HasPlaces(os, d, p, 1)
  <2>1. 1 \in Nat \ {0}
    OBVIOUS
  <2>2. HasPlaces(os, hs[h].arr, hs[h].off + Slice(y).len, 1)
    BY <1>1, <1>3, <2>1, ReadyPlaces
  <2>. QED BY <1>4, <2>2
<1>6. /\ array' \in Shape(os)
      /\ array'[d][p + 1] = e
      /\ \A a \in 1..Len(os) : \A j \in 1..Len(os[a]) :
           a # d \/ j # p + 1 => array'[a][j] = os[a][j]
  BY <1>1, <1>2, <1>3, <1>4, AppendWrites
<1>7. PICK us \in Seq(Elem) : us = <<e>> /\ Len(us) = 1 /\ us[1] = e
  <2>1. <<e>> \in Seq(Elem) /\ Len(<<e>>) = 1 /\ <<e>>[1] = e
    OBVIOUS
  <2>. QED BY <2>1
<1>8. RowOf(os, d, p, us, array')
  <2>1. p + 1 <= Len(os[d])
    BY <1>5 DEF HasPlaces
  <2>2. \A j : j \notin p+1..p+1 => j # p + 1
    OBVIOUS
  <2>3. \A i \in 1..1 : i = 1
    OBVIOUS
  <2>. QED BY <1>6, <1>7, <2>1, <2>2, <2>3 DEF RowOf
<1>9. RowOf(os, hs[h].arr, hs[h].off + Slice(y).len, us, array')
  BY <1>4, <1>8
<1>10. Appended(x, y, Len(us), hs, os, h) /\ Len(us) # 0
  BY <1>2, <1>7
<1>11. Go!AppendTo(x, y, us)
  BY <1>9, <1>10, AppendRefines
<1>. QED BY <1>7, <1>11

\* In os, window w has the elements of z.
SourceAt(os, w, z) ==
  \A i \in 1..Slice(z).len : os[w.arr][w.off + i] = array[Slice(z).arr][Slice(z).off + i]

\* The elements to append are still where the header of z says.
LEMMA SourceElements ==
  ASSUME Sound, NEW y \in Var, NEW z \in Var, Slice(z).len \in Nat \ {0},
         NEW hs, NEW os, NEW h, Ready(hs, os, h, y, Slice(z).len)
  PROVE  SourceAt(os, hs[var[z]], z)
<1>. SUFFICES ASSUME NEW i \in 1..Slice(z).len
              PROVE  os[hs[var[z]].arr][hs[var[z]].off + i] = array[Slice(z).arr][Slice(z).off + i]
  BY DEF SourceAt
<1>1. var[z] \in 1..Len(hdr) /\ Slice(z) = hdr[var[z]]
  <2>1. NoData.len = 0
    BY DEF NoData
  <2>. QED BY <2>1, SliceFacts
<1>2. CASE var[z] = var[y]
  <2>1. Slice(y) = Slice(z) /\ var[y] # 0
    BY <1>1, <1>2 DEF Slice
  <2>2. h = var[z]
    BY <1>2, <2>1 DEF Ready
  <2>3. \A j \in 1..Slice(y).len :
          os[hs[h].arr][hs[h].off + j] = array[Slice(y).arr][Slice(y).off + j]
    BY DEF Ready
  <2>. QED BY <2>1, <2>2, <2>3
<1>3. CASE var[z] # var[y]
  <2>1. hs[var[z]] = Slice(z)
    BY <1>1, <1>3 DEF Ready
  <2>2. Slice(z).arr \in 1..Len(array)
    BY WindowInArray
  <2>3. os[Slice(z).arr] = array[Slice(z).arr]
    BY <2>2 DEF Ready
  <2>. QED BY <2>1, <2>3
<1>. QED BY <1>2, <1>3

LEMMA AppendSliceRefines ==
  ASSUME ~Blind, SliceInv, UNCHANGED prog, NEW x \in Var, NEW y \in Var, NEW z \in Var,
         SliceAppendSlice(x, y, z)
  PROVE  SeenSlice[z].len > 0 /\ Go!AppendTo(x, y, Go!Elements(SeenSlice[z]))
<1>1. Sound
  BY DEF SliceInv
<1>2. PICK n \in Nat \ {0} : n = Slice(z).len
  BY <1>1, AppendSliceForm
<1>3. PICK hs, os, h :
        /\ Appended(x, y, n, hs, os, h)
        /\ prog.overlap \/ ~CopiesUp(hs[h].arr, hs[h].off + Slice(y).len,
                                    hs[var[z]].arr, hs[var[z]].off, n)
        /\ array' = Memcopy(os, hs[h].arr, hs[h].off + Slice(y).len,
                            hs[var[z]].arr, hs[var[z]].off, n)
  BY <1>1, <1>2, AppendSliceForm
<1>4. Ready(hs, os, h, y, n)
  BY <1>3 DEF Appended
<1>5. hs[h] \in Header /\ Slice(y).len \in Nat
      /\ HasPlaces(os, hs[h].arr, hs[h].off + Slice(y).len, n)
  BY <1>1, <1>4, ReadyPlaces
<1>6. PICK d \in Nat, p \in Nat : d = hs[h].arr /\ p = hs[h].off + Slice(y).len
  BY <1>5 DEF Header
<1>7. Copied(os, d, p, hs[var[z]].arr, hs[var[z]].off, n, array')
  <2>1. Slice(z).len \in Nat \ {0} /\ Ready(hs, os, h, y, Slice(z).len)
    BY <1>2, <1>4
  <2>2. LET w == hs[h]
            v == hs[var[z]]
            t == w.off + Slice(y).len
        IN  Copied(os, w.arr, t, v.arr, v.off, Slice(z).len,
                   Memcopy(os, w.arr, t, v.arr, v.off, Slice(z).len))
    BY <1>1, <2>1, AppendCopies
  <2>. QED BY <1>2, <1>3, <1>6, <2>2
<1>8. ~CopiesUp(d, p, hs[var[z]].arr, hs[var[z]].off, n)
  <2>1. prog.overlap = FALSE
    BY ProgFacts DEF Blind, SliceInv
  <2>. QED BY <1>3, <1>6, <2>1
<1>9. /\ array' \in Shape(os)
      /\ \A a \in 1..Len(os) : \A j \in 1..Len(os[a]) :
           a # d \/ j \notin p+1..p+n => array'[a][j] = os[a][j]
      /\ \A i \in 1..n : array'[d][p + i] = os[hs[var[z]].arr][hs[var[z]].off + i]
  BY <1>7, <1>8 DEF Copied
<1>10. PICK us \in Seq(Elem) : us = Go!Elements(SeenSlice[z])
  BY SeenElements
<1>11. Len(us) = n /\ \A i \in 1..n : us[i] = array[Slice(z).arr][Slice(z).off + i]
  BY <1>2, <1>10, SeenElements
<1>12. \A i \in 1..n : os[hs[var[z]].arr][hs[var[z]].off + i] = us[i]
  <2>1. Slice(z).len \in Nat \ {0} /\ Ready(hs, os, h, y, Slice(z).len)
    BY <1>2, <1>4
  <2>2. SourceAt(os, hs[var[z]], z)
    BY <1>1, <2>1, SourceElements
  <2>. QED BY <1>2, <1>11, <2>2 DEF SourceAt
<1>13. RowOf(os, d, p, us, array')
  <2>1. p + n <= Len(os[d])
    BY <1>5, <1>6 DEF HasPlaces
  <2>2. \A i \in 1..n : array'[d][p + i] = us[i]
    BY <1>9, <1>12
  <2>. QED BY <1>9, <1>11, <2>1, <2>2 DEF RowOf
<1>14. RowOf(os, hs[h].arr, hs[h].off + Slice(y).len, us, array')
  BY <1>6, <1>13
<1>15. Appended(x, y, Len(us), hs, os, h) /\ Len(us) # 0
  BY <1>3, <1>11
<1>16. Go!AppendTo(x, y, us)
  BY <1>14, <1>15, AppendRefines
<1>17. SeenSlice[z].len > 0
  <2>1. SeenSlice[z] = Slice(z)
    BY Seen
  <2>. QED BY <1>2, <2>1
<1>. QED BY <1>10, <1>16, <1>17

-----------------------------------------------------------------------------
(* The refinement.                                                           *)

\* What no statement of the program is seen to do.
LEMMA BlindStutters ==
  ASSUME Blind, UNCHANGED prog
  PROVE  UNCHANGED Go!vars
<1>1. Blind'
  BY DEF Blind
<1>. QED BY <1>1 DEF Go!vars, SeenArray, SeenSlice, SeenLoop, SeenIdx, SeenVal, SeenRet, LoopBlind

LEMMA IdleStutters ==
  ASSUME UNCHANGED vars
  PROVE  UNCHANGED Go!vars
BY DEF vars, Go!vars, Blind, LoopBlind, SeenArray, SeenSlice, SeenLoop, SeenIdx, SeenVal,
       SeenRet, Slice, Window

LEMMA InitRefines == Init => Go!Init
<1>. SUFFICES ASSUME Init PROVE Go!Init
  OBVIOUS
<1>1. /\ array = <<>> /\ var = [x \in Var |-> 0]
      /\ iter = 0 /\ idx = 0 /\ val = Zero /\ ret = 0
  BY DEF Init
<1>2. Go!Nil = NoData
  BY DEF Go!Nil, NoData
<1>3. \A x \in Var : Slice(x) = NoData
  BY <1>1 DEF Slice, Window
<1>4. Window(iter) = NoData
  BY <1>1 DEF Window
<1>5. SeenSlice = [x \in Var |-> NoData]
  BY <1>3 DEF SeenSlice
<1>6. SeenArray = <<>> /\ SeenLoop = NoData /\ SeenIdx = 0
      /\ SeenVal = Zero /\ SeenRet = 0
  BY <1>1, <1>4 DEF SeenArray, SeenLoop, SeenIdx, SeenVal, SeenRet
<1>. QED BY <1>2, <1>5, <1>6 DEF Go!Init

LEMMA NextRefines == SliceInv /\ [Next]_vars => [Go!Next]_(Go!vars)
<1>. SUFFICES ASSUME SliceInv, [Next]_vars PROVE Go!Next \/ UNCHANGED Go!vars
  OBVIOUS
<1>1. CASE UNCHANGED vars
  BY <1>1, IdleStutters
<1>2. CASE Next /\ Blind
  BY <1>2, BlindStutters DEF Next
<1>3. CASE Next /\ ~Blind
  <2>. Next /\ ~Blind /\ Step /\ UNCHANGED prog
    BY <1>3 DEF Next
  <2>1. prog.cap \in Nat /\ prog.cap <= MaxCap /\ MaxCap \in Nat
    BY ProgFacts DEF SliceInv
  <2>2. \A c \in 0..prog.cap : c \in Nat /\ c \in 0..MaxCap
    BY <2>1
  <2>3. CASE \E x, y \in Var : Assign(x, y)
    BY <2>3, AssignRefines DEF Go!Next
  <2>4. CASE \E x \in Var, c \in 0..prog.cap :
               SliceMake(x, c) \/ \E n \in 0..c-1 : SliceMakeCap(x, n, c)
    <3>1. PICK x \in Var, c \in 0..prog.cap :
            SliceMake(x, c) \/ \E n \in 0..c-1 : SliceMakeCap(x, n, c)
      BY <2>4
    <3>2. c \in Nat /\ c \in 0..MaxCap /\ c \in 0..c /\ \A n \in 0..c-1 : n \in 0..c
      BY <2>1, <2>2
    <3>3. \E n \in 0..c : SliceMakeCap(x, n, c)
      BY <3>1, <3>2 DEF SliceMake
    <3>4. \E n \in 0..c : Go!Make(x, n, c)
      BY <3>2, <3>3, MakeRefines
    <3>. QED BY <3>2, <3>4 DEF Go!Next
  <2>5. CASE \E x, y \in Var, e \in Elem : SliceAppend(x, y, e)
    BY <2>5, AppendOneRefines DEF Go!Next
  <2>6. CASE \E x, y, z \in Var : SliceAppendSlice(x, y, z) \/ SliceAppendNothing(x, y, z)
    <3>1. CASE \E x, y, z \in Var : SliceAppendSlice(x, y, z)
      BY <3>1, AppendSliceRefines DEF Go!Next
    <3>2. CASE \E x, y, z \in Var : SliceAppendNothing(x, y, z)
      BY <3>2, AssignRefines DEF Go!Next, SliceAppendNothing
    <3>. QED BY <2>6, <3>1, <3>2
  <2>7. CASE \E x, y \in Var : SliceCopy(x, y)
    BY <2>7, CopyRefines DEF Go!Next
  <2>8. CASE \E x, y \in Var, low, high \in 0..prog.cap :
               SliceReslice(x, y, low, high) \/ SliceResliceNil(x, y, low, high)
    <3>1. PICK x \in Var, y \in Var, low \in 0..prog.cap, high \in 0..prog.cap :
            SliceReslice(x, y, low, high) \/ SliceResliceNil(x, y, low, high)
      BY <2>8
    <3>2. low \in Nat /\ high \in Nat /\ low \in 0..MaxCap /\ high \in 0..MaxCap
      BY <2>2
    <3>3. Go!Reslice(x, y, low, high) \/ UNCHANGED Go!vars
      BY <3>1, <3>2, ResliceRefines, ResliceNilRefines
    <3>. QED BY <3>2, <3>3 DEF Go!Next
  <2>9. CASE \E x \in Var, i \in 1..prog.cap, e \in Elem : Set(x, i, e)
    <3>1. PICK x \in Var, i \in 1..prog.cap, e \in Elem : Set(x, i, e)
      BY <2>9
    <3>2. i \in Nat /\ i \in 1..MaxCap
      BY <2>1
    <3>3. Go!Set(x, i, e)
      BY <3>1, <3>2, SetRefines
    <3>. QED BY <3>2, <3>3 DEF Go!Next
  <2>10. CASE RangeNext \/ RangeEnd \/ \E x \in Var : RangeStart(x)
    <3>1. CASE LoopBlind
      BY <2>10, <3>1, UnseenRangeStutters
    <3>2. CASE ~LoopBlind
      BY <2>10, <3>2, RangeNextRefines, RangeEndRefines, RangeStartRefines DEF Go!Next
    <3>. QED BY <3>1, <3>2
  <2>. QED BY <2>3, <2>4, <2>5, <2>6, <2>7, <2>8, <2>9, <2>10 DEF Step
<1>. QED BY <1>1, <1>2, <1>3

\* Every behaviour of a program that appends through the only holder of a
\* header and copies nothing up into its own window is one of Go's slice
\* values: sharing headers (runtime.go, SliceAppend) does not show.  Its range
\* loops are Go's too, unless it appends to the slice it ranges over: there
\* compileForRange (ir.go) reads the length of the grown header again, and only
\* what the program does outside the loop's own variable is Go's.
THEOREM SlicesImplementGo == Spec => ImplementsGo
<1>1. Spec => Go!Init /\ [][Go!Next]_(Go!vars)
  BY InitRefines, NextRefines, SliceInvariant, PTL DEF Spec
<1>. QED BY <1>1 DEF ImplementsGo, Go!Spec
=============================================================================
