---------------------------- MODULE SetInduction ----------------------------
(***************************************************************************)
(* Induction over the natural numbers, stated for a set of them, so that   *)
(* the provers can use it: what it says of an operator is said of the set  *)
(* of the numbers for which the operator is true.                          *)
(***************************************************************************)
EXTENDS Integers, FiniteSets, FiniteSetTheorems, WellFoundedInduction, TLAPS

\* A set with 0 and the successor of each of its members has every number: else
\* the intervals up to the numbers it lacks would shrink for ever.
THEOREM NatSetInduction ==
  ASSUME NEW S \in SUBSET Nat, 0 \in S, \A n \in S : n + 1 \in S
  PROVE  S = Nat
<1>. SUFFICES ASSUME NEW b \in Nat \ S PROVE FALSE
  OBVIOUS
<1>. DEFINE T == { 0..k : k \in Nat \ S }
<1>1. T \subseteq FiniteSubsetsOf(Nat) /\ T # {}
  <2>1. \A k \in Nat : 0..k \in SUBSET Nat /\ IsFiniteSet(0..k)
    BY FS_Interval
  <2>. QED BY <2>1 DEF FiniteSubsetsOf
<1>2. PICK X \in T : \A Y \in T : <<Y, X>> \notin StrictSubsetOrdering(Nat)
  <2>. HIDE DEF T
  <2>. QED BY <1>1, FS_StrictSubsetOrderingWellFounded, WFMin
<1>3. PICK m \in Nat \ S : X = 0..m
  OBVIOUS
<1>4. m # 0 /\ m - 1 \in Nat /\ (m - 1) + 1 = m
  OBVIOUS
<1>5. m - 1 \in Nat \ S
  BY <1>4
<1>6. 0..(m-1) \in T /\ 0..(m-1) \in SUBSET Nat /\ X \in SUBSET Nat
  BY <1>3, <1>4, <1>5
<1>7. 0..(m-1) \subseteq X /\ 0..(m-1) # X
  BY <1>3, <1>4
<1>8. <<0..(m-1), X>> \in StrictSubsetOrdering(Nat)
  BY <1>6, <1>7 DEF StrictSubsetOrdering
<1>. QED BY <1>2, <1>6, <1>8

\* Up to a bound: what holds at 0 and passes to the next number holds all the way.
THEOREM IntervalSetInduction ==
  ASSUME NEW n \in Nat, NEW S, 0 \in S, \A i \in 0..n-1 : i \in S => i + 1 \in S
  PROVE  \A i \in 0..n : i \in S
<1>. DEFINE T == { i \in Nat : i <= n => i \in S }
<1>1. 0 \in T
  OBVIOUS
<1>2. \A i \in T : i + 1 \in T
  OBVIOUS
<1>3. T = Nat
  <2>. HIDE DEF T
  <2>1. T \in SUBSET Nat
    BY DEF T
  <2>. QED BY <1>1, <1>2, <2>1, NatSetInduction
<1>. QED BY <1>3

\* g begins with a, and step gives each value from the one before.
IsRecursion(g, n, a, step) == g[0] = a /\ \A k \in 1..n : g[k] = step[k][g[k-1]]

\* Functions defined by recursion up to a bound exist.
THEOREM IntervalRecursion ==
  ASSUME NEW n \in Nat, NEW X, NEW a \in X, NEW step \in [1..n -> [X -> X]]
  PROVE  \E g \in [0..n -> X] : IsRecursion(g, n, a, step)
<1>. DEFINE Upto(j) == \E g \in [0..n -> X] : g[0] = a /\ \A k \in 1..j : g[k] = step[k][g[k-1]]
            Good == {m \in 0..n : Upto(m)}
<1>1. 0 \in Good
  <2>. DEFINE g == [k \in 0..n |-> a]
  <2>1. g \in [0..n -> X] /\ g[0] = a
    OBVIOUS
  <2>. HIDE DEF g
  <2>2. \A k \in 1..0 : g[k] = step[k][g[k-1]]
    OBVIOUS
  <2>. QED BY <2>1, <2>2
<1>2. ASSUME NEW m \in 0..n-1, m \in Good PROVE m + 1 \in Good
  <2>1. PICK g \in [0..n -> X] : g[0] = a /\ \A k \in 1..m : g[k] = step[k][g[k-1]]
    BY <1>2
  <2>2. m + 1 \in 1..n /\ m \in 0..n /\ m + 1 \in 0..n
    OBVIOUS
  <2>3. step[m+1][g[m]] \in X
    BY <2>2
  <2>. DEFINE h == [g EXCEPT ![m+1] = step[m+1][g[m]]]
  <2>4. /\ h \in [0..n -> X] /\ h[m+1] = step[m+1][g[m]]
        /\ \A k \in 0..m : h[k] = g[k]
    BY <2>2, <2>3
  <2>. HIDE DEF h
  <2>5. ASSUME NEW k \in 1..m+1 PROVE h[k] = step[k][h[k-1]]
    <3>1. CASE k = m + 1
      <4>1. k - 1 = m /\ m \in 0..m
        BY <3>1
      <4>. QED BY <2>4, <3>1, <4>1
    <3>2. CASE k \in 1..m
      <4>1. k \in 0..m /\ k - 1 \in 0..m
        BY <3>2
      <4>. QED BY <2>1, <2>4, <3>2, <4>1
    <3>. QED BY <3>1, <3>2
  <2>6. h[0] = a
    BY <2>1, <2>4
  <2>. QED BY <2>2, <2>4, <2>5, <2>6
<1>. HIDE DEF Good
<1>3. \A m \in 0..n : m \in Good
  BY <1>1, <1>2, IntervalSetInduction
<1>4. n \in Good
  BY <1>3
<1>. QED BY <1>4 DEF Good, IsRecursion
=============================================================================
