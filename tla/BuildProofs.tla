----------------------------- MODULE BuildProofs -----------------------------
(***************************************************************************)
(* Proofs about Build, for all worlds: whatever files, arguments and       *)
(* packages the compiler finds.                                            *)
(*                                                                         *)
(* Two results: the driver leaves no temporary file behind, and no         *)
(* function that eliminateDeadFunctions removed is missed.                 *)
(***************************************************************************)
EXTENDS Build, SetInduction

-----------------------------------------------------------------------------
(* Temporary files.                                                          *)

\* There are temporary files only in -run mode, where runCleanup removes them.
\* The exits that do not clean up come before there are any, or when no
\* package is found; the program written to a file is a package.
TempInv ==
  /\ {"run", "files"} \subseteq DOMAIN opt
  /\ tmp # {} => opt.run
  /\ pc = "options" => tmp = {}
  /\ pc \in {"search", "entry"} /\ tmp # {} => opt.files = <<Stdin>>
  /\ pc = "exited" => tmp = {}

LEMMA WithOptionFields ==
  ASSUME NEW o, NEW words, {"run", "files"} \subseteq DOMAIN o
  PROVE  {"run", "files"} \subseteq DOMAIN WithOption(o, words)
<1>1. \A t : {"run", "files"} \subseteq DOMAIN WithTarget(o, t)
  BY DEF WithTarget
<1>. QED BY <1>1 DEF WithOption

\* A program read from the input is a package.
LEMMA InputIsPackage ==
  ASSUME opt.files = <<Stdin>>
  PROVE  EntryPackage # NoPackage
<1>1. opt.files[1] = Stdin /\ isGoFile(Stdin)
  BY DEF Stdin, isGoFile, Last
<1>2. EntryPackage = Package("main", "main", Parsed([i \in DOMAIN opt.files |-> world.named[opt.files[i]]]))
  BY <1>1 DEF EntryPackage
<1>3. EntryPackage.path = "main" /\ NoPackage.path = ""
  BY <1>2 DEF Package, NoPackage
<1>. QED BY <1>3

LEMMA TempInvInit == Init => TempInv
BY DEF Init, TempInv, Defaults

\* The stages after the package of the program is found.
LEMMA LaterStage ==
  ASSUME TempInv, UNCHANGED opt, pc' \notin {"options", "search", "entry"},
         tmp' = tmp \/ opt.run \/ tmp' = {}, pc' = "exited" => tmp' = {}
  PROVE  TempInv'
BY DEF TempInv

LEMMA CleanedUp ==
  ASSUME TempInv, runCleanup
  PROVE  tmp' = {}
BY DEF TempInv, runCleanup

LEMMA TempInvNext == TempInv /\ [Next]_vars => TempInv'
<1>. SUFFICES ASSUME TempInv, [Next]_vars PROVE TempInv'
  OBVIOUS
<1>1. CASE UNCHANGED vars
  BY <1>1 DEF vars, given, TempInv
<1>2. CASE ParseOption
  <2>1. {"run", "files"} \subseteq DOMAIN opt'
    BY <1>2, WithOptionFields DEF ParseOption, TempInv
  <2>2. tmp = {} /\ tmp' = tmp /\ pc' \in {"options", "exited"}
    BY <1>2 DEF ParseOption, TempInv, Exit, Goto
  <2>. QED BY <2>1, <2>2 DEF TempInv
<1>3. CASE ReadInput
  <2>1. tmp = {} /\ opt.run /\ {"run", "files"} \subseteq DOMAIN opt
    BY <1>3 DEF ReadInput, NeedsInput, TempInv
  <2>2. CASE UNCHANGED opt /\ pc' = "exited" /\ tmp' = {}
    BY <2>1, <2>2 DEF TempInv
  <2>3. CASE opt' = [opt EXCEPT !.files = <<Stdin>>] /\ pc' = "search"
    BY <2>1, <2>3 DEF TempInv
  <2>4. ~world.stdin => UNCHANGED opt /\ pc' = "exited" /\ tmp' = tmp
    BY <1>3 DEF ReadInput, Exit
  <2>5. world.stdin /\ ~world.writable => UNCHANGED opt /\ pc' = "exited" /\ runCleanup
    BY <1>3 DEF ReadInput, Fail, Exit
  <2>6. world.stdin /\ world.writable => opt' = [opt EXCEPT !.files = <<Stdin>>] /\ pc' = "search"
    BY <1>3 DEF ReadInput
  <2>. QED BY <2>1, <2>2, <2>3, <2>4, <2>5, <2>6, CleanedUp
<1>4. CASE Start
  <2>1. UNCHANGED opt /\ tmp = {} /\ tmp' = tmp
    BY <1>4 DEF Start, given, TempInv, Goto, Exit
  <2>2. pc' \in {"exited", "search"}
    BY <1>4 DEF Start, Goto, Exit
  <2>. QED BY <2>1, <2>2 DEF TempInv
<1>5. CASE FindBase
  <2>1. UNCHANGED <<opt, tmp>> /\ pc = "search" /\ pc' \in {"search", "entry"}
    BY <1>5 DEF FindBase, Goto
  <2>. QED BY <2>1 DEF TempInv
<1>6. CASE ReadEntry
  <2>1. pc = "entry" /\ UNCHANGED <<opt, tmp>> /\ pc' \in {"imports", "exited"}
        /\ (EntryPackage # NoPackage => pc' = "imports")
    BY <1>6 DEF ReadEntry, given, Goto, Exit
  <2>2. tmp # {} => pc' = "imports"
    BY <2>1, InputIsPackage DEF TempInv
  <2>. QED BY <2>1, <2>2, LaterStage
<1>7. CASE ResolveImport
  <2>1. UNCHANGED <<opt, tmp>> /\ pc = "imports" /\ pc' \in {"imports"}
    BY <1>7 DEF ResolveImport, given
  <2>. QED BY <2>1, LaterStage
<1>8. CASE Resolved
  <2>1. UNCHANGED <<opt, tmp>> /\ pc = "imports" /\ pc' \in {"sort"}
    BY <1>8 DEF Resolved, given, Goto
  <2>. QED BY <2>1, LaterStage
<1>9. CASE Sort
  <2>1. UNCHANGED <<opt, tmp>> /\ pc = "sort" /\ pc' \in {"sort", "validate"}
    BY <1>9 DEF Sort, given, Goto
  <2>. QED BY <2>1, LaterStage
<1>22. CASE visit
  <2>1. UNCHANGED <<opt, tmp>> /\ pc = "sort" /\ pc' \in {"sort"}
    BY <1>22 DEF visit, given
  <2>. QED BY <2>1, LaterStage
<1>10. CASE Validate
  <2>1. UNCHANGED opt
    BY <1>10 DEF Validate, given
  <2>2. \/ pc' = "exited" /\ runCleanup
        \/ pc' = "compile" /\ UNCHANGED tmp
    BY <1>10 DEF Validate, Fail, Exit, Goto
  <2>. QED BY <2>1, <2>2, LaterStage, CleanedUp
<1>11. CASE Compile
  <2>1. UNCHANGED opt
    BY <1>11 DEF Compile, given
  <2>2. \/ pc' = "exited" /\ runCleanup
        \/ pc' = "mark" /\ UNCHANGED tmp
    BY <1>11 DEF Compile, Fail, Exit, Goto
  <2>. QED BY <2>1, <2>2, LaterStage, CleanedUp
<1>12. CASE Mark
  <2>1. UNCHANGED <<opt, tmp>> /\ pc = "mark" /\ pc' \in {"mark"}
    BY <1>12 DEF Mark, given
  <2>. QED BY <2>1, LaterStage
<1>13. CASE Sweep
  <2>1. UNCHANGED <<opt, tmp>> /\ pc = "mark" /\ pc' \in {"generate"}
    BY <1>13 DEF Sweep, given, Goto
  <2>. QED BY <2>1, LaterStage
<1>14. CASE Generate
  <2>1. UNCHANGED opt
    BY <1>14 DEF Generate, given
  <2>2. \/ pc' = "exited" /\ (runCleanup \/ (~opt.run /\ UNCHANGED tmp))
        \/ pc' = "run" /\ (opt.run \/ UNCHANGED tmp)
    BY <1>14 DEF Generate, Fail, Exit, Goto
  <2>3. ~opt.run => tmp = {}
    BY DEF TempInv
  <2>. QED BY <2>1, <2>2, <2>3, LaterStage, CleanedUp
<1>15. CASE Begin
  <2>1. UNCHANGED <<opt, tmp>> /\ pc = "run" /\ pc' \in {"run"}
    BY <1>15 DEF Begin, given
  <2>. QED BY <2>1, LaterStage
<1>16. CASE Return
  <2>1. UNCHANGED opt
    BY <1>16 DEF Return, given
  <2>2. \/ pc' = "exited" /\ runCleanup
        \/ pc' = "run" /\ UNCHANGED tmp
    BY <1>16 DEF Return, Ends, Exit, Goto
  <2>. QED BY <2>1, <2>2, LaterStage, CleanedUp
<1>17. CASE NoMain
  <2>1. UNCHANGED opt /\ pc' = "exited" /\ runCleanup
    BY <1>17 DEF NoMain, given, Fail, Exit
  <2>. QED BY <2>1, LaterStage, CleanedUp
<1>18. CASE Call
  <2>1. UNCHANGED opt
    BY <1>18 DEF Call, given
  <2>2. \/ pc' = "exited" /\ runCleanup
        \/ pc' \in {"run", "overflow"} /\ UNCHANGED tmp
    BY <1>18 DEF Call, Ends, Exit, Goto
  <2>. QED BY <2>1, <2>2, LaterStage, CleanedUp
<1>19. CASE CallLost
  <2>1. UNCHANGED opt
    BY <1>19 DEF CallLost, given
  <2>2. \/ pc' = "exited" /\ runCleanup
        \/ pc' = "run" /\ UNCHANGED tmp
    BY <1>19 DEF CallLost, Ends, Exit, Goto
  <2>. QED BY <2>1, <2>2, LaterStage, CleanedUp
<1>20. CASE Other
  <2>1. UNCHANGED opt
    BY <1>20 DEF Other, given
  <2>2. \/ pc' = "exited" /\ runCleanup
        \/ pc' = "run" /\ UNCHANGED tmp
    BY <1>20 DEF Other, Ends, Exit, Goto
  <2>. QED BY <2>1, <2>2, LaterStage, CleanedUp
<1>21. CASE Stopped
  BY <1>21 DEF Stopped, vars, given, TempInv
<1>. QED BY <1>1, <1>2, <1>3, <1>4, <1>5, <1>6, <1>7, <1>8, <1>9, <1>10, <1>11, <1>12, <1>13, <1>14, <1>15, <1>16, <1>17, <1>18, <1>19, <1>20, <1>21, <1>22 DEF Next

\* When the driver exits, whatever the compiler found and whichever step failed,
\* no temporary file of -run is there: runCleanup runs on every path that can
\* have written one (main.go).  The interpreter's exit on a full frame stack is
\* none of the driver's (stage overflow) and leaves them.
THEOREM NoFileLeft == Spec => []TempFilesRemoved
<1>1. TempInv => TempFilesRemoved
  BY DEF TempInv, TempFilesRemoved
<1>. QED BY <1>1, TempInvInit, TempInvNext, PTL DEF Spec

-----------------------------------------------------------------------------
(* Sequences and the sets of their elements.                                *)

\* What a worklist gets from a set: each element, in some order.
Chosen(s) == CHOOSE x \in s : TRUE

\* The equation of the fold Listed stands for, for the sets of at most n elements.
ListsUpTo(S, h, n) ==
  \A s \in SUBSET S : Cardinality(s) <= n =>
    h[s] = IF s = {} THEN <<>> ELSE Append(h[s \ {Chosen(s)}], Chosen(s))

\* Without the chosen element a set is smaller.
LEMMA ChosenRemoved ==
  ASSUME NEW S, IsFiniteSet(S), NEW s \in SUBSET S
  PROVE  /\ IsFiniteSet(s) /\ Cardinality(s) \in Nat
         /\ Cardinality(s) <= Cardinality(S) /\ Cardinality(S) \in Nat
         /\ Cardinality(s) = 0 <=> s = {}
         /\ s # {} => /\ Chosen(s) \in s
                      /\ Cardinality(s \ {Chosen(s)}) = Cardinality(s) - 1
                      /\ Cardinality(s \ {Chosen(s)}) \in Nat
<1>1. /\ IsFiniteSet(s) /\ Cardinality(s) \in Nat
      /\ Cardinality(s) <= Cardinality(S) /\ Cardinality(S) \in Nat
  BY FS_Subset, FS_CardinalityType
<1>2. Cardinality(s) = 0 <=> s = {}
  BY <1>1, FS_EmptySet
<1>3. ASSUME s # {}
      PROVE  Chosen(s) \in s
  BY <1>3 DEF Chosen
<1>4. ASSUME s # {}
      PROVE  /\ Cardinality(s \ {Chosen(s)}) = Cardinality(s) - 1
             /\ Cardinality(s \ {Chosen(s)}) \in Nat
  <2>1. Chosen(s) \in s
    BY <1>3, <1>4
  <2>2. IsFiniteSet(s \ {Chosen(s)}) /\ Cardinality(s \ {Chosen(s)}) = Cardinality(s) - 1
    BY <1>1, <2>1, FS_RemoveElement
  <2>. QED BY <2>2, FS_CardinalityType
<1>. QED BY <1>1, <1>2, <1>3, <1>4

LEMMA ListsExist ==
  ASSUME NEW S, IsFiniteSet(S), NEW n \in Nat
  PROVE  \E h \in [SUBSET S -> Seq(S)] : ListsUpTo(S, h, n)
<1>. DEFINE Good == {k \in Nat : \E h \in [SUBSET S -> Seq(S)] : ListsUpTo(S, h, k)}
<1>0. \A s \in SUBSET S : /\ IsFiniteSet(s) /\ Cardinality(s) \in Nat
                          /\ Cardinality(s) = 0 <=> s = {}
                          /\ s # {} => /\ Chosen(s) \in s
                                       /\ Cardinality(s \ {Chosen(s)}) = Cardinality(s) - 1
                                       /\ Cardinality(s \ {Chosen(s)}) \in Nat
  BY ChosenRemoved
<1>1. 0 \in Good
  <2>. DEFINE h == [s \in SUBSET S |-> <<>>]
  <2>1. h \in [SUBSET S -> Seq(S)]
    <3>1. <<>> \in Seq(S)
      OBVIOUS
    <3>. QED BY <3>1
  <2>2. ListsUpTo(S, h, 0)
    <3>1. \A s \in SUBSET S : Cardinality(s) <= 0 => s = {}
      <4>. SUFFICES ASSUME NEW s \in SUBSET S, Cardinality(s) <= 0 PROVE s = {}
        OBVIOUS
      <4>1. Cardinality(s) \in Nat /\ (Cardinality(s) = 0 <=> s = {})
        BY <1>0
      <4>. QED BY <4>1
    <3>2. \A s \in SUBSET S : h[s] = <<>>
      OBVIOUS
    <3>. HIDE DEF h
    <3>. QED BY <3>1, <3>2 DEF ListsUpTo
  <2>. HIDE DEF h
  <2>. QED BY <2>1, <2>2
<1>2. ASSUME NEW k \in Good PROVE k + 1 \in Good
  <2>0. k \in Nat
    OBVIOUS
  <2>1. PICK h \in [SUBSET S -> Seq(S)] : ListsUpTo(S, h, k)
    OBVIOUS
  <2>. DEFINE g == [s \in SUBSET S |-> IF Cardinality(s) = k + 1 THEN Append(h[s \ {Chosen(s)}], Chosen(s)) ELSE h[s]]
  <2>2. g \in [SUBSET S -> Seq(S)]
    <3>. SUFFICES ASSUME NEW s \in SUBSET S, Cardinality(s) = k + 1
                  PROVE  Append(h[s \ {Chosen(s)}], Chosen(s)) \in Seq(S)
      OBVIOUS
    <3>1. s # {}
      <4>1. Cardinality(s) \in Nat /\ (Cardinality(s) = 0 <=> s = {})
        BY <1>0
      <4>. QED BY <2>0, <4>1
    <3>2. Chosen(s) \in S /\ s \ {Chosen(s)} \in SUBSET S
      BY <1>0, <3>1
    <3>. QED BY <3>2
  <2>3. ListsUpTo(S, g, k + 1)
    <3>. SUFFICES ASSUME NEW s \in SUBSET S, Cardinality(s) <= k + 1
                  PROVE  g[s] = IF s = {} THEN <<>> ELSE Append(g[s \ {Chosen(s)}], Chosen(s))
      BY DEF ListsUpTo
    <3>1. CASE s = {}
      <4>1. Cardinality(s) = 0
        BY <1>0, <3>1
      <4>2. g[s] = h[s]
        BY <4>1, <2>0
      <4>3. h[s] = <<>>
        BY <2>0, <2>1, <3>1, <4>1 DEF ListsUpTo
      <4>. QED BY <3>1, <4>2, <4>3
    <3>2. CASE s # {}
      <4>1. /\ s \ {Chosen(s)} \in SUBSET S /\ Cardinality(s) \in Nat
            /\ Cardinality(s \ {Chosen(s)}) = Cardinality(s) - 1
        BY <1>0, <3>2
      <4>2. g[s \ {Chosen(s)}] = h[s \ {Chosen(s)}]
        BY <4>1, <2>0
      <4>3. Cardinality(s) # k + 1 => h[s] = Append(h[s \ {Chosen(s)}], Chosen(s))
        <5>1. Cardinality(s) # k + 1 => Cardinality(s) <= k
          BY <2>0, <4>1
        <5>. QED BY <2>1, <3>2, <5>1 DEF ListsUpTo
      <4>. QED BY <3>2, <4>2, <4>3
    <3>. QED BY <3>1, <3>2
  <2>. HIDE DEF g
  <2>4. k + 1 \in Nat
    BY <2>0
  <2>. QED BY <2>2, <2>3, <2>4
<1>3. Good = Nat
  <2>. HIDE DEF Good
  <2>1. Good \in SUBSET Nat
    BY DEF Good
  <2>. QED BY <1>1, <1>2, <2>1, NatSetInduction
<1>. QED BY <1>3

LEMMA AppendSet ==
  ASSUME NEW S, NEW s \in Seq(S), NEW x \in S
  PROVE  Append(s, x) \in Seq(S) /\ ToSet(Append(s, x)) = ToSet(s) \cup {x}
<1>1. /\ Append(s, x) \in Seq(S) /\ Len(Append(s, x)) = Len(s) + 1 /\ Len(s) \in Nat
      /\ DOMAIN s = 1..Len(s) /\ DOMAIN Append(s, x) = 1..Len(s)+1
      /\ \A i \in 1..Len(s) : Append(s, x)[i] = s[i]
      /\ Append(s, x)[Len(s)+1] = x
  OBVIOUS
<1>2. ASSUME NEW e \in ToSet(Append(s, x)) PROVE e \in ToSet(s) \cup {x}
  <2>1. PICK i \in 1..Len(s)+1 : e = Append(s, x)[i]
    BY <1>1 DEF ToSet
  <2>. QED BY <1>1, <2>1 DEF ToSet
<1>3. ASSUME NEW e \in ToSet(s) \cup {x} PROVE e \in ToSet(Append(s, x))
  <2>1. CASE e = x
    <3>1. Len(s) + 1 \in DOMAIN Append(s, x)
      BY <1>1
    <3>. QED BY <1>1, <2>1, <3>1 DEF ToSet
  <2>2. CASE e \in ToSet(s)
    <3>1. PICK i \in 1..Len(s) : e = s[i]
      BY <1>1, <2>2 DEF ToSet
    <3>2. i \in DOMAIN Append(s, x) /\ Append(s, x)[i] = e
      BY <1>1, <3>1
    <3>. QED BY <3>2 DEF ToSet
  <2>. QED BY <1>3, <2>1, <2>2
<1>. QED BY <1>1, <1>2, <1>3

\* A worklist filled from a finite set is a sequence of just its elements.
LEMMA ListedAll ==
  ASSUME NEW S, IsFiniteSet(S)
  PROVE  Listed(S) \in Seq(S) /\ ToSet(Listed(S)) = S
<1>. DEFINE Rec(g) == g = [s \in SUBSET S |-> IF s = {} THEN <<>> ELSE Append(g[s \ {CHOOSE x \in s : TRUE}], CHOOSE x \in s : TRUE)]
            iter == CHOOSE g : Rec(g)
<1>1. Listed(S) = iter[S]
  BY DEF Listed, FoldSet, MapThenFoldSet
<1>2. PICK h \in [SUBSET S -> Seq(S)] : ListsUpTo(S, h, Cardinality(S))
  <2>1. Cardinality(S) \in Nat
    BY FS_CardinalityType
  <2>. QED BY <2>1, ListsExist
<1>3. Rec(h)
  <2>1. \A s \in SUBSET S : h[s] = IF s = {} THEN <<>> ELSE Append(h[s \ {Chosen(s)}], Chosen(s))
    BY <1>2, ChosenRemoved DEF ListsUpTo
  <2>. QED BY <2>1 DEF Chosen
<1>4. Rec(iter)
  BY <1>3
<1>. HIDE DEF iter
<1>5. \A s \in SUBSET S : iter[s] = IF s = {} THEN <<>> ELSE Append(iter[s \ {Chosen(s)}], Chosen(s))
  BY <1>4 DEF Chosen
<1>. HIDE DEF Rec
<1>. DEFINE Lists(s) == iter[s] \in Seq(S) /\ ToSet(iter[s]) = s
            Good == {k \in Nat : \A s \in SUBSET S : Cardinality(s) = k => Lists(s)}
<1>6. 0 \in Good
  <2>. SUFFICES ASSUME NEW s \in SUBSET S, Cardinality(s) = 0 PROVE Lists(s)
    OBVIOUS
  <2>1. s = {}
    BY ChosenRemoved
  <2>2. iter[s] = <<>>
    BY <1>5, <2>1
  <2>3. <<>> \in Seq(S) /\ ToSet(<<>>) = {}
    BY DEF ToSet
  <2>. QED BY <2>1, <2>2, <2>3
<1>7. ASSUME NEW k \in Good PROVE k + 1 \in Good
  <2>0. k \in Nat
    OBVIOUS
  <2>. SUFFICES ASSUME NEW s \in SUBSET S, Cardinality(s) = k + 1 PROVE Lists(s)
    BY <2>0
  <2>1. s # {} /\ Chosen(s) \in s /\ Cardinality(s \ {Chosen(s)}) = k
    <3>1. Cardinality(s) \in Nat /\ (Cardinality(s) = 0 <=> s = {})
      BY ChosenRemoved
    <3>2. s # {}
      BY <2>0, <3>1
    <3>3. Chosen(s) \in s /\ Cardinality(s \ {Chosen(s)}) = Cardinality(s) - 1
      BY <3>2, ChosenRemoved
    <3>. QED BY <2>0, <3>2, <3>3
  <2>2. s \ {Chosen(s)} \in SUBSET S
    OBVIOUS
  <2>3. Lists(s \ {Chosen(s)})
    BY <2>1, <2>2
  <2>4. PICK rest \in Seq(S) : rest = iter[s \ {Chosen(s)}]
    BY <2>3
  <2>5. PICK c \in S : c = Chosen(s) /\ c \in s
    BY <2>1
  <2>6. iter[s] = Append(rest, c) /\ ToSet(rest) = s \ {c}
    BY <1>5, <2>1, <2>3, <2>4, <2>5
  <2>7. Append(rest, c) \in Seq(S) /\ ToSet(Append(rest, c)) = ToSet(rest) \cup {c}
    BY AppendSet
  <2>. QED BY <2>5, <2>6, <2>7
<1>8. Good = Nat
  <2>. HIDE DEF Good
  <2>1. Good \in SUBSET Nat
    BY DEF Good
  <2>. QED BY <1>6, <1>7, <2>1, NatSetInduction
<1>9. Cardinality(S) \in Good
  BY <1>8, FS_CardinalityType
<1>. QED BY <1>1, <1>9

\* What Kept computes at each place.
KeepsByPlace(s, I, u) ==
  /\ u[0] = <<>> /\ Kept(s, I) = u[Len(s)]
  /\ \A n \in 1..Len(s) : u[n] = IF n \in I THEN Append(u[n-1], s[n]) ELSE u[n-1]

LEMMA KeptByPlace ==
  ASSUME NEW E, NEW s \in Seq(E), NEW I
  PROVE  \E u \in [0..Len(s) -> Seq(E)] : KeepsByPlace(s, I, u)
<1>. DEFINE Rec(g) == g = [n \in 0..Len(s) |-> IF n = 0 THEN <<>> ELSE IF n \in I THEN Append(g[n-1], s[n]) ELSE g[n-1]]
            upTo == CHOOSE g : Rec(g)
            step == [n \in 1..Len(s) |-> [t \in Seq(E) |-> IF n \in I THEN Append(t, s[n]) ELSE t]]
<1>0. Len(s) \in Nat /\ <<>> \in Seq(E) /\ \A n \in 1..Len(s) : s[n] \in E
  OBVIOUS
<1>1. step \in [1..Len(s) -> [Seq(E) -> Seq(E)]]
  BY <1>0
<1>2. PICK g \in [0..Len(s) -> Seq(E)] : g[0] = <<>> /\ \A n \in 1..Len(s) : g[n] = step[n][g[n-1]]
  <2>. DEFINE X == Seq(E)
              a == <<>>
              last == Len(s)
  <2>1. last \in Nat /\ a \in X /\ step \in [1..last -> [X -> X]]
    BY <1>0, <1>1
  <2>. HIDE DEF step, X, a, last
  <2>2. \E g \in [0..last -> X] : IsRecursion(g, last, a, step)
    BY <2>1, IntervalRecursion
  <2>. QED BY <2>2 DEF X, a, last, IsRecursion
<1>3. \A n \in 1..Len(s) : g[n] = IF n \in I THEN Append(g[n-1], s[n]) ELSE g[n-1]
  <2>1. \A n \in 1..Len(s) : n - 1 \in 0..Len(s)
    BY <1>0
  <2>. QED BY <1>2, <2>1
<1>. HIDE DEF step
<1>4. Rec(g)
  <2>1. \A n \in 0..Len(s) : g[n] = IF n = 0 THEN <<>> ELSE IF n \in I THEN Append(g[n-1], s[n]) ELSE g[n-1]
    <3>1. \A n \in 0..Len(s) : n = 0 \/ (n \in 1..Len(s) /\ n # 0)
      BY <1>0
    <3>. QED BY <1>2, <1>3, <3>1
  <2>. QED BY <2>1
<1>5. Rec(upTo)
  BY <1>4
<1>6. Kept(s, I) = upTo[Len(s)]
  BY DEF Kept
<1>. HIDE DEF upTo
<1>. DEFINE Same == {n \in 0..Len(s) : upTo[n] = g[n]}
<1>7. 0 \in Same
  BY <1>0, <1>2, <1>5
<1>8. ASSUME NEW n \in 0..Len(s)-1, n \in Same PROVE n + 1 \in Same
  <2>1. n + 1 \in 1..Len(s) /\ n + 1 \in 0..Len(s) /\ n + 1 # 0 /\ (n + 1) - 1 = n
    BY <1>0
  <2>2. upTo[n+1] = IF n + 1 \in I THEN Append(upTo[n], s[n+1]) ELSE upTo[n]
    BY <1>5, <2>1
  <2>. QED BY <1>3, <1>8, <2>1, <2>2
<1>9. Len(s) \in Same
  <2>. HIDE DEF Same
  <2>1. \A n \in 0..Len(s) : n \in Same
    BY <1>0, <1>7, <1>8, IntervalSetInduction
  <2>. QED BY <1>0, <2>1
<1>10. KeepsByPlace(s, I, g)
  BY <1>2, <1>3, <1>6, <1>9 DEF KeepsByPlace
<1>. QED BY <1>10

\* The elements of t are those of s at the places up to n in I, in their order,
\* and e says from where each comes.
Embeds(s, I, t, e, n) ==
  /\ \A x \in 1..Len(t) : e[x] \in 1..n /\ e[x] \in I /\ t[x] = s[e[x]]
  /\ \A x, y \in 1..Len(t) : x < y => e[x] < e[y]
  /\ \A i \in 1..n : i \in I => \E x \in 1..Len(t) : e[x] = i

LEMMA KeptInOrder ==
  ASSUME NEW E, NEW s \in Seq(E), NEW I
  PROVE  /\ Kept(s, I) \in Seq(E)
         /\ \E e \in [1..Len(Kept(s, I)) -> Nat] : Embeds(s, I, Kept(s, I), e, Len(s))
<1>0. Len(s) \in Nat
  OBVIOUS
<1>1. PICK u \in [0..Len(s) -> Seq(E)] : KeepsByPlace(s, I, u)
  BY KeptByPlace
<1>. DEFINE Holds(n) == \E e \in [1..Len(u[n]) -> Nat] : Embeds(s, I, u[n], e, n)
            Done == {n \in 0..Len(s) : Holds(n)}
<1>2. 0 \in Done
  <2>. DEFINE e == [x \in 1..0 |-> 0]
  <2>1. e \in [1..0 -> Nat] /\ Len(u[0]) = 0
    BY <1>1 DEF KeepsByPlace
  <2>2. Embeds(s, I, u[0], e, 0)
    BY <2>1 DEF Embeds
  <2>. HIDE DEF e
  <2>. QED BY <1>0, <2>1, <2>2
<1>3. ASSUME NEW n \in 0..Len(s)-1, n \in Done PROVE n + 1 \in Done
  <2>1. n \in Nat /\ n + 1 \in 1..Len(s) /\ n + 1 \in 0..Len(s) /\ n \in 0..Len(s) /\ (n + 1) - 1 = n
    BY <1>0
  <2>2. u[n+1] = IF n + 1 \in I THEN Append(u[n], s[n+1]) ELSE u[n]
    BY <1>1, <2>1 DEF KeepsByPlace
  <2>3. PICK t \in Seq(E) : t = u[n]
    BY <2>1
  <2>4. PICK e \in [1..Len(t) -> Nat] : Embeds(s, I, t, e, n)
    BY <1>3, <2>3
  <2>5. Len(t) \in Nat
    OBVIOUS
  <2>6. CASE n + 1 \notin I
    <3>1. Embeds(s, I, t, e, n + 1)
      BY <2>1, <2>4, <2>6 DEF Embeds
    <3>. QED BY <2>1, <2>2, <2>3, <2>6, <3>1
  <2>7. CASE n + 1 \in I
    <3>. DEFINE r == Append(t, s[n+1])
                h == [x \in 1..Len(t)+1 |-> IF x = Len(t) + 1 THEN n + 1 ELSE e[x]]
    <3>1. /\ Len(r) = Len(t) + 1 /\ r[Len(t)+1] = s[n+1]
          /\ \A x \in 1..Len(t) : r[x] = t[x]
      BY <2>1
    <3>2. /\ h \in [1..Len(t)+1 -> Nat] /\ h[Len(t)+1] = n + 1
          /\ \A x \in 1..Len(t) : h[x] = e[x]
      BY <2>1, <2>5
    <3>3. \A x \in 1..Len(t)+1 : x = Len(t) + 1 \/ x \in 1..Len(t)
      BY <2>5
    <3>. HIDE DEF r, h
    <3>4. \A x \in 1..Len(t)+1 : h[x] \in 1..n+1 /\ h[x] \in I /\ r[x] = s[h[x]]
      BY <2>1, <2>4, <2>7, <3>1, <3>2, <3>3 DEF Embeds
    <3>5. \A x \in 1..Len(t) : h[x] \in 1..n
      BY <2>4, <3>2 DEF Embeds
    <3>6. ASSUME NEW x \in 1..Len(t)+1, NEW y \in 1..Len(t)+1, x < y PROVE h[x] < h[y]
      <4>1. x \in 1..Len(t)
        BY <2>5, <3>6
      <4>2. CASE y = Len(t) + 1
        BY <2>1, <3>2, <3>5, <4>1, <4>2
      <4>3. CASE y \in 1..Len(t)
        BY <2>4, <3>2, <3>6, <4>1, <4>3 DEF Embeds
      <4>. QED BY <3>3, <4>2, <4>3
    <3>7. ASSUME NEW i \in 1..n+1, i \in I PROVE \E x \in 1..Len(t)+1 : h[x] = i
      <4>1. CASE i = n + 1
        <5>1. Len(t) + 1 \in 1..Len(t)+1
          BY <2>5
        <5>. QED BY <3>2, <4>1, <5>1
      <4>2. CASE i \in 1..n
        <5>1. PICK x \in 1..Len(t) : e[x] = i
          BY <2>4, <3>7, <4>2 DEF Embeds
        <5>2. x \in 1..Len(t)+1
          BY <2>5
        <5>. QED BY <3>2, <5>1, <5>2
      <4>. QED BY <2>1, <4>1, <4>2
    <3>8. Embeds(s, I, r, h, n + 1)
      BY <3>1, <3>4, <3>6, <3>7 DEF Embeds
    <3>9. u[n+1] = r
      BY <2>2, <2>3, <2>7 DEF r
    <3>. QED BY <2>1, <3>1, <3>2, <3>8, <3>9
  <2>. QED BY <2>6, <2>7
<1>4. Len(s) \in Done
  <2>. HIDE DEF Done
  <2>1. \A n \in 0..Len(s) : n \in Done
    BY <1>0, <1>2, <1>3, IntervalSetInduction
  <2>. QED BY <1>0, <2>1
<1>5. Kept(s, I) = u[Len(s)] /\ Kept(s, I) \in Seq(E)
  BY <1>0, <1>1 DEF KeepsByPlace
<1>. QED BY <1>4, <1>5

\* The elements kept up to n.
KeptUpTo(s, I, n) == {s[i] : i \in 1..n \cap I}

LEMMA KeptElements ==
  ASSUME NEW E, NEW s \in Seq(E), NEW I
  PROVE  Kept(s, I) \in Seq(E) /\ ToSet(Kept(s, I)) = KeptUpTo(s, I, Len(s))
<1>1. PICK t \in Seq(E) : t = Kept(s, I)
  BY KeptInOrder
<1>2. PICK e \in [1..Len(t) -> Nat] : Embeds(s, I, t, e, Len(s))
  BY <1>1, KeptInOrder
<1>3. ToSet(t) = {t[x] : x \in 1..Len(t)}
  BY DEF ToSet
<1>4. ASSUME NEW x \in 1..Len(t) PROVE t[x] \in KeptUpTo(s, I, Len(s))
  BY <1>2 DEF Embeds, KeptUpTo
<1>5. ASSUME NEW i \in 1..Len(s), i \in I PROVE \E x \in 1..Len(t) : t[x] = s[i]
  BY <1>2, <1>5 DEF Embeds
<1>6. KeptUpTo(s, I, Len(s)) \subseteq {t[x] : x \in 1..Len(t)}
  BY <1>5 DEF KeptUpTo
<1>. QED BY <1>1, <1>3, <1>4, <1>6

LEMMA ConcatSet ==
  ASSUME NEW E, NEW s \in Seq(E), NEW t \in Seq(E)
  PROVE  s \o t \in Seq(E) /\ ToSet(s \o t) = ToSet(s) \cup ToSet(t)
<1>1. /\ s \o t \in Seq(E) /\ Len(s) \in Nat /\ Len(t) \in Nat
      /\ DOMAIN s = 1..Len(s) /\ DOMAIN t = 1..Len(t) /\ DOMAIN (s \o t) = 1..Len(s)+Len(t)
      /\ \A i \in 1..Len(s) : (s \o t)[i] = s[i]
      /\ \A i \in 1..Len(t) : (s \o t)[Len(s)+i] = t[i]
  OBVIOUS
<1>2. ASSUME NEW e \in ToSet(s \o t) PROVE e \in ToSet(s) \cup ToSet(t)
  <2>1. PICK i \in 1..Len(s)+Len(t) : e = (s \o t)[i]
    BY <1>1 DEF ToSet
  <2>2. CASE i <= Len(s)
    <3>1. i \in DOMAIN s /\ e = s[i]
      BY <1>1, <2>1, <2>2
    <3>. QED BY <3>1 DEF ToSet
  <2>3. CASE i > Len(s)
    <3>1. PICK j \in 1..Len(t) : i = Len(s) + j
      <4>1. i - Len(s) \in 1..Len(t) /\ i = Len(s) + (i - Len(s))
        BY <1>1, <2>3
      <4>. QED BY <4>1
    <3>2. j \in DOMAIN t /\ e = t[j]
      BY <1>1, <2>1, <3>1
    <3>. QED BY <3>2 DEF ToSet
  <2>. QED BY <1>1, <2>2, <2>3
<1>3. ASSUME NEW e \in ToSet(s) PROVE e \in ToSet(s \o t)
  <2>1. PICK i \in 1..Len(s) : e = s[i]
    BY <1>1, <1>3 DEF ToSet
  <2>2. i \in DOMAIN (s \o t) /\ e = (s \o t)[i]
    BY <1>1, <2>1
  <2>. QED BY <2>2 DEF ToSet
<1>4. ASSUME NEW e \in ToSet(t) PROVE e \in ToSet(s \o t)
  <2>1. PICK j \in 1..Len(t) : e = t[j]
    BY <1>1, <1>4 DEF ToSet
  <2>2. PICK i \in DOMAIN (s \o t) : i = Len(s) + j
    <3>1. Len(s) + j \in DOMAIN (s \o t)
      BY <1>1
    <3>. QED BY <3>1
  <2>3. e = (s \o t)[i]
    BY <1>1, <2>1, <2>2
  <2>. QED BY <2>3 DEF ToSet
<1>. QED BY <1>1, <1>2, <1>3, <1>4

LEMMA FrontAndLast ==
  ASSUME NEW E, NEW s \in Seq(E), s # <<>>
  PROVE  /\ Front(s) \in Seq(E) /\ Last(s) \in E
         /\ ToSet(s) \subseteq ToSet(Front(s)) \cup {Last(s)}
<1>1. /\ Len(s) \in Nat /\ Len(s) # 0 /\ DOMAIN s = 1..Len(s)
      /\ Front(s) \in Seq(E) /\ DOMAIN Front(s) = 1..Len(s)-1
      /\ \A i \in 1..Len(s)-1 : Front(s)[i] = s[i]
  BY DEF Front
<1>2. Last(s) = s[Len(s)] /\ Len(s) \in DOMAIN s
  BY <1>1 DEF Last
<1>3. ASSUME NEW e \in ToSet(s) PROVE e \in ToSet(Front(s)) \cup {Last(s)}
  <2>1. PICK i \in 1..Len(s) : e = s[i]
    BY <1>1, <1>3 DEF ToSet
  <2>2. CASE i = Len(s)
    BY <1>2, <2>1, <2>2
  <2>3. CASE i # Len(s)
    <3>1. i \in 1..Len(s)-1
      <4>1. Len(s) \in Nat
        BY <1>1
      <4>. QED BY <2>3, <4>1
    <3>2. i \in DOMAIN Front(s) /\ e = Front(s)[i]
      BY <1>1, <2>1, <3>1
    <3>. QED BY <3>2 DEF ToSet
  <2>. QED BY <2>2, <2>3
<1>. QED BY <1>1, <1>2, <1>3

\* What a sequence holds, and what is made of each of its elements, is finite.
LEMMA ImageFinite ==
  ASSUME NEW n \in Nat, NEW f, DOMAIN f = 1..n
  PROVE  IsFiniteSet({f[i] : i \in 1..n})
<1>. DEFINE T == {f[i] : i \in 1..n}
            g == [i \in 1..n |-> f[i]]
<1>1. g \in Surjection(1..n, T)
  BY DEF Surjection
<1>2. IsFiniteSet(1..n)
  BY FS_Interval
<1>. HIDE DEF g, T
<1>3. IsFiniteSet(T)
  BY <1>1, <1>2, FS_Surjection
<1>. QED BY <1>3 DEF T

LEMMA SequenceDomain ==
  ASSUME NEW s, IsSequence(s)
  PROVE  /\ Len(s) \in Nat /\ DOMAIN s = 1..Len(s)
         /\ \E E : s \in Seq(E)
BY DEF IsSequence

LEMMA NamesFinite ==
  ASSUME NEW s, IsSequence(s)
  PROVE  IsFiniteSet({s[i].name : i \in DOMAIN s})
<1>. DEFINE f == [i \in 1..Len(s) |-> s[i].name]
<1>1. Len(s) \in Nat /\ DOMAIN s = 1..Len(s)
  BY SequenceDomain
<1>2. DOMAIN f = 1..Len(s) /\ {s[i].name : i \in DOMAIN s} = {f[i] : i \in 1..Len(s)}
  BY <1>1
<1>. HIDE DEF f
<1>. QED BY <1>1, <1>2, ImageFinite

LEMMA EdgesFinite == ASSUME NEW inst PROVE IsFiniteSet(Edges(inst))
<1>1. \A n : IsFiniteSet(intrinsicRuntimeDep(n))
  BY FS_EmptySet, FS_Singleton DEF intrinsicRuntimeDep
<1>2. IsFiniteSet({}) /\ \A x : IsFiniteSet({x})
  BY FS_EmptySet, FS_Singleton
<1>. QED BY <1>1, <1>2 DEF Edges

\* In code of one function for each name, the name finds it.
LEMMA NamedFinds ==
  ASSUME NamesKnown, NEW i \in DOMAIN ir.funcs
  PROVE  Named(ir.funcs[i].name) = i
<1>1. i \in Int
  BY SequenceDomain DEF NamesKnown
<1>2. {j \in DOMAIN ir.funcs : ir.funcs[j].name = ir.funcs[i].name} = {i}
  BY DEF NamesKnown, NamesUnique
<1>3. Max({i}) = i
  <2>1. \E x \in {i} : \A y \in {i} : x >= y
    BY <1>1
  <2>. QED BY <2>1 DEF Max
<1>. QED BY <1>2, <1>3 DEF Named

LEMMA CalleesFinite ==
  ASSUME NamesKnown, NEW name
  PROVE  IsFiniteSet(Callees(name))
<1>1. CASE name \notin Names
  BY <1>1, FS_EmptySet DEF Callees
<1>2. CASE name \in Names
  <2>1. PICK k \in DOMAIN ir.funcs : ir.funcs[k].name = name /\ Named(name) = k
    BY <1>2, NamedFinds DEF Names
  <2>2. PICK c : c = ir.funcs[k].code /\ IsSequence(c)
    BY DEF NamesKnown
  <2>3. Len(c) \in Nat /\ DOMAIN c = 1..Len(c)
    BY <2>2, SequenceDomain
  <2>. DEFINE f == [i \in 1..Len(c) |-> Edges(c[i])]
              T == {f[i] : i \in 1..Len(c)}
  <2>4. IsFiniteSet(T)
    <3>1. DOMAIN f = 1..Len(c)
      OBVIOUS
    <3>. HIDE DEF f
    <3>. QED BY <2>3, <3>1, ImageFinite
  <2>5. \A e \in T : IsFiniteSet(e)
    BY EdgesFinite
  <2>6. IsFiniteSet(UNION T)
    <3>. HIDE DEF T
    <3>. QED BY <2>4, <2>5, FS_UNION
  <2>7. {Edges(inst) : inst \in ToSet(c)} = T
    BY <2>3 DEF ToSet
  <2>8. Callees(name) = UNION T
    <3>. HIDE DEF T
    <3>. QED BY <1>2, <2>1, <2>2, <2>7 DEF Callees
  <2>. QED BY <2>6, <2>8
<1>. QED BY <1>1, <1>2

-----------------------------------------------------------------------------
(* Dead code.                                                              *)

\* What the code generators may link to, and dispatch may reach, whether or not
\* a call names it.
Live == {<<"main", "main">>} \cup Methods

Frames == [f : DOMAIN ir.funcs, at : Nat \ {0}]

\* While functions are marked: every function marked is on the worklist, or
\* what it needs is marked.
MarkInv ==
  /\ gone = {} /\ lost = {}
  /\ "funcs" \in DOMAIN ir
  /\ Names \cap Live \subseteq reach
  /\ work \in Seq(reach)
  /\ \A n \in reach : n \in ToSet(work) \/ Callees(n) \subseteq reach

\* Afterwards no code that is left needs a name that was not marked.
LinkInv ==
  /\ gone \cap (reach \cup Live) = {}
  /\ \A inst \in Instructions : Edges(inst) \subseteq reach
  /\ queue \in Seq(DOMAIN ir.funcs)
  /\ stack \in Seq(Frames)

DeadInv ==
  /\ pc \notin {"mark", "generate", "run", "exited", "overflow"} => gone = {} /\ lost = {}
  /\ pc \notin {"run", "exited", "overflow"} => queue = <<>> /\ stack = <<>>
  /\ pc = "mark" => MarkInv
  /\ pc \in {"generate", "run"} => LinkInv
  /\ lost \cap gone = {}

LEMMA DeadInvInit == Init => DeadInv
BY DEF Init, DeadInv

LEMMA SameMethods ==
  ASSUME UNCHANGED <<pkgs, order>>
  PROVE  Live' = Live
BY DEF Live, Methods, MethodTable, Found

\* The stages before functions are marked.
LEMMA EarlyStep ==
  ASSUME DeadInv, UNCHANGED <<gone, running>>,
         pc \notin {"mark", "generate", "run", "exited", "overflow"},
         pc' \notin {"mark", "generate", "run"}
  PROVE  DeadInv'
BY DEF DeadInv, running

LEMMA StopStep ==
  ASSUME DeadInv, UNCHANGED <<gone, lost>>, pc' \in {"exited", "overflow"}
  PROVE  DeadInv'
BY DEF DeadInv

LEMMA CompileStep ==
  ASSUME DeadInv, Compile, NamesKnown'
  PROVE  DeadInv'
<1>1. pc = "compile" /\ gone = {} /\ lost = {} /\ queue = <<>> /\ stack = <<>>
  BY DEF Compile, DeadInv
<1>2. UNCHANGED <<pkgs, order, gone, queue, stack, lost>>
  BY DEF Compile, packed, running
<1>3. CASE CompileErrors # {}
  <2>1. pc' = "exited"
    BY <1>3 DEF Compile, Fail, Exit
  <2>. QED BY <1>2, <2>1, StopStep
<1>4. CASE CompileErrors = {}
  <2>1. ir' = CompileModule /\ reach' = Roots' /\ work' = Listed(reach') /\ pc' = "mark"
    BY <1>4 DEF Compile, Goto
  <2>2. "funcs" \in DOMAIN ir'
    BY <2>1 DEF CompileModule
  <2>3. IsFiniteSet(reach')
    <3>1. PICK s : s = ir'.funcs /\ IsSequence(s)
      BY DEF NamesKnown
    <3>2. IsFiniteSet({s[i].name : i \in DOMAIN s})
      BY <3>1, NamesFinite
    <3>3. Names' = {s[i].name : i \in DOMAIN s}
      BY <3>1 DEF Names
    <3>4. reach' \subseteq Names'
      BY <2>1 DEF Roots
    <3>. QED BY <3>2, <3>3, <3>4, FS_Subset
  <2>4. work' \in Seq(reach') /\ ToSet(work') = reach'
    BY <2>1, <2>3, ListedAll
  <2>5. (Names \cap Live)' \subseteq reach'
    BY <2>1 DEF Roots, Live
  <2>6. MarkInv'
    BY <1>1, <1>2, <2>2, <2>4, <2>5 DEF MarkInv
  <2>. QED BY <1>1, <1>2, <2>1, <2>6 DEF DeadInv
<1>. QED BY <1>3, <1>4

LEMMA MarkStep ==
  ASSUME DeadInv, Mark, NamesKnown
  PROVE  DeadInv'
<1>1. /\ pc = "mark" /\ pc' = "mark" /\ work # <<>>
      /\ UNCHANGED <<pkgs, order, ir, gone, queue, stack, lost>>
  BY DEF Mark, packed, running
<1>2. MarkInv /\ queue = <<>> /\ stack = <<>>
  BY <1>1 DEF DeadInv
<1>. DEFINE m == Last(work)
            new == Callees(m) \ reach
<1>3. reach' = reach \cup new /\ work' = Front(work) \o Listed(new)
  BY DEF Mark
<1>4. /\ Front(work) \in Seq(reach) /\ m \in reach
      /\ ToSet(work) \subseteq ToSet(Front(work)) \cup {m}
  BY <1>1, <1>2, FrontAndLast DEF MarkInv
<1>5. Listed(new) \in Seq(new) /\ ToSet(Listed(new)) = new
  <2>1. IsFiniteSet(new)
    BY CalleesFinite, FS_Difference
  <2>. QED BY <2>1, ListedAll
<1>6. work' \in Seq(reach') /\ ToSet(work') = ToSet(Front(work)) \cup new
  <2>1. Front(work) \in Seq(reach') /\ Listed(new) \in Seq(reach')
    <3>1. \A S, T : S \subseteq T => Seq(S) \subseteq Seq(T)
      OBVIOUS
    <3>2. reach \subseteq reach' /\ new \subseteq reach'
      BY <1>3
    <3>. HIDE DEF new, m
    <3>. QED BY <1>4, <1>5, <3>1, <3>2
  <2>. HIDE DEF new, m
  <2>. QED BY <1>3, <1>5, <2>1, ConcatSet
<1>7. \A n : Callees(n)' = Callees(n)
  BY <1>1 DEF Callees, Names, Named
<1>8. Live' = Live /\ Names' = Names
  BY <1>1, SameMethods DEF Names
<1>9. ASSUME NEW n \in reach' PROVE n \in ToSet(work') \/ Callees(n)' \subseteq reach'
  <2>1. Callees(m) \subseteq reach'
    BY <1>3
  <2>2. n \in new => n \in ToSet(work')
    BY <1>6
  <2>3. n \in reach => n \in ToSet(Front(work)) \/ n = m \/ Callees(n) \subseteq reach
    BY <1>2, <1>4 DEF MarkInv
  <2>. HIDE DEF new, m
  <2>. QED BY <1>3, <1>6, <1>7, <2>1, <2>2, <2>3
<1>. HIDE DEF new, m
<1>10. MarkInv'
  <2>1. (Names \cap Live)' \subseteq reach'
    BY <1>2, <1>3, <1>8 DEF MarkInv
  <2>2. gone' = {} /\ lost' = {} /\ "funcs" \in DOMAIN ir'
    BY <1>1, <1>2 DEF MarkInv
  <2>. QED BY <1>6, <1>9, <2>1, <2>2 DEF MarkInv
<1>. QED BY <1>1, <1>2, <1>10 DEF DeadInv, MarkInv


LEMMA SweepStep ==
  ASSUME DeadInv, Sweep, NamesKnown, NamesKnown'
  PROVE  DeadInv'
<1>1. /\ pc = "mark" /\ pc' = "generate" /\ work = <<>>
      /\ UNCHANGED <<pkgs, order, reach, queue, stack, lost>>
      /\ gone' = Names \ reach
  BY DEF Sweep, Goto, packed, running
<1>2. MarkInv /\ queue = <<>> /\ stack = <<>>
  BY <1>1 DEF DeadInv
<1>. DEFINE I == {i \in DOMAIN ir.funcs : ir.funcs[i].name \in reach}
<1>3. ir'.funcs = Kept(ir.funcs, I)
  <2>1. ir' = [ir EXCEPT !.funcs = Kept(ir.funcs, I)]
    BY DEF Sweep
  <2>. HIDE DEF I
  <2>. QED BY <1>2, <2>1 DEF MarkInv
<1>4. \A n \in reach : Callees(n) \subseteq reach
  <2>1. ToSet(work) = {}
    BY <1>1 DEF ToSet
  <2>. QED BY <1>2, <2>1 DEF MarkInv
<1>5. ASSUME NEW k \in DOMAIN ir'.funcs
      PROVE  \E i \in I : ir'.funcs[k] = ir.funcs[i]
  <2>1. PICK E : ir.funcs \in Seq(E)
    BY SequenceDomain DEF NamesKnown
  <2>2. ToSet(Kept(ir.funcs, I)) = KeptUpTo(ir.funcs, I, Len(ir.funcs))
    <3>. HIDE DEF I
    <3>. QED BY <2>1, KeptElements
  <2>3. ir'.funcs[k] \in ToSet(Kept(ir.funcs, I))
    <3>. HIDE DEF I
    <3>. QED BY <1>3 DEF ToSet
  <2>4. PICK i \in 1..Len(ir.funcs) \cap I : ir'.funcs[k] = ir.funcs[i]
    BY <2>2, <2>3 DEF KeptUpTo
  <2>. QED BY <2>4
<1>6. ASSUME NEW inst \in Instructions' PROVE Edges(inst) \subseteq reach
  <2>1. PICK k \in DOMAIN ir'.funcs : inst \in ToSet(ir'.funcs[k].code)
    BY DEF Instructions
  <2>2. PICK i \in I : ir'.funcs[k] = ir.funcs[i]
    BY <1>5
  <2>3. PICK n \in reach : n = ir.funcs[i].name
    OBVIOUS
  <2>4. i \in DOMAIN ir.funcs /\ n \in Names /\ Named(n) = i
    BY <2>3, NamedFinds DEF Names
  <2>5. Edges(inst) \subseteq Callees(n)
    BY <2>1, <2>2, <2>4 DEF Callees
  <2>. QED BY <1>4, <2>3, <2>5
<1>7. gone' \cap (reach' \cup Live') = {}
  BY <1>1, <1>2, SameMethods DEF MarkInv
<1>8. queue' \in Seq(DOMAIN ir'.funcs) /\ stack' \in Seq(Frames')
  <2>1. \A S : <<>> \in Seq(S)
    OBVIOUS
  <2>. QED BY <1>1, <1>2, <2>1
<1>9. LinkInv'
  BY <1>1, <1>6, <1>7, <1>8 DEF LinkInv
<1>10. lost' = {}
  BY <1>1, <1>2 DEF MarkInv
<1>. QED BY <1>1, <1>2, <1>9, <1>10 DEF DeadInv

\* What an instruction calls is what it keeps alive; an interface call alone
\* names a method.
LEMMA CalleeEdges ==
  ASSUME NEW inst
  PROVE  \A n \in ToSet(Callee(inst)) :
           IF inst[1] = "IFACE_CALL" THEN n = Tail(inst) ELSE n \in Edges(inst)
<1>1. \A x : ToSet(<<x>>) = {x}
  BY DEF ToSet
<1>2. ToSet(<<>>) = {}
  BY DEF ToSet
<1>. HIDE DEF ToSet
<1>3. CASE inst[1] = "CALL"
  <2>1. Callee(inst) = <<inst[2]>> /\ Edges(inst) = {inst[2]}
    BY <1>3 DEF Callee, Edges
  <2>. QED BY <1>1, <1>3, <2>1
<1>4. CASE inst = <<"CALL_INTRINSIC", "Tostring">>
  <2>1. inst[1] = "CALL_INTRINSIC" /\ inst[2] = "Tostring"
    BY <1>4
  <2>2. Callee(inst) = << <<"runtime", "IntToString">> >> /\ Edges(inst) = {<<"runtime", "IntToString">>}
    BY <1>4, <2>1 DEF Callee, Edges, intrinsicRuntimeDep
  <2>. QED BY <1>1, <2>1, <2>2
<1>5. CASE inst = <<"CONVERT", "string">> \/ inst = <<"CONVERT", "[]byte">>
  <2>1. inst[1] = "CONVERT"
    BY <1>5
  <2>2. \E x : Callee(inst) = <<x>> /\ Edges(inst) = {x}
    BY <1>5, <2>1 DEF Callee, Edges
  <2>. QED BY <1>1, <2>1, <2>2
<1>6. CASE inst[1] = "IFACE_CALL"
  <2>1. Callee(inst) = <<Tail(inst)>>
    BY <1>6 DEF Callee
  <2>. QED BY <1>1, <1>6, <2>1
<1>7. CASE /\ inst[1] # "CALL" /\ inst[1] # "IFACE_CALL" /\ inst # <<"CALL_INTRINSIC", "Tostring">>
           /\ inst # <<"CONVERT", "string">> /\ inst # <<"CONVERT", "[]byte">>
  <2>1. Callee(inst) = <<>>
    BY <1>7 DEF Callee
  <2>. QED BY <1>2, <2>1
<1>. QED BY <1>3, <1>4, <1>5, <1>6, <1>7

LEMMA CalleeAlive ==
  ASSUME LinkInv, NamesKnown, NEW inst \in Instructions, NEW n \in ToSet(Callee(inst)), n \notin Names
  PROVE  n \notin gone
<1>1. CASE inst[1] = "IFACE_CALL"
  <2>1. n = Tail(inst)
    BY <1>1, CalleeEdges
  <2>2. n \in Methods \/ n \notin gone
    BY <1>1, <2>1 DEF NamesKnown
  <2>. QED BY <2>2 DEF LinkInv, Live
<1>2. CASE inst[1] # "IFACE_CALL"
  BY <1>2, CalleeEdges DEF LinkInv
<1>. QED BY <1>1, <1>2

LEMMA LinkedAlive ==
  ASSUME LinkInv, NEW generator
  PROVE  LinkedTo(generator) \subseteq reach \cup Live
<1>1. ASSUME NEW inst \in Instructions, inst[1] # "IFACE_CALL" PROVE ToSet(Callee(inst)) \subseteq reach
  BY <1>1, CalleeEdges DEF LinkInv
<1>2. ASSUME NEW inst \in Instructions, inst[1] = "CALL" PROVE inst[2] \in reach
  <2>1. inst[2] \in Edges(inst)
    BY <1>2 DEF Edges
  <2>. QED BY <2>1 DEF LinkInv
<1>3. Fixups \subseteq reach
  BY <1>1 DEF Fixups
<1>4. {inst[2] : inst \in {e \in Instructions : e[1] = "CALL"}} \subseteq reach
  BY <1>2
<1>5. CASE generator = "native"
  <2>1. LinkedTo(generator) = Fixups \cup {<<"main", "main">>}
    BY <1>5 DEF LinkedTo
  <2>2. <<"main", "main">> \in Live
    BY DEF Live
  <2>. QED BY <1>3, <2>1, <2>2
<1>6. CASE generator = "c"
  <2>1. LinkedTo(generator) = {inst[2] : inst \in {e \in Instructions : e[1] = "CALL"}}
    BY <1>6 DEF LinkedTo
  <2>. QED BY <1>4, <2>1
<1>7. CASE generator # "native" /\ generator # "c"
  BY <1>7 DEF LinkedTo
<1>. QED BY <1>5, <1>6, <1>7

LEMMA StartCodeTyped ==
  ASSUME NamesKnown
  PROVE  StartCode \in Seq(DOMAIN ir.funcs)
<1>. DEFINE D == DOMAIN ir.funcs
            all == [i \in D |-> i]
            I == {i \in D : isInitFunc(ir.funcs[i].name)}
            inits == Kept(all, I)
            called == IF GenerateELF = "vm" THEN inits ELSE [i \in DOMAIN inits |-> Named(ir.funcs[inits[i]].name)]
            last == IF HasMain THEN <<Named(<<"main", "main">>)>> ELSE <<>>
<1>1. Len(ir.funcs) \in Nat /\ D = 1..Len(ir.funcs)
  BY SequenceDomain DEF NamesKnown
<1>2. all \in Seq(D)
  BY <1>1
<1>3. inits \in Seq(D)
  <2>. HIDE DEF D, all, I
  <2>. QED BY <1>2, KeptElements
<1>4. \A i \in D : Named(ir.funcs[i].name) \in D
  BY NamedFinds
<1>5. called \in Seq(D)
  <2>. HIDE DEF D, inits
  <2>. QED BY <1>3, <1>4
<1>6. last \in Seq(D)
  <2>1. HasMain => Named(<<"main", "main">>) \in D
    BY <1>4 DEF HasMain, Names
  <2>. HIDE DEF D
  <2>. QED BY <2>1
<1>7. StartCode = called \o last
  BY DEF StartCode
<1>. HIDE DEF D, called, last
<1>8. StartCode \in Seq(D)
  BY <1>5, <1>6, <1>7, ConcatSet
<1>. QED BY <1>8 DEF D

LEMMA RunStep ==
  ASSUME DeadInv, pc \in {"generate", "run"}, pc' \in {"run", "exited", "overflow"},
         UNCHANGED <<packed, compiled>>,
         lost' \cap gone = {}, queue' \in Seq(DOMAIN ir.funcs), stack' \in Seq(Frames)
  PROVE  DeadInv'
<1>1. LinkInv /\ UNCHANGED <<pkgs, order, ir, reach, gone>>
  BY DEF DeadInv, packed, compiled
<1>2. Live' = Live /\ Instructions' = Instructions /\ Frames' = Frames
  BY <1>1, SameMethods DEF Instructions, Frames
<1>3. LinkInv'
  BY <1>1, <1>2 DEF LinkInv
<1>. QED BY <1>1, <1>3 DEF DeadInv

LEMMA GenerateStep ==
  ASSUME DeadInv, Generate, NamesKnown
  PROVE  DeadInv'
<1>1. /\ pc = "generate" /\ pc' \in {"run", "exited"} /\ lost' = Missing
      /\ UNCHANGED <<packed, compiled, stack>>
      /\ queue' = queue \/ queue' = StartCode
  BY DEF Generate, Goto, Fail, Exit
<1>2. LinkInv
  BY <1>1 DEF DeadInv
<1>3. lost' \cap gone = {}
  <2>1. Missing \subseteq reach \cup Live
    BY <1>2, LinkedAlive DEF Missing
  <2>. QED BY <1>1, <1>2, <2>1 DEF LinkInv
<1>4. queue' \in Seq(DOMAIN ir.funcs)
  BY <1>1, <1>2, StartCodeTyped DEF LinkInv
<1>5. stack' \in Seq(Frames)
  BY <1>1, <1>2 DEF LinkInv
<1>. QED BY <1>1, <1>3, <1>4, <1>5, RunStep

LEMMA BeginStep == ASSUME DeadInv, Begin PROVE DeadInv'
<1>1. /\ pc = "run" /\ UNCHANGED <<pc, lost, packed, compiled>> /\ queue # <<>>
      /\ stack' = << [f |-> Head(queue), at |-> 1] >> /\ queue' = Tail(queue)
  BY DEF Begin
<1>2. LinkInv /\ lost \cap gone = {}
  BY <1>1 DEF DeadInv
<1>3. queue' \in Seq(DOMAIN ir.funcs) /\ Head(queue) \in DOMAIN ir.funcs
  BY <1>1, <1>2 DEF LinkInv
<1>4. stack' \in Seq(Frames)
  <2>1. [f |-> Head(queue), at |-> 1] \in Frames
    BY <1>3 DEF Frames
  <2>. QED BY <1>1, <2>1
<1>. QED BY <1>1, <1>2, <1>3, <1>4, RunStep

LEMMA ReturnStep == ASSUME DeadInv, Return PROVE DeadInv'
<1>1. /\ pc = "run" /\ pc' \in {"run", "exited"} /\ UNCHANGED <<queue, lost, packed, compiled>>
      /\ stack # <<>> /\ stack' = Front(stack)
  BY DEF Return, Ends, Exit, Goto
<1>2. LinkInv /\ lost \cap gone = {}
  BY <1>1 DEF DeadInv
<1>3. stack' \in Seq(Frames)
  BY <1>1, <1>2, FrontAndLast DEF LinkInv
<1>4. queue' \in Seq(DOMAIN ir.funcs)
  BY <1>1, <1>2 DEF LinkInv
<1>. QED BY <1>1, <1>2, <1>3, <1>4, RunStep

LEMMA AdvancedTyped ==
  ASSUME LinkInv, stack # <<>>
  PROVE  Advanced \in Seq(Frames)
<1>1. stack \in Seq(Frames) /\ Len(stack) \in DOMAIN stack
  BY DEF LinkInv
<1>2. PICK f \in DOMAIN ir.funcs, k \in Nat \ {0} : stack[Len(stack)] = [f |-> f, at |-> k]
  <2>1. stack[Len(stack)] \in Frames
    BY <1>1
  <2>. QED BY <2>1 DEF Frames
<1>3. Advanced = [stack EXCEPT ![Len(stack)] = [f |-> f, at |-> k + 1]]
  <2>1. Top = [f |-> f, at |-> k]
    BY <1>2 DEF Top
  <2>2. [Top EXCEPT !.at = @ + 1] = [f |-> f, at |-> k + 1]
    BY <2>1
  <2>. QED BY <2>2 DEF Advanced
<1>4. [f |-> f, at |-> k + 1] \in Frames
  BY DEF Frames
<1>. QED BY <1>1, <1>3, <1>4

\* What is executed is code of the program.
LEMMA InstExecuted ==
  ASSUME LinkInv, NamesKnown, Executing
  PROVE  Inst \in Instructions
<1>1. stack \in Seq(Frames) /\ Len(stack) \in DOMAIN stack
  BY DEF LinkInv, Executing
<1>2. Top \in Frames
  BY <1>1 DEF Top
<1>3. PICK f \in DOMAIN ir.funcs, k \in Nat \ {0} : Top.f = f /\ Top.at = k
  BY <1>2 DEF Frames
<1>4. ~(k > Len(ir.funcs[f].code))
  BY <1>3 DEF Executing, AtEnd
<1>5. PICK c : c = ir.funcs[f].code /\ IsSequence(c)
  BY DEF NamesKnown
<1>6. Len(c) \in Nat /\ DOMAIN c = 1..Len(c)
  BY <1>5, SequenceDomain
<1>7. k \in DOMAIN c
  BY <1>4, <1>5, <1>6
<1>8. Inst \in ToSet(c)
  BY <1>3, <1>5, <1>7 DEF Inst, ToSet
<1>. QED BY <1>5, <1>8 DEF Instructions

LEMMA CallStep == ASSUME DeadInv, Call, NamesKnown PROVE DeadInv'
<1>1. /\ pc = "run" /\ pc' \in {"run", "exited", "overflow"} /\ stack # <<>>
      /\ UNCHANGED <<queue, lost, packed, compiled>>
      /\ stack' = stack \/ \E n \in Names : stack' = Append(Advanced, [f |-> Named(n), at |-> 1])
  BY DEF Call, Executing, Ends, Exit, Goto
<1>2. LinkInv /\ lost \cap gone = {}
  BY <1>1 DEF DeadInv
<1>3. \A n \in Names : [f |-> Named(n), at |-> 1] \in Frames
  <2>. SUFFICES ASSUME NEW n \in Names PROVE [f |-> Named(n), at |-> 1] \in Frames
    OBVIOUS
  <2>1. PICK i \in DOMAIN ir.funcs : n = ir.funcs[i].name
    BY DEF Names
  <2>2. Named(n) \in DOMAIN ir.funcs
    BY <2>1, NamedFinds
  <2>. QED BY <2>2 DEF Frames
<1>4. Advanced \in Seq(Frames)
  BY <1>1, <1>2, AdvancedTyped
<1>5. stack' \in Seq(Frames)
  <2>1. \A s \in Seq(Frames), x \in Frames : Append(s, x) \in Seq(Frames)
    OBVIOUS
  <2>. QED BY <1>1, <1>2, <1>3, <1>4, <2>1 DEF LinkInv
<1>6. queue' \in Seq(DOMAIN ir.funcs)
  BY <1>1, <1>2 DEF LinkInv
<1>. QED BY <1>1, <1>2, <1>5, <1>6, RunStep

LEMMA CallLostStep == ASSUME DeadInv, CallLost, NamesKnown PROVE DeadInv'
<1>. DEFINE name == Callee(Inst)[1]
<1>1. /\ pc = "run" /\ pc' \in {"run", "exited"} /\ stack # <<>> /\ Executing
      /\ UNCHANGED <<queue, packed, compiled>>
      /\ Callee(Inst) # <<>> /\ name \notin Names /\ lost' = lost \cup {name}
      /\ stack' = stack \/ stack' = Advanced
  BY DEF CallLost, Executing, Ends, Exit, Goto
<1>2. LinkInv /\ lost \cap gone = {}
  BY <1>1 DEF DeadInv
<1>3. name \in ToSet(Callee(Inst))
  <2>1. 1 \in DOMAIN Callee(Inst)
    <3>1. \A x : 1 \in DOMAIN <<x>>
      OBVIOUS
    <3>2. Callee(Inst) = <<>> \/ \E x : Callee(Inst) = <<x>>
      BY DEF Callee
    <3>. QED BY <1>1, <3>1, <3>2
  <2>. QED BY <2>1 DEF ToSet
<1>4. name \notin gone
  <2>1. Inst \in Instructions
    BY <1>1, <1>2, InstExecuted
  <2>. HIDE DEF name
  <2>. QED BY <1>1, <1>2, <1>3, <2>1, CalleeAlive
<1>. HIDE DEF name
<1>5. lost' \cap gone = {}
  BY <1>1, <1>2, <1>4
<1>6. stack' \in Seq(Frames) /\ queue' \in Seq(DOMAIN ir.funcs)
  BY <1>1, <1>2, AdvancedTyped DEF LinkInv
<1>. QED BY <1>1, <1>5, <1>6, RunStep

LEMMA OtherStep == ASSUME DeadInv, Other PROVE DeadInv'
<1>1. /\ pc = "run" /\ pc' \in {"run", "exited"} /\ stack # <<>>
      /\ UNCHANGED <<queue, lost, packed, compiled>>
      /\ stack' = stack \/ stack' = Advanced
  BY DEF Other, Executing, Ends, Exit, Goto
<1>2. LinkInv /\ lost \cap gone = {}
  BY <1>1 DEF DeadInv
<1>3. stack' \in Seq(Frames) /\ queue' \in Seq(DOMAIN ir.funcs)
  BY <1>1, <1>2, AdvancedTyped DEF LinkInv
<1>. QED BY <1>1, <1>2, <1>3, RunStep

LEMMA DeadInvNext == DeadInv /\ NamesKnown /\ NamesKnown' /\ [Next]_vars => DeadInv'
<1>. SUFFICES ASSUME DeadInv, NamesKnown, NamesKnown', [Next]_vars PROVE DeadInv'
  OBVIOUS
<1>1. CASE UNCHANGED vars
  <2>1. UNCHANGED <<pkgs, order, ir, reach, work, gone, queue, stack, lost, pc>>
    BY <1>1 DEF vars, packed, compiled, running
  <2>2. Live' = Live /\ Names' = Names /\ Instructions' = Instructions /\ Frames' = Frames
    BY <2>1, SameMethods DEF Names, Instructions, Frames
  <2>3. \A n : Callees(n)' = Callees(n)
    BY <2>1 DEF Callees, Names, Named
  <2>4. MarkInv' <=> MarkInv
    BY <2>1, <2>2, <2>3 DEF MarkInv
  <2>5. LinkInv' <=> LinkInv
    BY <2>1, <2>2 DEF LinkInv
  <2>. QED BY <2>1, <2>4, <2>5 DEF DeadInv
<1>2. CASE ParseOption
  BY <1>2, EarlyStep DEF ParseOption, Exit, Goto, compiled
<1>3. CASE ReadInput
  BY <1>3, EarlyStep DEF ReadInput, Exit, Fail, compiled
<1>4. CASE Start
  BY <1>4, EarlyStep DEF Start, Exit, Goto, compiled
<1>5. CASE FindBase
  BY <1>5, EarlyStep DEF FindBase, Goto, compiled
<1>6. CASE ReadEntry
  BY <1>6, EarlyStep DEF ReadEntry, Exit, Goto, compiled
<1>7. CASE ResolveImport
  BY <1>7, EarlyStep DEF ResolveImport, compiled
<1>8. CASE Resolved
  BY <1>8, EarlyStep DEF Resolved, Goto, compiled
<1>9. CASE Sort
  BY <1>9, EarlyStep DEF Sort, Goto, compiled
<1>13. CASE visit
  BY <1>13, EarlyStep DEF visit, compiled
<1>10. CASE Validate
  BY <1>10, EarlyStep DEF Validate, Fail, Exit, Goto, compiled
<1>11. CASE NoMain
  BY <1>11, StopStep DEF NoMain, Fail, Exit, compiled, running
<1>12. CASE Stopped
  BY <1>12, StopStep DEF Stopped, vars, compiled, running
<1>. QED
  BY <1>1, <1>2, <1>3, <1>4, <1>5, <1>6, <1>7, <1>8, <1>9, <1>10, <1>11, <1>12, <1>13, CompileStep, MarkStep,
     SweepStep, GenerateStep, BeginStep, ReturnStep, CallStep, CallLostStep, OtherStep DEF Next

\* A function that eliminateDeadFunctions removed is never missed, whatever is
\* compiled (dce.go): neither by the calls the generators link, nor by a call
\* the program executes, as long as no two functions have one name and interface
\* calls go to methods.
THEOREM RemovedIsNeverMissed == Spec /\ []NamesKnown => []OnlyUndefinedIsLost
<1>1. DeadInv => OnlyUndefinedIsLost
  BY DEF DeadInv, OnlyUndefinedIsLost
<1>. QED BY <1>1, DeadInvInit, DeadInvNext, PTL DEF Spec

-----------------------------------------------------------------------------
(* The order of packages.                                                  *)

\* There are finitely many packages, known by their paths.
PathsInv == IsFiniteSet(DOMAIN pkgs) /\ \A p \in DOMAIN pkgs : pkgs[p].path = p

LEMMA PathsInvInit == Init => PathsInv
BY FS_EmptySet DEF Init, PathsInv

LEMMA SamePaths == ASSUME PathsInv, UNCHANGED pkgs PROVE PathsInv'
BY DEF PathsInv

\* What is found is a package of the path asked for.
LEMMA FoundPath ==
  /\ EntryPackage # NoPackage => EntryPackage.path = "main"
  /\ \A path : FindPackage(path) # NoPackage => FindPackage(path).path = path
<1>1. \A files, path, tags : \/ parsePackageDir(files, path, tags) = NoPackage
                             \/ \E name, good : parsePackageDir(files, path, tags) = Package(path, name, good)
  BY DEF parsePackageDir
<1>2. \A path, name, files : Package(path, name, files).path = path
  BY DEF Package
<1>3. \A files, path, tags : parsePackageDir(files, path, tags) # NoPackage => parsePackageDir(files, path, tags).path = path
  BY <1>1, <1>2
<1>4. \A path, tags : parsePackageFromEmbed(path, tags) # NoPackage => parsePackageFromEmbed(path, tags).path = path
  BY <1>3 DEF parsePackageFromEmbed
<1>5. \A path : FindPackage(path) # NoPackage => FindPackage(path).path = path
  BY <1>3, <1>4 DEF FindPackage
<1>6. EntryPackage # NoPackage => EntryPackage.path = "main"
  <2>. DEFINE arg == opt.files[1]
              here == parsePackageDir(FilesIn(dirOfPath(arg)), "main", buildTags(opt))
              embedded == parsePackageFromEmbed(arg[1], buildTags(opt))
  <2>1. CASE isGoFile(arg)
    <3>1. \E files : EntryPackage = Package("main", "main", files)
      BY <2>1 DEF EntryPackage
    <3>. QED BY <1>2, <3>1
  <2>2. CASE ~isGoFile(arg)
    <3>1. EntryPackage = IF arg = <<".">> \/ Len(arg) > 1 \/ embedded = NoPackage THEN here
                         ELSE [embedded EXCEPT !.path = "main"]
      BY <2>2 DEF EntryPackage
    <3>2. here # NoPackage => here.path = "main"
      BY <1>3
    <3>3. embedded # NoPackage => [embedded EXCEPT !.path = "main"].path = "main"
      <4>1. embedded # NoPackage => \E name, good : embedded = Package(arg[1], name, good)
        BY <1>1 DEF parsePackageFromEmbed
      <4>. QED BY <4>1 DEF Package
    <3>. HIDE DEF here, embedded
    <3>. QED BY <3>1, <3>2, <3>3
  <2>. QED BY <2>1, <2>2
<1>. QED BY <1>5, <1>6

LEMMA PathsInvNext == PathsInv /\ [Next]_vars => PathsInv'
<1>. SUFFICES ASSUME PathsInv, [Next]_vars PROVE PathsInv'
  OBVIOUS
<1>1. CASE ReadEntry
  <2>1. CASE EntryPackage = NoPackage
    BY <1>1, <2>1, SamePaths DEF ReadEntry
  <2>2. CASE EntryPackage # NoPackage
    <3>1. pkgs' = [p \in {"main"} |-> EntryPackage]
      BY <1>1, <2>2 DEF ReadEntry
    <3>2. EntryPackage.path = "main" /\ IsFiniteSet({"main"})
      BY <2>2, FoundPath, FS_Singleton
    <3>. QED BY <3>1, <3>2 DEF PathsInv
  <2>. QED BY <2>1, <2>2
<1>2. CASE ResolveImport
  <2>. DEFINE path == Head(todo)
              pkg == FindPackage(path)
  <2>1. CASE path \in DOMAIN pkgs \/ pkg = NoPackage
    BY <1>2, <2>1, SamePaths DEF ResolveImport
  <2>2. CASE ~(path \in DOMAIN pkgs \/ pkg = NoPackage)
    <3>1. pkgs' = [p \in DOMAIN pkgs \cup {path} |-> IF p = path THEN pkg ELSE pkgs[p]]
      BY <1>2, <2>2 DEF ResolveImport
    <3>2. pkg.path = path
      BY <2>2, FoundPath
    <3>3. IsFiniteSet(DOMAIN pkgs \cup {path})
      BY FS_AddElement DEF PathsInv
    <3>. HIDE DEF path, pkg
    <3>. QED BY <3>1, <3>2, <3>3 DEF PathsInv
  <2>. QED BY <2>1, <2>2
<1>3. CASE Next /\ ~ReadEntry /\ ~ResolveImport
  <2>1. UNCHANGED pkgs
    BY <1>3 DEF Next, ParseOption, ReadInput, Start, FindBase, Resolved, Sort, visit, Validate, Compile, Mark,
       Sweep, Generate, Begin, Return, NoMain, Call, CallLost, Other, Stopped, vars, packed
  <2>. QED BY <2>1, SamePaths
<1>4. CASE UNCHANGED vars
  BY <1>4, SamePaths DEF vars, packed
<1>. QED BY <1>1, <1>2, <1>3, <1>4

\* No package imports itself, directly or not: numbers can be given to the
\* packages that fall along every import.
Numbering(f) == \A p \in DOMAIN pkgs : \A q \in ToSet(Imports(p)) \cap DOMAIN pkgs : f[q] < f[p]
NoCycle == \E f \in [DOMAIN pkgs -> Nat] : Numbering(f)

WalkTyped == \E S : order \in Seq(S) /\ walk \in Seq([path : S, at : Nat])

\* A package is put out once, and no visit is begun twice.
OnceEach ==
  /\ \A i, j \in DOMAIN order : order[i] = order[j] => i = j
  /\ \A i, j \in DOMAIN walk : walk[i].path = walk[j].path => i = j
  /\ \A i \in DOMAIN walk : walk[i].path \notin ToSet(order)

\* Each visit was called for the import the one before it has come to.
OnPath ==
  \A k \in DOMAIN walk : k < Len(walk) =>
    /\ walk[k].at \in DOMAIN Imports(walk[k].path)
    /\ walk[k+1].path = Imports(walk[k].path)[walk[k].at]

\* The imports a visit has come past are put out.
PastImports ==
  \A k \in DOMAIN walk : \A i \in DOMAIN Imports(walk[k].path) :
    /\ i <= walk[k].at
    /\ Imports(walk[k].path)[i] \in DOMAIN pkgs
    => Imports(walk[k].path)[i] \in ToSet(order) \/ (k < Len(walk) /\ i = walk[k].at)

Falling ==
  \A f \in [DOMAIN pkgs -> Nat] : Numbering(f) =>
    \A j, k \in DOMAIN walk : j < k /\ walk[k].path \in DOMAIN pkgs =>
      walk[j].path \in DOMAIN pkgs /\ f[walk[k].path] < f[walk[j].path]

\* What a package imports comes before it.
ImportsFirst ==
  \A m \in DOMAIN order : \A q \in ToSet(Imports(order[m])) \cap DOMAIN pkgs :
    \E l \in DOMAIN order : l < m /\ order[l] = q

SortInv ==
  /\ pc \in {"options", "search", "entry", "imports"} => order = <<>>
  /\ pc # "sort" => walk = <<>>
  /\ WalkTyped /\ OnceEach /\ OnPath /\ Falling
  /\ NoCycle => PastImports /\ ImportsFirst

LEMMA SortInvInit == Init => SortInv
<1>. SUFFICES ASSUME Init PROVE SortInv
  OBVIOUS
<1>1. order = <<>> /\ walk = <<>> /\ pc = "options"
  BY DEF Init
<1>2. WalkTyped
  BY <1>1 DEF WalkTyped
<1>. QED BY <1>1, <1>2 DEF SortInv, OnceEach, OnPath, PastImports, Falling, ImportsFirst

\* Before the sort there is no order, and after it no visit.
LEMMA SameOrder ==
  ASSUME SortInv, UNCHANGED <<order, walk>>,
         pc \in {"options", "search", "entry", "imports"} \/ UNCHANGED pkgs,
         pc' \in {"options", "search", "entry", "imports"} => pc \in {"options", "search", "entry", "imports"},
         pc' = "sort" \/ walk = <<>>
  PROVE  SortInv'
<1>1. CASE pc \in {"options", "search", "entry", "imports"}
  <2>1. order' = <<>> /\ walk' = <<>>
    BY <1>1 DEF SortInv
  <2>2. WalkTyped'
    BY <2>1 DEF WalkTyped
  <2>. QED BY <2>1, <2>2 DEF SortInv, OnceEach, OnPath, PastImports, Falling, ImportsFirst
<1>2. CASE pc \notin {"options", "search", "entry", "imports"} /\ UNCHANGED pkgs
  <2>1. \A p : Imports(p)' = Imports(p)
    BY <1>2 DEF Imports
  <2>2. \A f : Numbering(f)' <=> Numbering(f)
    BY <1>2, <2>1 DEF Numbering
  <2>3. (WalkTyped /\ OnceEach /\ OnPath)'
    BY <2>1 DEF SortInv, WalkTyped, OnceEach, OnPath
  <2>4. NoCycle' => PastImports' /\ ImportsFirst'
    <3>1. NoCycle' <=> NoCycle
      BY <1>2, <2>2 DEF NoCycle
    <3>. QED BY <1>2, <2>1, <3>1 DEF SortInv, PastImports, ImportsFirst
  <2>5. Falling'
    BY <1>2, <2>2 DEF SortInv, Falling
  <2>. QED BY <1>2, <2>3, <2>4, <2>5 DEF SortInv
<1>. QED BY <1>1, <1>2

\* A sequence of visits.
IsWalk(w) == \E S : w \in Seq([path : S, at : Nat])

LEMMA WalkElements ==
  ASSUME NEW w, IsWalk(w)
  PROVE  /\ Len(w) \in Nat /\ DOMAIN w = 1..Len(w)
         /\ \A k \in DOMAIN w : w[k].at \in Nat
<1>1. PICK S : w \in Seq([path : S, at : Nat])
  BY DEF IsWalk
<1>. DEFINE V == [path : S, at : Nat]
<1>2. \A v \in V : v.at \in Nat
  OBVIOUS
<1>3. w \in Seq(V)
  BY <1>1
<1>. HIDE DEF V
<1>4. Len(w) \in Nat /\ DOMAIN w = 1..Len(w) /\ \A k \in DOMAIN w : w[k] \in V
  BY <1>3
<1>. QED BY <1>2, <1>4

LEMMA OrderElements ==
  ASSUME WalkTyped
  PROVE  /\ IsWalk(walk)
         /\ Len(order) \in Nat /\ DOMAIN order = 1..Len(order)
         /\ ToSet(order) = {order[i] : i \in 1..Len(order)}
<1>1. IsWalk(walk) /\ \E S : order \in Seq(S)
  BY DEF WalkTyped, IsWalk
<1>2. Len(order) \in Nat /\ DOMAIN order = 1..Len(order)
  BY <1>1
<1>. QED BY <1>1, <1>2 DEF ToSet

\* u is the visits w and one of p that begins.
Begun(w, p, u) ==
  /\ \E T : order \in Seq(T) /\ u \in Seq([path : T, at : Nat])
  /\ Len(u) = Len(w) + 1 /\ DOMAIN u = 1..Len(w)+1
  /\ u[Len(w)+1].path = p /\ u[Len(w)+1].at = 0
  /\ \A k \in DOMAIN w : u[k] = w[k]

LEMMA VisitBegun ==
  ASSUME NEW w, NEW S, order \in Seq(S), w \in Seq([path : S, at : Nat]), NEW p,
         NEW u, u = Append(w, [path |-> p, at |-> 0])
  PROVE  Begun(w, p, u)
<1>. DEFINE T == S \cup {p}
            v == [path |-> p, at |-> 0]
<1>1. v \in [path : T, at : Nat] /\ v.path = p /\ v.at = 0
  OBVIOUS
<1>2. order \in Seq(T) /\ w \in Seq([path : T, at : Nat])
  <2>1. \A X, Y : X \subseteq Y => Seq(X) \subseteq Seq(Y)
    OBVIOUS
  <2>2. S \subseteq T /\ [path : S, at : Nat] \subseteq [path : T, at : Nat]
    OBVIOUS
  <2>. HIDE DEF T
  <2>. QED BY <2>1, <2>2
<1>3. u = Append(w, v)
  OBVIOUS
<1>. HIDE DEF T, v
<1>4. u \in Seq([path : T, at : Nat])
  BY <1>1, <1>2, <1>3
<1>5. /\ Len(u) = Len(w) + 1 /\ DOMAIN u = 1..Len(w)+1 /\ u[Len(w)+1] = v
      /\ \A k \in DOMAIN w : u[k] = w[k]
  BY <1>1, <1>2, <1>3
<1>. QED BY <1>1, <1>2, <1>4, <1>5 DEF Begun

LEMMA ImportList ==
  ASSUME PackagesAreLists, NEW p
  PROVE  Len(Imports(p)) \in Nat /\ DOMAIN Imports(p) = 1..Len(Imports(p))
<1>1. CASE p \in DOMAIN pkgs
  BY <1>1, SequenceDomain DEF PackagesAreLists, Imports
<1>2. CASE p \notin DOMAIN pkgs
  BY <1>2 DEF Imports
<1>. QED BY <1>1, <1>2

LEMMA SortKeeps ==
  ASSUME SortInv, Sort, PackagesAreLists
  PROVE  SortInv'
<1>1. pc = "sort" /\ walk = <<>> /\ UNCHANGED <<order, pkgs>>
  BY DEF Sort
<1>2. CASE walk' = <<>> /\ pc' \in {"sort", "validate"}
  BY <1>1, <1>2, SameOrder
<1>3. ASSUME NEW p, walk' = Append(<<>>, [path |-> p, at |-> 0]), ~Visited(p), pc' = "sort"
      PROVE  SortInv'
  <2>1. PICK S : order \in Seq(S)
    BY DEF SortInv, WalkTyped
  <2>2. <<>> \in Seq([path : S, at : Nat]) /\ Len(<<>>) = 0 /\ WalkTyped
    BY DEF SortInv
  <2>3. /\ \E T : order \in Seq(T) /\ walk' \in Seq([path : T, at : Nat])
        /\ Len(walk') = 1 /\ DOMAIN walk' = 1..1
        /\ walk'[1].path = p /\ walk'[1].at = 0
    <3>. DEFINE w == <<>>
    <3>1. w \in Seq([path : S, at : Nat]) /\ Len(w) = 0 /\ walk' = Append(w, [path |-> p, at |-> 0])
      BY <1>3, <2>2
    <3>. HIDE DEF w
    <3>2. Begun(w, p, walk')
      BY <2>1, <2>2, <3>1, VisitBegun
    <3>. QED BY <3>1, <3>2 DEF Begun
  <2>4. WalkTyped'
    BY <1>1, <2>3 DEF WalkTyped
  <2>5. p \notin ToSet(order)
    BY <1>3 DEF Visited
  <2>6. OnceEach'
    <3>1. \A i, j \in DOMAIN order : order[i] = order[j] => i = j
      BY DEF SortInv, OnceEach
    <3>2. \A i, j \in DOMAIN walk' : i = j
      BY <2>3
    <3>3. \A i \in DOMAIN walk' : walk'[i].path = p
      BY <2>3
    <3>. QED BY <1>1, <2>5, <3>1, <3>2, <3>3 DEF OnceEach
  <2>7. OnPath'
    BY <2>3 DEF OnPath
  <2>8. PastImports'
    <3>. SUFFICES ASSUME NEW k \in DOMAIN walk', NEW i \in DOMAIN Imports(walk[k].path)', i <= walk'[k].at,
                         Imports(walk[k].path)'[i] \in DOMAIN pkgs'
                  PROVE  FALSE
      BY DEF PastImports
    <3>1. Imports(walk[k].path)' = Imports(p) /\ walk'[k].at = 0
      BY <1>1, <2>3 DEF Imports
    <3>2. i \in Nat /\ i # 0
      BY <3>1, ImportList
    <3>. QED BY <3>1, <3>2
  <2>9. Falling'
    <3>1. \A j, k \in DOMAIN walk' : j = k /\ j \in Nat
      BY <2>3
    <3>. QED BY <3>1 DEF Falling
  <2>10. NoCycle' => ImportsFirst'
    <3>1. \A r : Imports(r)' = Imports(r)
      BY <1>1 DEF Imports
    <3>2. NoCycle' <=> NoCycle
      BY <1>1, <3>1 DEF NoCycle, Numbering
    <3>. QED BY <1>1, <3>1, <3>2 DEF SortInv, ImportsFirst
  <2>. QED BY <1>3, <2>4, <2>6, <2>7, <2>8, <2>9, <2>10 DEF SortInv
<1>4. CASE roots = {}
  BY <1>1, <1>2, <1>4 DEF Sort, Goto
<1>5. CASE roots # {}
  <2>1. PICK p : walk' = Visiting(<<>>, p) /\ pc' = "sort"
    BY <1>1, <1>5 DEF Sort
  <2>2. CASE Visited(p)
    BY <1>2, <2>1, <2>2 DEF Visiting
  <2>3. CASE ~Visited(p)
    BY <1>3, <2>1, <2>3 DEF Visiting
  <2>. QED BY <2>2, <2>3
<1>. QED BY <1>4, <1>5

\* The visits w after the innermost one has come to its next import.
Advances(w, u) ==
  /\ \A S : w \in Seq([path : S, at : Nat]) => u \in Seq([path : S, at : Nat])
  /\ Len(u) = Len(w) /\ DOMAIN u = 1..Len(w)
  /\ \A k \in 1..Len(w) : u[k].path = w[k].path
  /\ \A k \in 1..Len(w) : u[k].at = IF k = Len(w) THEN w[k].at + 1 ELSE w[k].at

LEMMA OnwardVisits ==
  ASSUME WalkTyped, walk # <<>>
  PROVE  Advances(walk, Onward)
<1>1. /\ Len(walk) \in Nat /\ Len(walk) # 0 /\ DOMAIN walk = 1..Len(walk)
      /\ Last(walk) = walk[Len(walk)] /\ walk[Len(walk)].at \in Nat
  <2>1. IsWalk(walk) /\ \E S : walk \in Seq([path : S, at : Nat])
    BY DEF WalkTyped, IsWalk
  <2>2. Len(walk) \in Nat /\ Len(walk) # 0
    BY <2>1
  <2>. QED BY <2>1, <2>2, WalkElements DEF Last
<1>. DEFINE v == walk[Len(walk)]
            u == [walk EXCEPT ![Len(walk)] = [path |-> v.path, at |-> v.at + 1]]
<1>2. u = Onward
  BY <1>1 DEF Onward
<1>3. ASSUME NEW S, walk \in Seq([path : S, at : Nat])
      PROVE  u \in Seq([path : S, at : Nat])
  <2>1. v \in [path : S, at : Nat]
    <3>. DEFINE V == [path : S, at : Nat]
    <3>1. walk \in Seq(V) /\ Len(walk) \in 1..Len(walk)
      BY <1>1, <1>3
    <3>. HIDE DEF V
    <3>2. v \in V
      BY <1>1, <3>1
    <3>. QED BY <3>2 DEF V
  <2>2. [path |-> v.path, at |-> v.at + 1] \in [path : S, at : Nat]
    BY <2>1
  <2>. DEFINE V == [path : S, at : Nat]
  <2>. HIDE DEF V, v
  <2>3. \A x \in V : [walk EXCEPT ![Len(walk)] = x] \in Seq(V)
    BY <1>1, <1>3 DEF V
  <2>. QED BY <2>2, <2>3 DEF V
<1>4. Len(u) = Len(walk) /\ DOMAIN u = 1..Len(walk)
  <2>1. DOMAIN u = 1..Len(walk)
    BY <1>1
  <2>2. \E S : u \in Seq([path : S, at : Nat])
    BY <1>3 DEF WalkTyped
  <2>3. Len(u) \in Nat /\ DOMAIN u = 1..Len(u)
    BY <2>2
  <2>. HIDE DEF u
  <2>. QED BY <1>1, <2>1, <2>3
<1>5. \A k \in 1..Len(walk) : /\ u[k].path = walk[k].path
                              /\ u[k].at = IF k = Len(walk) THEN walk[k].at + 1 ELSE walk[k].at
  BY <1>1
<1>. QED BY <1>2, <1>3, <1>4, <1>5 DEF Advances

\* The next import of the innermost visit.
NextImport == Imports(Last(walk).path)[Last(walk).at + 1]

\* What a numbering says of the import to come.
LEMMA NextFalls ==
  ASSUME SortInv, PackagesAreLists, walk # <<>>, Last(walk).at < Len(Imports(Last(walk).path))
  PROVE  /\ Len(walk) \in DOMAIN walk /\ Last(walk) = walk[Len(walk)]
         /\ Last(walk).at + 1 \in DOMAIN Imports(Last(walk).path)
         /\ Last(walk).path \in DOMAIN pkgs
         /\ \A f \in [DOMAIN pkgs -> Nat] : Numbering(f) /\ NextImport \in DOMAIN pkgs =>
              \A j \in DOMAIN walk : walk[j].path \in DOMAIN pkgs /\ f[NextImport] < f[walk[j].path]
<1>1. /\ Len(walk) \in Nat /\ Len(walk) # 0 /\ DOMAIN walk = 1..Len(walk)
      /\ Last(walk) = walk[Len(walk)] /\ Last(walk).at \in Nat
  <2>1. WalkTyped
    BY DEF SortInv
  <2>2. IsWalk(walk) /\ \E S : walk \in Seq([path : S, at : Nat])
    BY <2>1 DEF WalkTyped, IsWalk
  <2>3. Len(walk) \in Nat /\ Len(walk) # 0
    BY <2>2
  <2>. QED BY <2>2, <2>3, WalkElements DEF Last
<1>. DEFINE v == Last(walk)
            n == Len(walk)
<1>2. Len(Imports(v.path)) \in Nat /\ DOMAIN Imports(v.path) = 1..Len(Imports(v.path))
  BY ImportList
<1>3. v.at + 1 \in DOMAIN Imports(v.path)
  BY <1>1, <1>2
<1>4. v.path \in DOMAIN pkgs
  <2>1. v.path \notin DOMAIN pkgs => Len(Imports(v.path)) = 0
    BY DEF Imports
  <2>. QED BY <1>1, <2>1
<1>5. NextImport \in ToSet(Imports(v.path))
  BY <1>3 DEF NextImport, ToSet
<1>6. ASSUME NEW f \in [DOMAIN pkgs -> Nat], Numbering(f), NextImport \in DOMAIN pkgs, NEW j \in DOMAIN walk
      PROVE  walk[j].path \in DOMAIN pkgs /\ f[NextImport] < f[walk[j].path]
  <2>1. f[NextImport] < f[v.path]
    BY <1>4, <1>5, <1>6 DEF Numbering
  <2>2. CASE j = n
    BY <1>1, <1>4, <2>1, <2>2
  <2>3. CASE j # n
    <3>1. j < n /\ n \in DOMAIN walk /\ walk[n] = v
      BY <1>1, <2>3
    <3>2. walk[j].path \in DOMAIN pkgs /\ f[v.path] < f[walk[j].path]
      BY <1>4, <1>6, <3>1 DEF SortInv, Falling
    <3>. HIDE DEF v
    <3>3. f[NextImport] \in Nat /\ f[v.path] \in Nat /\ f[walk[j].path] \in Nat
      BY <1>4, <1>6, <3>2
    <3>. QED BY <2>1, <3>2, <3>3
  <2>. QED BY <2>2, <2>3
<1>. QED BY <1>1, <1>3, <1>4, <1>6

\* The import to come was visited: the visit goes on to the one after it.
LEMMA VisitSkips ==
  ASSUME SortInv, PackagesAreLists, pc = "sort", walk # <<>>,
         Last(walk).at < Len(Imports(Last(walk).path)), Visited(NextImport),
         walk' = Onward, UNCHANGED <<pc, pkgs, order>>
  PROVE  SortInv'
<1>. DEFINE v == Last(walk)
            n == Len(walk)
<1>1. Advances(walk, walk') /\ WalkTyped
  BY OnwardVisits DEF SortInv
<1>2. /\ n \in DOMAIN walk /\ v = walk[n] /\ n \in Nat /\ DOMAIN walk = 1..n
      /\ v.at + 1 \in DOMAIN Imports(v.path) /\ v.path \in DOMAIN pkgs
      /\ \A k \in DOMAIN walk : walk[k].at \in Nat
  BY <1>1, NextFalls, OrderElements, WalkElements
<1>3. /\ Len(walk') = n /\ DOMAIN walk' = DOMAIN walk
      /\ \A k \in DOMAIN walk : walk'[k].path = walk[k].path
      /\ \A k \in DOMAIN walk : walk'[k].at = IF k = n THEN walk[k].at + 1 ELSE walk[k].at
  BY <1>1, <1>2 DEF Advances
<1>4. \A p : Imports(p)' = Imports(p)
  BY DEF Imports
<1>5. WalkTyped'
  BY <1>1 DEF Advances, WalkTyped
<1>6. OnceEach'
  BY <1>3 DEF SortInv, OnceEach
<1>7. OnPath'
  <2>. SUFFICES ASSUME NEW k \in DOMAIN walk', k < Len(walk')
                PROVE  /\ walk'[k].at \in DOMAIN Imports(walk[k].path)'
                       /\ walk'[k+1].path = Imports(walk[k].path)'[walk'[k].at]
    BY DEF OnPath
  <2>1. k \in DOMAIN walk /\ k + 1 \in DOMAIN walk /\ k < n /\ k # n
    BY <1>2, <1>3
  <2>2. /\ walk'[k].path = walk[k].path /\ walk'[k].at = walk[k].at /\ walk'[k+1].path = walk[k+1].path
        /\ Imports(walk[k].path)' = Imports(walk[k].path)
    BY <1>3, <1>4, <2>1
  <2>. QED BY <2>1, <2>2 DEF SortInv, OnPath
<1>12. NoCycle' <=> NoCycle
  BY <1>4 DEF NoCycle, Numbering
<1>8. NoCycle /\ NextImport \in DOMAIN pkgs => NextImport \in ToSet(order)
  <2>. SUFFICES ASSUME NoCycle, NextImport \in DOMAIN pkgs, NEW j \in DOMAIN walk, walk[j].path = NextImport PROVE FALSE
    BY DEF Visited
  <2>1. PICK f \in [DOMAIN pkgs -> Nat] : Numbering(f)
    BY DEF NoCycle
  <2>2. f[NextImport] < f[walk[j].path] /\ f[NextImport] \in Nat
    BY <2>1, NextFalls
  <2>. QED BY <2>2
<1>9. NoCycle' => PastImports'
  <2>. SUFFICES ASSUME NoCycle, NEW k \in DOMAIN walk', NEW i \in DOMAIN Imports(walk[k].path)', i <= walk'[k].at,
                       Imports(walk[k].path)'[i] \in DOMAIN pkgs'
                PROVE  Imports(walk[k].path)'[i] \in ToSet(order)' \/ (k < Len(walk') /\ i = walk'[k].at)
    BY <1>12 DEF PastImports
  <2>1. /\ k \in DOMAIN walk /\ Imports(walk[k].path)' = Imports(walk[k].path) /\ i \in DOMAIN Imports(walk[k].path)
        /\ Imports(walk[k].path)[i] \in DOMAIN pkgs
    BY <1>3, <1>4
  <2>2. CASE k # n
    BY <1>3, <2>1, <2>2 DEF SortInv, PastImports
  <2>3. CASE k = n /\ i = v.at + 1
    <3>1. Imports(walk[k].path)[i] = NextImport
      BY <1>2, <2>3 DEF NextImport
    <3>. QED BY <1>8, <2>1, <3>1
  <2>4. CASE k = n /\ i # v.at + 1
    <3>1. i <= walk[k].at
      <4>1. i \in Nat /\ walk[k].at \in Nat /\ walk'[k].at = walk[k].at + 1
        BY <1>2, <1>3, <2>1, <2>4, ImportList
      <4>2. i # walk[k].at + 1
        BY <1>2, <2>4
      <4>3. \A x, y \in Nat : x <= y + 1 /\ x # y + 1 => x <= y
        OBVIOUS
      <4>. QED BY <4>1, <4>2, <4>3
    <3>2. ~(k < Len(walk))
      BY <1>2, <2>4
    <3>. QED BY <2>1, <3>1, <3>2 DEF SortInv, PastImports
  <2>. QED BY <2>2, <2>3, <2>4
<1>10. Falling'
  <2>1. \A f : Numbering(f)' <=> Numbering(f)
    BY <1>4 DEF Numbering
  <2>. QED BY <1>3, <2>1 DEF SortInv, Falling
<1>11. NoCycle' => ImportsFirst'
  BY <1>4, <1>12 DEF SortInv, ImportsFirst
<1>. QED BY <1>5, <1>6, <1>7, <1>9, <1>10, <1>11 DEF SortInv

\* A visit of the import to come begins.
LEMMA VisitBegins ==
  ASSUME SortInv, PackagesAreLists, pc = "sort", walk # <<>>,
         Last(walk).at < Len(Imports(Last(walk).path)), ~Visited(NextImport),
         walk' = Append(Onward, [path |-> NextImport, at |-> 0]), UNCHANGED <<pc, pkgs, order>>
  PROVE  SortInv'
<1>. DEFINE v == Last(walk)
            n == Len(walk)
            q == NextImport
<1>1. Advances(walk, Onward) /\ WalkTyped
  BY OnwardVisits DEF SortInv
<1>2. /\ n \in DOMAIN walk /\ v = walk[n] /\ n \in Nat /\ DOMAIN walk = 1..n
      /\ v.at + 1 \in DOMAIN Imports(v.path) /\ v.path \in DOMAIN pkgs
      /\ \A k \in DOMAIN walk : walk[k].at \in Nat
  BY <1>1, NextFalls, OrderElements, WalkElements
<1>3. Begun(Onward, q, walk')
  <2>1. PICK S : order \in Seq(S) /\ Onward \in Seq([path : S, at : Nat])
    BY <1>1 DEF Advances, WalkTyped
  <2>. HIDE DEF q
  <2>. QED BY <2>1, VisitBegun DEF q
<1>4. /\ Len(walk') = n + 1 /\ DOMAIN walk' = 1..n+1
      /\ \A k \in 1..n : walk'[k].path = walk[k].path
      /\ \A k \in 1..n : walk'[k].at = IF k = n THEN walk[k].at + 1 ELSE walk[k].at
      /\ walk'[n+1].path = q /\ walk'[n+1].at = 0
  BY <1>1, <1>2, <1>3 DEF Advances, Begun
<1>. HIDE DEF q, v, n
<1>5. \A p : Imports(p)' = Imports(p)
  BY DEF Imports
<1>6. WalkTyped'
  BY <1>3 DEF Begun, WalkTyped
<1>7. \A k \in DOMAIN walk' : k = n + 1 \/ (k \in 1..n /\ k \in DOMAIN walk /\ k # n + 1)
  BY <1>2, <1>4
<1>8. OnceEach'
  <2>1. q \notin ToSet(order) /\ \A k \in DOMAIN walk : walk[k].path # q
    BY DEF Visited, q
  <2>2. \A i, j \in DOMAIN walk' : walk'[i].path = walk'[j].path => i = j
    BY <1>4, <1>7, <2>1 DEF SortInv, OnceEach
  <2>3. \A i \in DOMAIN walk' : walk'[i].path \notin ToSet(order)
    BY <1>4, <1>7, <2>1 DEF SortInv, OnceEach
  <2>. QED BY <2>2, <2>3 DEF SortInv, OnceEach
<1>9. OnPath'
  <2>. SUFFICES ASSUME NEW k \in DOMAIN walk', k < Len(walk')
                PROVE  /\ walk'[k].at \in DOMAIN Imports(walk[k].path)'
                       /\ walk'[k+1].path = Imports(walk[k].path)'[walk'[k].at]
    BY DEF OnPath
  <2>1. k \in 1..n /\ k \in DOMAIN walk /\ Imports(walk[k].path)' = Imports(walk[k].path)
    BY <1>2, <1>4, <1>5
  <2>2. CASE k = n
    BY <1>2, <1>4, <2>1, <2>2 DEF NextImport, q, v
  <2>3. CASE k # n
    <3>1. k < n /\ k + 1 \in 1..n
      BY <1>2, <2>1, <2>3
    <3>2. walk'[k].at = walk[k].at /\ walk'[k+1].path = walk[k+1].path
      BY <1>4, <2>1, <2>3, <3>1
    <3>. QED BY <2>1, <3>1, <3>2 DEF SortInv, OnPath, n
  <2>. QED BY <2>2, <2>3
<1>13. NoCycle' <=> NoCycle
  BY <1>5 DEF NoCycle, Numbering
<1>10. NoCycle' => PastImports'
  <2>. SUFFICES ASSUME NoCycle, NEW k \in DOMAIN walk', NEW i \in DOMAIN Imports(walk[k].path)', i <= walk'[k].at,
                       Imports(walk[k].path)'[i] \in DOMAIN pkgs'
                PROVE  Imports(walk[k].path)'[i] \in ToSet(order)' \/ (k < Len(walk') /\ i = walk'[k].at)
    BY <1>13 DEF PastImports
  <2>1. CASE k = n + 1
    <3>1. i \in DOMAIN Imports(q) /\ i <= 0
      BY <1>4, <1>5, <2>1
    <3>2. i \in Nat /\ i # 0
      BY <3>1, ImportList
    <3>. QED BY <3>1, <3>2
  <2>2. CASE k \in 1..n
    <3>1. /\ k \in DOMAIN walk /\ Imports(walk[k].path)' = Imports(walk[k].path)
          /\ i \in DOMAIN Imports(walk[k].path) /\ Imports(walk[k].path)[i] \in DOMAIN pkgs /\ k < Len(walk')
      BY <1>2, <1>4, <1>5, <2>2
    <3>2. CASE k # n
      BY <1>4, <2>2, <3>1, <3>2 DEF SortInv, PastImports, n
    <3>3. CASE k = n /\ i = v.at + 1
      BY <1>2, <1>4, <2>2, <3>1, <3>3
    <3>4. CASE k = n /\ i # v.at + 1
      <4>1. i <= walk[k].at
        <5>1. i \in Nat /\ walk[k].at \in Nat /\ walk'[k].at = walk[k].at + 1
          BY <1>2, <1>4, <2>2, <3>1, <3>4, ImportList
        <5>2. i # walk[k].at + 1
          BY <1>2, <3>4
        <5>3. \A x, y \in Nat : x <= y + 1 /\ x # y + 1 => x <= y
          OBVIOUS
        <5>. QED BY <5>1, <5>2, <5>3
      <4>2. ~(k < n)
        BY <1>2, <3>4
      <4>. QED BY <3>1, <4>1, <4>2 DEF SortInv, PastImports, n
    <3>. QED BY <3>2, <3>3, <3>4
  <2>. QED BY <1>7, <2>1, <2>2
<1>11. Falling'
  <2>1. \A f : Numbering(f)' <=> Numbering(f)
    BY <1>5 DEF Numbering
  <2>. SUFFICES ASSUME NEW f \in [DOMAIN pkgs -> Nat], Numbering(f), NEW j \in DOMAIN walk', NEW k \in DOMAIN walk',
                       j < k, walk'[k].path \in DOMAIN pkgs
                PROVE  walk'[j].path \in DOMAIN pkgs /\ f[walk'[k].path] < f[walk'[j].path]
    BY <2>1 DEF Falling
  <2>2. j \in 1..n
    BY <1>2, <1>4
  <2>3. CASE k = n + 1
    <3>1. walk'[k].path = NextImport /\ walk'[j].path = walk[j].path /\ j \in DOMAIN walk
      BY <1>2, <1>4, <2>2, <2>3 DEF q
    <3>. QED BY <3>1, NextFalls
  <2>4. CASE k \in 1..n
    BY <1>2, <1>4, <2>2, <2>4 DEF SortInv, Falling
  <2>. QED BY <1>7, <2>3, <2>4
<1>12. NoCycle' => ImportsFirst'
  BY <1>5, <1>13 DEF SortInv, ImportsFirst
<1>. QED BY <1>6, <1>8, <1>9, <1>10, <1>11, <1>12 DEF SortInv

\* The innermost visit has come past all its imports: its package is put out.
LEMMA VisitEnds ==
  ASSUME SortInv, PackagesAreLists, pc = "sort", walk # <<>>,
         ~(Last(walk).at < Len(Imports(Last(walk).path))),
         walk' = Front(walk), order' = Append(order, Last(walk).path), UNCHANGED <<pc, pkgs>>
  PROVE  SortInv'
<1>. DEFINE v == Last(walk)
            n == Len(walk)
            o == Len(order)
<1>0. WalkTyped
  BY DEF SortInv
<1>1. /\ n \in Nat /\ n # 0 /\ DOMAIN walk = 1..n /\ n \in DOMAIN walk /\ v = walk[n]
      /\ \A k \in DOMAIN walk : walk[k].at \in Nat
  <2>1. IsWalk(walk) /\ \E S : walk \in Seq([path : S, at : Nat])
    BY <1>0 DEF WalkTyped, IsWalk
  <2>2. Len(walk) \in Nat /\ Len(walk) # 0
    BY <2>1
  <2>. QED BY <2>1, <2>2, WalkElements DEF Last
<1>2. PICK S : order \in Seq(S) /\ walk \in Seq([path : S, at : Nat])
  BY <1>0 DEF WalkTyped
<1>3. v \in [path : S, at : Nat]
  <2>. DEFINE V == [path : S, at : Nat]
  <2>1. walk \in Seq(V)
    BY <1>2
  <2>. HIDE DEF V
  <2>2. walk[n] \in V
    BY <1>1, <2>1
  <2>. QED BY <1>1, <2>2 DEF V
<1>4. /\ Len(walk') = n - 1 /\ DOMAIN walk' = 1..n-1 /\ \A k \in 1..n-1 : walk'[k] = walk[k]
      /\ walk' \in Seq([path : S, at : Nat])
  <2>. DEFINE V == [path : S, at : Nat]
  <2>1. walk \in Seq(V)
    BY <1>2
  <2>. HIDE DEF V
  <2>2. Front(walk) = SubSeq(walk, 1, n - 1)
    BY DEF Front
  <2>3. walk' \in Seq(V) /\ Len(walk') = n - 1 /\ DOMAIN walk' = 1..n-1 /\ \A k \in 1..n-1 : walk'[k] = walk[k]
    BY <1>1, <2>1, <2>2
  <2>. QED BY <2>3 DEF V
<1>5. /\ o \in Nat /\ DOMAIN order = 1..o /\ DOMAIN order' = 1..o+1
      /\ order'[o+1] = v.path /\ \A m \in 1..o : order'[m] = order[m]
      /\ order' \in Seq(S)
  BY <1>2, <1>3
<1>6. ToSet(order') = ToSet(order) \cup {v.path}
  <2>1. \A m \in 1..o+1 : m \in 1..o \/ m = o + 1
    BY <1>5
  <2>2. \A m \in 1..o : m \in 1..o+1
    BY <1>5
  <2>3. o + 1 \in 1..o+1
    BY <1>5
  <2>. QED BY <1>5, <2>1, <2>2, <2>3 DEF ToSet
<1>. HIDE DEF v, n, o
<1>7. \A k \in 1..n-1 : k \in DOMAIN walk /\ k # n /\ k < n
  BY <1>1
<1>8. \A p : Imports(p)' = Imports(p)
  BY DEF Imports
<1>9. WalkTyped'
  BY <1>4, <1>5 DEF WalkTyped
<1>10. v.path \notin ToSet(order) /\ \A k \in 1..n-1 : walk[k].path # v.path
  BY <1>1, <1>7 DEF SortInv, OnceEach
<1>11. OnceEach'
  <2>1. ASSUME NEW i \in 1..o+1, NEW j \in 1..o+1, order'[i] = order'[j] PROVE i = j
    <3>1. \A m \in 1..o : order[m] \in ToSet(order)
      BY <1>5 DEF ToSet
    <3>2. (i \in 1..o \/ i = o + 1) /\ (j \in 1..o \/ j = o + 1)
      BY <1>5
    <3>. QED BY <1>5, <1>10, <2>1, <3>1, <3>2 DEF SortInv, OnceEach
  <2>2. \A i, j \in DOMAIN walk' : walk'[i].path = walk'[j].path => i = j
    BY <1>4, <1>7 DEF SortInv, OnceEach
  <2>3. \A i \in DOMAIN walk' : walk'[i].path \notin ToSet(order')
    BY <1>4, <1>6, <1>7, <1>10 DEF SortInv, OnceEach
  <2>. QED BY <1>5, <2>1, <2>2, <2>3 DEF OnceEach
<1>12. OnPath'
  <2>. SUFFICES ASSUME NEW k \in DOMAIN walk', k < Len(walk')
                PROVE  /\ walk'[k].at \in DOMAIN Imports(walk[k].path)'
                       /\ walk'[k+1].path = Imports(walk[k].path)'[walk'[k].at]
    BY DEF OnPath
  <2>1. k \in 1..n-1 /\ k + 1 \in 1..n-1 /\ k < n
    BY <1>1, <1>4
  <2>2. /\ walk'[k] = walk[k] /\ walk'[k+1] = walk[k+1] /\ k \in DOMAIN walk
        /\ Imports(walk[k].path)' = Imports(walk[k].path)
    BY <1>4, <1>7, <1>8, <2>1
  <2>. QED BY <2>1, <2>2 DEF SortInv, OnPath, n
<1>16. NoCycle' <=> NoCycle
  BY <1>8 DEF NoCycle, Numbering
<1>13. NoCycle' => PastImports'
  <2>. SUFFICES ASSUME NoCycle, NEW k \in DOMAIN walk', NEW i \in DOMAIN Imports(walk[k].path)', i <= walk'[k].at,
                       Imports(walk[k].path)'[i] \in DOMAIN pkgs'
                PROVE  Imports(walk[k].path)'[i] \in ToSet(order)' \/ (k < Len(walk') /\ i = walk'[k].at)
    BY <1>16 DEF PastImports
  <2>1. /\ k \in 1..n-1 /\ k \in DOMAIN walk /\ walk'[k] = walk[k] /\ k < n
        /\ Imports(walk[k].path)' = Imports(walk[k].path)
        /\ i \in DOMAIN Imports(walk[k].path) /\ Imports(walk[k].path)[i] \in DOMAIN pkgs /\ i <= walk[k].at
    BY <1>4, <1>7, <1>8
  <2>2. CASE Imports(walk[k].path)[i] \in ToSet(order)
    BY <1>6, <2>1, <2>2
  <2>3. CASE i = walk[k].at
    <3>1. CASE k = n - 1
      <4>1. k + 1 = n
        BY <1>1, <3>1
      <4>2. v.path = Imports(walk[k].path)[i]
        BY <1>1, <2>1, <2>3, <4>1 DEF SortInv, OnPath, n
      <4>. QED BY <1>6, <2>1, <4>2
    <3>2. CASE k # n - 1
      <4>1. k < n - 1
        <5>1. \A a \in 1..n-1 : a # n - 1 => a < n - 1
          BY <1>1
        <5>. QED BY <2>1, <3>2, <5>1
      <4>. QED BY <1>4, <2>1, <2>3, <4>1
    <3>. QED BY <3>1, <3>2
  <2>. QED BY <2>1, <2>2, <2>3 DEF SortInv, PastImports
<1>14. Falling'
  <2>1. \A f : Numbering(f)' <=> Numbering(f)
    BY <1>8 DEF Numbering
  <2>. SUFFICES ASSUME NEW f \in [DOMAIN pkgs -> Nat], Numbering(f), NEW j \in 1..n-1, NEW k \in 1..n-1,
                       j < k, walk'[k].path \in DOMAIN pkgs
                PROVE  walk'[j].path \in DOMAIN pkgs /\ f[walk'[k].path] < f[walk'[j].path]
    BY <1>4, <2>1 DEF Falling
  <2>2. walk'[j] = walk[j] /\ walk'[k] = walk[k] /\ j \in DOMAIN walk /\ k \in DOMAIN walk
    BY <1>4, <1>7
  <2>. QED BY <2>2 DEF SortInv, Falling
<1>15. NoCycle' => ImportsFirst'
  <2>. SUFFICES ASSUME NoCycle, NEW m \in DOMAIN order', NEW q \in ToSet(Imports(order[m])') \cap DOMAIN pkgs'
                PROVE  \E l \in DOMAIN order' : l < m /\ order'[l] = q
    BY <1>16 DEF ImportsFirst
  <2>1. \A l \in 1..o : l \in DOMAIN order' /\ l < o + 1 /\ order'[l] = order[l]
    BY <1>5
  <2>2. CASE m \in 1..o
    <3>1. q \in ToSet(Imports(order[m])) \cap DOMAIN pkgs
      BY <1>5, <1>8, <2>2
    <3>2. PICK l \in DOMAIN order : l < m /\ order[l] = q
      BY <1>5, <2>2, <3>1 DEF SortInv, ImportsFirst
    <3>. QED BY <1>5, <2>1, <3>2
  <2>3. CASE m = o + 1
    <3>1. q \in ToSet(Imports(v.path)) /\ q \in DOMAIN pkgs
      BY <1>5, <1>8, <2>3
    <3>2. PICK i \in DOMAIN Imports(v.path) : q = Imports(v.path)[i]
      BY <3>1 DEF ToSet
    <3>3. i <= v.at
      <4>1. /\ DOMAIN Imports(v.path) = 1..Len(Imports(v.path)) /\ Len(Imports(v.path)) \in Nat /\ v.at \in Nat
            /\ ~(v.at < Len(Imports(v.path)))
        BY <1>1, ImportList DEF v
      <4>. QED BY <3>2, <4>1
    <3>4. q \in ToSet(order) \/ n < n
      BY <1>1, <3>1, <3>2, <3>3 DEF SortInv, PastImports, n
    <3>5. q \in ToSet(order)
      BY <1>1, <3>4
    <3>6. PICK l \in 1..o : order[l] = q
      BY <1>5, <3>5 DEF ToSet
    <3>. QED BY <2>1, <2>3, <3>6
  <2>. QED BY <1>5, <2>2, <2>3
<1>. QED BY <1>9, <1>11, <1>12, <1>13, <1>14, <1>15 DEF SortInv

LEMMA VisitKeeps ==
  ASSUME SortInv, visit, PackagesAreLists
  PROVE  SortInv'
<1>. DEFINE v == Last(walk)
<1>1. pc = "sort" /\ walk # <<>> /\ UNCHANGED <<pc, pkgs>>
  BY DEF visit
<1>2. CASE v.at < Len(Imports(v.path))
  <2>1. walk' = Visiting(Onward, NextImport) /\ UNCHANGED order
    BY <1>2 DEF visit, NextImport
  <2>. QED BY <1>1, <1>2, <2>1, VisitSkips, VisitBegins DEF Visiting
<1>3. CASE ~(v.at < Len(Imports(v.path)))
  <2>1. walk' = Front(walk) /\ order' = Append(order, v.path)
    BY <1>3 DEF visit
  <2>. QED BY <1>1, <1>3, <2>1, VisitEnds
<1>. QED BY <1>2, <1>3

LEMMA SortInvNext == SortInv /\ PackagesAreLists /\ [Next]_vars => SortInv'
<1>. SUFFICES ASSUME SortInv, PackagesAreLists, [Next]_vars PROVE SortInv'
  OBVIOUS
<1>1. CASE UNCHANGED vars
  BY <1>1, SameOrder DEF vars, packed, SortInv
<1>2. CASE ParseOption
  BY <1>2, SameOrder DEF ParseOption, Exit, Goto, packed, SortInv
<1>3. CASE ReadInput
  BY <1>3, SameOrder DEF ReadInput, Exit, Fail, packed, SortInv
<1>4. CASE Start
  BY <1>4, SameOrder DEF Start, Exit, Goto, packed, SortInv
<1>5. CASE FindBase
  BY <1>5, SameOrder DEF FindBase, Goto, packed, SortInv
<1>6. CASE ReadEntry
  BY <1>6, SameOrder DEF ReadEntry, Exit, Goto, SortInv
<1>7. CASE ResolveImport
  BY <1>7, SameOrder DEF ResolveImport, SortInv
<1>8. CASE Resolved
  BY <1>8, SameOrder DEF Resolved, Goto, SortInv
<1>9. CASE Validate
  BY <1>9, SameOrder DEF Validate, Goto, Fail, Exit, packed, SortInv
<1>10. CASE Compile \/ Mark \/ Sweep
  BY <1>10, SameOrder DEF Compile, Mark, Sweep, Goto, Fail, Exit, packed, SortInv
<1>11. CASE Generate \/ Begin \/ Return \/ NoMain \/ Call \/ CallLost \/ Other
  <2>1. pc \in {"generate", "run"} /\ pc' \in {"run", "exited", "overflow"} /\ UNCHANGED packed
    BY <1>11 DEF Generate, Begin, Return, NoMain, Call, CallLost, Other, Executing, Goto, Fail, Exit, Ends
  <2>. QED BY <2>1, SameOrder DEF packed, SortInv
<1>12. CASE Stopped
  BY <1>12, SameOrder DEF Stopped, vars, packed, SortInv
<1>. QED
  BY <1>1, <1>2, <1>3, <1>4, <1>5, <1>6, <1>7, <1>8, <1>9, <1>10, <1>11, <1>12, SortKeeps, VisitKeeps DEF Next

-----------------------------------------------------------------------------
(* The order of functions, and of the initialisers that are started.       *)

\* The elements of t come from the sequences in ss, those of the first ones
\* first; b says from which each comes, and o from what place in it.
Blocks(ss, t, b, o, n) ==
  /\ \A x \in 1..Len(t) : b[x] \in 1..n /\ o[x] \in DOMAIN ss[b[x]] /\ t[x] = ss[b[x]][o[x]]
  /\ \A x, y \in 1..Len(t) : x < y => b[x] <= b[y] /\ (b[x] = b[y] => o[x] < o[y])

Blocked(E, ss, t, n) == t \in Seq(E) /\ \E b, o \in [1..Len(t) -> Nat] : Blocks(ss, t, b, o, n)

LEMMA NoBlocks == ASSUME NEW E, NEW ss PROVE Blocked(E, ss, <<>>, 0)
<1>. DEFINE t == <<>>
            b == [x \in 1..0 |-> 0]
<1>1. b \in [1..0 -> Nat] /\ t \in Seq(E) /\ Len(t) = 0
  OBVIOUS
<1>2. Blocks(ss, t, b, b, 0)
  BY <1>1 DEF Blocks
<1>. HIDE DEF t, b
<1>3. Blocked(E, ss, t, 0)
  BY <1>1, <1>2 DEF Blocked
<1>. QED BY <1>3 DEF t

LEMMA ConcatBlocks ==
  ASSUME NEW E, NEW ss, NEW n \in Nat, ss[n+1] \in Seq(E), NEW t, Blocked(E, ss, t, n)
  PROVE  Blocked(E, ss, t \o ss[n+1], n + 1)
<1>0. PICK b \in [1..Len(t) -> Nat], o \in [1..Len(t) -> Nat] : Blocks(ss, t, b, o, n) /\ t \in Seq(E)
  BY DEF Blocked
<1>. DEFINE s == ss[n+1]
            u == t \o s
            l == Len(t)
            c == [x \in 1..Len(u) |-> IF x <= l THEN b[x] ELSE n + 1]
            d == [x \in 1..Len(u) |-> IF x <= l THEN o[x] ELSE x - l]
<1>1. /\ l \in Nat /\ Len(s) \in Nat /\ u \in Seq(E) /\ Len(u) = l + Len(s) /\ DOMAIN s = 1..Len(s)
      /\ \A x \in 1..l : u[x] = t[x]
      /\ \A x \in 1..Len(s) : u[l+x] = s[x]
  BY <1>0
<1>2. \A x \in 1..Len(u) : c[x] = IF x <= l THEN b[x] ELSE n + 1
  OBVIOUS
<1>3. \A x \in 1..Len(u) : d[x] = IF x <= l THEN o[x] ELSE x - l
  OBVIOUS
<1>. HIDE DEF s, u, c, d, l
<1>4. \A x \in 1..Len(u) : x \in 1..l \/ (~(x <= l) /\ x - l \in 1..Len(s) /\ l + (x - l) = x)
  BY <1>1
<1>5. \A x \in 1..l : b[x] \in 1..n /\ o[x] \in Nat /\ o[x] \in DOMAIN ss[b[x]] /\ t[x] = ss[b[x]][o[x]]
  BY <1>0 DEF Blocks, l
<1>6. ASSUME NEW x \in 1..Len(u)
      PROVE  c[x] \in 1..n+1 /\ d[x] \in Nat /\ d[x] \in DOMAIN ss[c[x]] /\ u[x] = ss[c[x]][d[x]]
  <2>1. CASE x \in 1..l
    <3>1. c[x] = b[x] /\ d[x] = o[x] /\ u[x] = t[x]
      BY <1>1, <1>2, <1>3, <2>1
    <3>. QED BY <1>5, <2>1, <3>1
  <2>2. CASE ~(x <= l)
    <3>1. c[x] = n + 1 /\ d[x] = x - l /\ u[x] = s[x-l] /\ x - l \in DOMAIN s
      BY <1>1, <1>2, <1>3, <1>4, <2>2
    <3>2. x - l \in Nat
      BY <1>1, <3>1
    <3>. QED BY <3>1, <3>2 DEF s
  <2>. QED BY <1>4, <2>1, <2>2
<1>7. ASSUME NEW x \in 1..Len(u), NEW y \in 1..Len(u), x < y
      PROVE  c[x] <= c[y] /\ (c[x] = c[y] => d[x] < d[y])
  <2>1. CASE y <= l
    <3>1. x \in 1..l /\ y \in 1..l /\ x <= l
      BY <1>1, <1>7, <2>1
    <3>2. b[x] <= b[y] /\ (b[x] = b[y] => o[x] < o[y])
      BY <1>0, <1>7, <3>1 DEF Blocks, l
    <3>. QED BY <1>2, <1>3, <2>1, <3>1, <3>2
  <2>2. CASE ~(y <= l) /\ x <= l
    <3>1. x \in 1..l
      BY <1>1, <2>2
    <3>2. c[y] = n + 1 /\ c[x] \in 1..n
      BY <1>2, <1>5, <2>2, <3>1
    <3>. QED BY <3>2
  <2>3. CASE ~(y <= l) /\ ~(x <= l)
    <3>1. c[y] = n + 1 /\ c[x] = n + 1 /\ d[x] = x - l /\ d[y] = y - l
      BY <1>2, <1>3, <2>3
    <3>. QED BY <1>1, <1>7, <3>1
  <2>. QED BY <2>1, <2>2, <2>3
<1>8. c \in [1..Len(u) -> Nat] /\ d \in [1..Len(u) -> Nat]
  <2>1. \A x \in 1..Len(u) : c[x] \in Nat /\ d[x] \in Nat
    BY <1>6
  <2>. QED BY <2>1 DEF c, d
<1>9. Blocks(ss, u, c, d, n + 1)
  BY <1>6, <1>7 DEF Blocks
<1>10. Blocked(E, ss, u, n + 1)
  BY <1>1, <1>8, <1>9 DEF Blocked
<1>. QED BY <1>10 DEF u, s

LEMMA FlattenedBlocks ==
  ASSUME NEW E, NEW ss \in Seq(Seq(E))
  PROVE  Blocked(E, ss, FlattenSeq(ss), Len(ss))
<1>. DEFINE n == Len(ss)
<1>1. n \in Nat /\ \A i \in 1..n : ss[i] \in Seq(E)
  OBVIOUS
<1>2. CASE n = 0
  <2>1. FlattenSeq(ss) = ss /\ ss = <<>>
    BY <1>2 DEF FlattenSeq
  <2>. QED BY <1>2, <2>1, NoBlocks
<1>3. CASE n # 0
  <2>. DEFINE Rec(g) == g = [i \in 1..n |-> IF i = 1 THEN ss[i] ELSE g[i-1] \o ss[i]]
              flatten == CHOOSE g : Rec(g)
              step == [i \in 1..n |-> [t \in Seq(E) |-> t \o ss[i]]]
              Q == Seq(E)
              a == <<>>
  <2>1. FlattenSeq(ss) = flatten[n]
    BY <1>3 DEF FlattenSeq
  <2>2. step \in [1..n -> [Q -> Q]] /\ a \in Q
    BY <1>1
  <2>3. PICK g \in [0..n -> Q] : IsRecursion(g, n, a, step)
    <3>. HIDE DEF n, step, Q, a
    <3>. QED BY <1>1, <2>2, IntervalRecursion
  <2>4. g[0] = <<>> /\ \A i \in 1..n : g[i] = g[i-1] \o ss[i]
    <3>1. \A i \in 1..n : g[i-1] \in Seq(E)
      <4>1. \A i \in 1..n : i - 1 \in 0..n
        BY <1>1
      <4>. QED BY <2>3, <4>1
    <3>. QED BY <2>3, <3>1 DEF IsRecursion
  <2>5. \E h : Rec(h)
    <3>. DEFINE h == [i \in 1..n |-> g[i]]
    <3>1. ASSUME NEW i \in 1..n PROVE h[i] = IF i = 1 THEN ss[i] ELSE h[i-1] \o ss[i]
      <4>1. CASE i = 1
        <5>1. <<>> \o ss[1] = ss[1]
          BY <1>1, <4>1
        <5>2. h[1] = g[1] /\ g[1] = g[0] \o ss[1]
          <6>1. 1 \in 1..n /\ 1 - 1 = 0
            BY <4>1
          <6>. QED BY <2>4, <6>1
        <5>. QED BY <2>4, <4>1, <5>1, <5>2
      <4>2. CASE i # 1
        <5>1. i - 1 \in 1..n
          BY <1>1, <4>2
        <5>. QED BY <2>4, <4>2, <5>1
      <4>. QED BY <4>1, <4>2
    <3>2. Rec(h)
      BY <3>1
    <3>. QED BY <3>2
  <2>6. Rec(flatten)
    BY <2>5
  <2>7. \A i \in 1..n : flatten[i] = IF i = 1 THEN ss[i] ELSE flatten[i-1] \o ss[i]
    BY <2>6
  <2>. HIDE DEF flatten, n, step, Q, a
  <2>. DEFINE Done == {i \in 0..n : i # 0 => Blocked(E, ss, flatten[i], i)}
  <2>8. 0 \in Done
    BY <1>1
  <2>9. ASSUME NEW i \in 0..n-1, i \in Done PROVE i + 1 \in Done
    <3>1. i \in Nat /\ i + 1 \in 1..n /\ i + 1 \in 0..n /\ ss[i+1] \in Seq(E)
      BY <1>1
    <3>2. \E t : flatten[i+1] = t \o ss[i+1] /\ Blocked(E, ss, t, i)
      <4>1. CASE i = 0
        <5>. DEFINE t == <<>>
        <5>1. t \o ss[1] = ss[1] /\ flatten[1] = ss[1]
          BY <2>7, <3>1, <4>1
        <5>2. Blocked(E, ss, t, 0)
          BY NoBlocks
        <5>. HIDE DEF t
        <5>. QED BY <4>1, <5>1, <5>2
      <4>2. CASE i # 0
        <5>1. \A j \in 1..n : j # 1 => flatten[j] = flatten[j-1] \o ss[j]
          BY <2>7
        <5>2. i + 1 # 1 /\ (i + 1) - 1 = i
          BY <3>1, <4>2
        <5>3. flatten[i+1] = flatten[i] \o ss[i+1]
          BY <3>1, <5>1, <5>2
        <5>4. Blocked(E, ss, flatten[i], i)
          BY <2>9, <4>2
        <5>. QED BY <5>3, <5>4
      <4>. QED BY <4>1, <4>2
    <3>3. Blocked(E, ss, flatten[i+1], i + 1)
      BY <3>1, <3>2, ConcatBlocks
    <3>. QED BY <3>1, <3>3
  <2>10. n \in Done
    <3>. HIDE DEF Done
    <3>1. \A i \in 0..n : i \in Done
      BY <1>1, <2>8, <2>9, IntervalSetInduction
    <3>. QED BY <1>1, <3>1
  <2>. QED BY <1>3, <2>1, <2>10 DEF n
<1>. QED BY <1>2, <1>3

\* A package's place is where it was put out.
LEMMA PlaceFound ==
  ASSUME SortInv, NEW m \in DOMAIN order
  PROVE  Place(order[m]) = m /\ m \in Nat /\ order[m] \in ToSet(order)
<1>1. m \in Nat
  <2>1. DOMAIN order = 1..Len(order) /\ Len(order) \in Nat
    BY OrderElements DEF SortInv
  <2>. QED BY <2>1
<1>2. \A k \in DOMAIN order : order[k] = order[m] <=> k = m
  BY DEF SortInv, OnceEach
<1>3. Place(order[m]) = m
  BY <1>2 DEF Place
<1>. QED BY <1>1, <1>3 DEF ToSet

LEMMA OrderedPlace ==
  ASSUME SortInv, NEW p \in ToSet(order)
  PROVE  Place(p) \in DOMAIN order /\ order[Place(p)] = p /\ Place(p) \in Nat
<1>1. PICK m \in DOMAIN order : order[m] = p
  BY DEF ToSet
<1>. QED BY <1>1, PlaceFound

\* The functions are in the order of their packages.
FuncsInOrder ==
  /\ \A i \in DOMAIN ir.funcs : Of(i) \in ToSet(order) \cap DOMAIN pkgs
  /\ \A i, j \in DOMAIN ir.funcs : i < j => Place(Of(i)) <= Place(Of(j))

\* What a package is compiled to is a sequence of functions of its path.
LEMMA CompiledPackage ==
  ASSUME NEW i, NEW pkg, IsSequence(FuncDecls(pkg))
  PROVE  /\ \E E : compilePackage(i, pkg) \in Seq(E)
         /\ \A f \in ToSet(compilePackage(i, pkg)) : f.name[1] = pkg.path
<1>. DEFINE funcs == FuncDecls(pkg)
            own == [k \in DOMAIN funcs |-> compileFunc(i, pkg, funcs[k])]
            inits == compileGlobalInits(i, pkg)
            E == ToSet(own) \cup ToSet(inits)
<1>1. Len(funcs) \in Nat /\ DOMAIN funcs = 1..Len(funcs)
  BY SequenceDomain
<1>2. \A f \in ToSet(own) : f.name[1] = pkg.path
  <2>1. \A d : compileFunc(i, pkg, d).name = QualName(pkg, d)
    BY DEF compileFunc
  <2>2. \A d : QualName(pkg, d)[1] = pkg.path
    BY DEF QualName
  <2>. QED BY <2>1, <2>2 DEF ToSet
<1>3. inits = <<>> \/ \E c : inits = << [name |-> <<pkg.path, "init$globals">>, code |-> c] >>
  BY DEF compileGlobalInits
<1>4. \A f \in ToSet(inits) : f.name[1] = pkg.path
  <2>1. CASE inits = <<>>
    BY <2>1 DEF ToSet
  <2>2. CASE inits # <<>>
    <3>1. PICK c : inits = << [name |-> <<pkg.path, "init$globals">>, code |-> c] >>
      BY <1>3, <2>2
    <3>2. ToSet(inits) = {[name |-> <<pkg.path, "init$globals">>, code |-> c]}
      BY <3>1 DEF ToSet
    <3>. QED BY <3>2
  <2>. QED BY <2>1, <2>2
<1>5. own \in Seq(ToSet(own))
  <2>1. own \in [1..Len(funcs) -> ToSet(own)]
    BY <1>1 DEF ToSet
  <2>. HIDE DEF own, funcs
  <2>. QED BY <1>1, <2>1
<1>6. inits \in Seq(ToSet(inits))
  <2>1. CASE inits = <<>>
    BY <2>1
  <2>2. CASE inits # <<>>
    <3>1. PICK x : inits = <<x>>
      BY <1>3, <2>2
    <3>2. x \in ToSet(inits)
      BY <3>1 DEF ToSet
    <3>. QED BY <3>1, <3>2
  <2>. QED BY <2>1, <2>2
<1>7. compilePackage(i, pkg) = inits \o own
  BY DEF compilePackage
<1>. HIDE DEF own, inits
<1>8. inits \in Seq(E) /\ own \in Seq(E)
  <2>1. \A X, Y : X \subseteq Y => Seq(X) \subseteq Seq(Y)
    OBVIOUS
  <2>. QED BY <1>5, <1>6, <2>1
<1>. HIDE DEF E
<1>9. compilePackage(i, pkg) \in Seq(E) /\ ToSet(compilePackage(i, pkg)) = ToSet(inits) \cup ToSet(own)
  BY <1>7, <1>8, ConcatSet
<1>. QED BY <1>2, <1>4, <1>9

\* The packages compiled, and the place of each.
LEMMA FoundInOrder ==
  ASSUME SortInv
  PROVE  /\ Len(Found) \in Nat /\ DOMAIN Found = 1..Len(Found)
         /\ \A x \in DOMAIN Found : Found[x] \in ToSet(order) \cap DOMAIN pkgs
         /\ \A x, y \in DOMAIN Found : x < y => Place(Found[x]) < Place(Found[y])
<1>. DEFINE I == {i \in DOMAIN order : order[i] \in DOMAIN pkgs}
<1>1. PICK S : order \in Seq(S)
  BY DEF SortInv, WalkTyped
<1>2. Found = Kept(order, I)
  BY DEF Found
<1>3. Found \in Seq(S) /\ \E e \in [1..Len(Found) -> Nat] : Embeds(order, I, Found, e, Len(order))
  <2>. HIDE DEF I
  <2>. QED BY <1>1, <1>2, KeptInOrder
<1>4. Len(Found) \in Nat /\ DOMAIN Found = 1..Len(Found)
  BY <1>3
<1>5. PICK e \in [1..Len(Found) -> Nat] : Embeds(order, I, Found, e, Len(order))
  BY <1>3
<1>6. \A x \in 1..Len(Found) : e[x] \in I /\ Found[x] = order[e[x]]
  BY <1>5 DEF Embeds
<1>7. \A x \in 1..Len(Found) : Found[x] \in ToSet(order) \cap DOMAIN pkgs /\ Place(Found[x]) = e[x]
  BY <1>6, PlaceFound
<1>8. \A x, y \in 1..Len(Found) : x < y => e[x] < e[y]
  BY <1>5 DEF Embeds
<1>. QED BY <1>4, <1>7, <1>8

\* What each package is compiled to.
Compiled == [i \in 1..Len(Found) |-> compilePackage(i, pkgs[Found[i]])]

LEMMA CompiledBlocks ==
  ASSUME SortInv, PathsInv, PackagesAreLists, pc = "compile",
         NEW funcs, funcs = CompileModule.funcs
  PROVE  /\ \E E : Blocked(E, Compiled, funcs, Len(Found))
         /\ \A x \in 1..Len(Found) : \A f \in ToSet(Compiled[x]) : f.name[1] = Found[x]
<1>. DEFINE l == Len(Found)
            ss == Compiled
            E == UNION {ToSet(ss[i]) : i \in 1..l}
<1>1. l \in Nat /\ DOMAIN Found = 1..l /\ \A x \in 1..l : Found[x] \in DOMAIN pkgs
  BY FoundInOrder
<1>2. funcs = FlattenSeq(ss)
  BY <1>1 DEF CompileModule, Compiled
<1>3. ASSUME NEW x \in 1..l
      PROVE  (\E T : ss[x] \in Seq(T)) /\ \A f \in ToSet(ss[x]) : f.name[1] = Found[x]
  <2>1. Found[x] \in DOMAIN pkgs /\ pkgs[Found[x]].path = Found[x]
    BY <1>1 DEF PathsInv
  <2>2. IsSequence(FuncDecls(pkgs[Found[x]]))
    BY <2>1 DEF PackagesAreLists
  <2>3. ss[x] = compilePackage(x, pkgs[Found[x]])
    BY DEF Compiled
  <2>. QED BY <2>1, <2>2, <2>3, CompiledPackage
<1>4. ASSUME NEW x \in 1..l PROVE ss[x] \in Seq(E)
  <2>1. PICK t : t = ss[x]
    OBVIOUS
  <2>2. ToSet(t) \subseteq E
    BY <2>1
  <2>3. \E T : t \in Seq(T)
    BY <1>3, <2>1
  <2>4. \A k \in DOMAIN t : t[k] \in ToSet(t)
    BY DEF ToSet
  <2>. HIDE DEF E, ss
  <2>5. t \in Seq(E)
    BY <2>2, <2>3, <2>4
  <2>. QED BY <2>1, <2>5
<1>5. ss \in Seq(Seq(E)) /\ Len(ss) = l
  <2>. DEFINE X == Seq(E)
  <2>1. ss \in [1..l -> X]
    <3>1. DOMAIN ss = 1..l /\ ss = [x \in 1..l |-> ss[x]]
      BY DEF Compiled
    <3>. HIDE DEF ss
    <3>. QED BY <1>4, <3>1
  <2>. HIDE DEF X, ss, E, l
  <2>. QED BY <1>1, <2>1 DEF X
<1>. HIDE DEF E, ss, l
<1>6. Blocked(E, ss, funcs, l)
  BY <1>2, <1>5, FlattenedBlocks
<1>. QED BY <1>3, <1>6 DEF ss, l

LEMMA CompiledInOrder ==
  ASSUME SortInv, PathsInv, PackagesAreLists, pc = "compile",
         NEW funcs, funcs = CompileModule.funcs
  PROVE  /\ \A i \in DOMAIN funcs : funcs[i].name[1] \in ToSet(order) \cap DOMAIN pkgs
         /\ \A i, j \in DOMAIN funcs : i < j => Place(funcs[i].name[1]) <= Place(funcs[j].name[1])
<1>. DEFINE l == Len(Found)
<1>1. /\ l \in Nat /\ DOMAIN Found = 1..l
      /\ \A x \in 1..l : Found[x] \in ToSet(order) \cap DOMAIN pkgs
      /\ \A x, y \in 1..l : x < y => Place(Found[x]) < Place(Found[y])
  BY FoundInOrder
<1>6. /\ \E E : Blocked(E, Compiled, funcs, l)
      /\ \A x \in 1..l : \A f \in ToSet(Compiled[x]) : f.name[1] = Found[x]
  BY CompiledBlocks
<1>. HIDE DEF l
<1>7. PICK b \in [1..Len(funcs) -> Nat], o \in [1..Len(funcs) -> Nat] : Blocks(Compiled, funcs, b, o, l)
  BY <1>6 DEF Blocked
<1>8. Len(funcs) \in Nat /\ DOMAIN funcs = 1..Len(funcs)
  BY <1>6 DEF Blocked
<1>9. ASSUME NEW i \in DOMAIN funcs PROVE b[i] \in 1..l /\ funcs[i].name[1] = Found[b[i]]
  <2>1. b[i] \in 1..l /\ funcs[i] \in ToSet(Compiled[b[i]])
    BY <1>7, <1>8 DEF Blocks, ToSet
  <2>. QED BY <1>6, <2>1
<1>10. ASSUME NEW i \in DOMAIN funcs, NEW j \in DOMAIN funcs, i < j
       PROVE  Place(funcs[i].name[1]) <= Place(funcs[j].name[1])
  <2>1. b[i] <= b[j]
    BY <1>7, <1>8, <1>10 DEF Blocks
  <2>2. b[i] \in 1..l /\ b[j] \in 1..l /\ Place(Found[b[j]]) \in Nat /\ Place(Found[b[i]]) \in Nat
    BY <1>1, <1>9, OrderedPlace
  <2>3. b[i] = b[j] \/ b[i] < b[j]
    BY <1>1, <2>1, <2>2
  <2>4. Place(Found[b[i]]) <= Place(Found[b[j]])
    BY <1>1, <2>2, <2>3
  <2>. QED BY <1>9, <2>4
<1>. QED BY <1>1, <1>9, <1>10

FuncsInv == pc \in {"mark", "generate", "run"} => FuncsInOrder

LEMMA SameFuncs ==
  ASSUME FuncsInv, UNCHANGED <<pkgs, order, ir>>,
         pc' \in {"mark", "generate", "run"} => pc \in {"mark", "generate", "run"}
  PROVE  FuncsInv'
<1>1. \A p : Place(p)' = Place(p)
  BY DEF Place
<1>2. \A i : Of(i)' = Of(i)
  BY DEF Of
<1>3. FuncsInOrder => FuncsInOrder'
  BY <1>1, <1>2 DEF FuncsInOrder
<1>. QED BY <1>3 DEF FuncsInv

LEMMA FuncsInvCompile ==
  ASSUME SortInv, PathsInv, PackagesAreLists, Compile
  PROVE  FuncsInv'
<1>1. pc = "compile" /\ UNCHANGED <<pkgs, order>>
  BY DEF Compile, packed
<1>2. CASE CompileErrors # {}
  BY <1>2 DEF Compile, Fail, Exit, FuncsInv
<1>3. CASE CompileErrors = {}
  <2>1. ir' = CompileModule
    BY <1>3 DEF Compile
  <2>2. PICK funcs : funcs = CompileModule.funcs
    OBVIOUS
  <2>3. /\ \A i \in DOMAIN funcs : funcs[i].name[1] \in ToSet(order) \cap DOMAIN pkgs
        /\ \A i, j \in DOMAIN funcs : i < j => Place(funcs[i].name[1]) <= Place(funcs[j].name[1])
    BY <1>1, <2>2, CompiledInOrder
  <2>4. \A p : Place(p)' = Place(p)
    BY <1>1 DEF Place
  <2>5. ir'.funcs = funcs
    BY <2>1, <2>2
  <2>6. \A i : Of(i)' = funcs[i].name[1]
    BY <2>5 DEF Of
  <2>. QED BY <1>1, <2>3, <2>4, <2>5, <2>6 DEF FuncsInv, FuncsInOrder
<1>. QED BY <1>2, <1>3

LEMMA FuncsInvSweep ==
  ASSUME FuncsInv, DeadInv, NamesKnown, Sweep
  PROVE  FuncsInv'
<1>. DEFINE I == {i \in DOMAIN ir.funcs : ir.funcs[i].name \in reach}
            s == ir.funcs
            t == ir'.funcs
<1>1. pc = "mark" /\ UNCHANGED <<pkgs, order>>
  BY DEF Sweep, packed
<1>2. t = Kept(s, I)
  <2>1. ir' = [ir EXCEPT !.funcs = Kept(ir.funcs, I)]
    BY DEF Sweep
  <2>2. "funcs" \in DOMAIN ir
    BY <1>1 DEF DeadInv, MarkInv
  <2>. HIDE DEF I
  <2>. QED BY <2>1, <2>2
<1>3. PICK E : s \in Seq(E)
  BY SequenceDomain DEF NamesKnown
<1>. HIDE DEF I
<1>4. t \in Seq(E) /\ \E e \in [1..Len(t) -> Nat] : Embeds(s, I, t, e, Len(s))
  BY <1>2, <1>3, KeptInOrder
<1>5. PICK e \in [1..Len(t) -> Nat] : Embeds(s, I, t, e, Len(s))
  BY <1>4
<1>6. DOMAIN t = 1..Len(t) /\ DOMAIN s = 1..Len(s)
  BY <1>3, <1>4
<1>7. \A p : Place(p)' = Place(p)
  BY <1>1 DEF Place
<1>8. \A i \in DOMAIN t : e[i] \in DOMAIN s /\ Of(i)' = Of(e[i])
  BY <1>5, <1>6 DEF Embeds, Of
<1>9. \A i, j \in DOMAIN t : i < j => e[i] < e[j]
  BY <1>5, <1>6 DEF Embeds
<1>10. FuncsInOrder
  BY <1>1 DEF FuncsInv
<1>. QED BY <1>1, <1>7, <1>8, <1>9, <1>10 DEF FuncsInOrder, FuncsInv

LEMMA FuncsInvInit == Init => FuncsInv
BY DEF Init, FuncsInv

LEMMA FuncsInvNext ==
  FuncsInv /\ SortInv /\ PathsInv /\ DeadInv /\ NamesKnown /\ PackagesAreLists /\ [Next]_vars => FuncsInv'
<1>. SUFFICES ASSUME FuncsInv, SortInv, PathsInv, DeadInv, NamesKnown, PackagesAreLists, [Next]_vars PROVE FuncsInv'
  OBVIOUS
<1>1. CASE UNCHANGED vars
  BY <1>1, SameFuncs DEF vars, packed, compiled
<1>2. CASE ParseOption \/ ReadInput \/ Start \/ FindBase \/ ReadEntry \/ ResolveImport \/ Resolved
  <2>1. pc' \notin {"mark", "generate", "run"}
    BY <1>2 DEF ParseOption, ReadInput, Start, FindBase, ReadEntry, ResolveImport, Resolved, Exit, Fail, Goto
  <2>. QED BY <2>1 DEF FuncsInv
<1>3. CASE Sort \/ visit \/ Validate
  <2>1. pc' \notin {"mark", "generate", "run"}
    BY <1>3 DEF Sort, visit, Validate, Exit, Fail, Goto
  <2>. QED BY <2>1 DEF FuncsInv
<1>4. CASE Mark
  BY <1>4, SameFuncs DEF Mark, packed
<1>5. CASE Generate \/ Begin \/ Return \/ NoMain \/ Call \/ CallLost \/ Other
  <2>1. pc \in {"generate", "run"} /\ UNCHANGED <<packed, compiled>>
    BY <1>5 DEF Generate, Begin, Return, NoMain, Call, CallLost, Other, Executing
  <2>. QED BY <2>1, SameFuncs DEF packed, compiled
<1>6. CASE Stopped
  BY <1>6, SameFuncs DEF Stopped, vars, packed, compiled
<1>. QED
  BY <1>1, <1>2, <1>3, <1>4, <1>5, <1>6, FuncsInvCompile, FuncsInvSweep DEF Next

\* Every initialiser that comes before a function the start code calls is called
\* before it, and every one before main.
StartsInOrder ==
  \A m \in DOMAIN StartCode : \A i \in DOMAIN ir.funcs :
    /\ isInitFunc(ir.funcs[i].name)
    /\ isInitFunc(ir.funcs[StartCode[m]].name) => i < StartCode[m]
    => \E k \in DOMAIN StartCode : k < m /\ StartCode[k] = i

LEMMA StartCodeOrder ==
  ASSUME NamesKnown
  PROVE  StartsInOrder
<1>. DEFINE D == DOMAIN ir.funcs
            all == [i \in D |-> i]
            I == {i \in D : isInitFunc(ir.funcs[i].name)}
            inits == Kept(all, I)
            called == IF GenerateELF = "vm" THEN inits ELSE [i \in DOMAIN inits |-> Named(ir.funcs[inits[i]].name)]
            last == IF HasMain THEN <<Named(<<"main", "main">>)>> ELSE <<>>
            n == Len(inits)
<1>1. Len(ir.funcs) \in Nat /\ D = 1..Len(ir.funcs) /\ Len(all) = Len(ir.funcs)
  BY SequenceDomain DEF NamesKnown
<1>2. all \in Seq(D) /\ \A i \in D : all[i] = i
  BY <1>1
<1>3. inits \in Seq(D) /\ \E e \in [1..Len(inits) -> Nat] : Embeds(all, I, inits, e, Len(all))
  <2>. HIDE DEF D, all, I
  <2>. QED BY <1>2, KeptInOrder
<1>4. PICK e \in [1..n -> Nat] : Embeds(all, I, inits, e, Len(all))
  BY <1>3
<1>5. n \in Nat /\ DOMAIN inits = 1..n /\ \A x \in 1..n : inits[x] \in D
  <2>. HIDE DEF D, inits
  <2>. QED BY <1>3
<1>. HIDE DEF n
<1>6. \A x \in 1..n : e[x] \in D /\ inits[x] = e[x]
  <2>. HIDE DEF D, inits, all
  <2>. QED BY <1>1, <1>2, <1>4 DEF Embeds, n
<1>7. Len(called) = n /\ DOMAIN called = 1..n /\ \A x \in 1..n : called[x] = e[x]
  <2>1. \A x \in 1..n : Named(ir.funcs[inits[x]].name) = inits[x]
    BY <1>5, NamedFinds
  <2>. HIDE DEF D, inits, all, I
  <2>2. Len(inits) = n
    BY DEF n
  <2>. QED BY <1>5, <1>6, <2>1, <2>2
<1>8. called \in Seq(D) /\ last \in Seq(D) /\ Len(last) \in Nat
  <2>1. \A i \in D : Named(ir.funcs[i].name) \in D
    BY NamedFinds
  <2>2. HasMain => Named(<<"main", "main">>) \in D
    BY <2>1 DEF HasMain, Names
  <2>. HIDE DEF D, inits
  <2>3. called \in Seq(D)
    <3>1. CASE GenerateELF = "vm"
      BY <1>3, <3>1
    <3>2. CASE GenerateELF # "vm"
      <4>1. called = [x \in 1..n |-> Named(ir.funcs[inits[x]].name)]
        BY <1>5, <3>2
      <4>2. \A x \in 1..n : Named(ir.funcs[inits[x]].name) \in D
        BY <1>6, <1>7, <4>1
      <4>3. called \in [1..n -> D]
        BY <4>1, <4>2
      <4>. HIDE DEF called
      <4>. QED BY <1>5, <4>3
    <3>. QED BY <3>1, <3>2
  <2>4. last \in Seq(D)
    BY <2>2
  <2>. QED BY <2>3, <2>4
<1>9. Len(last) <= 1 /\ \A x \in 1..Len(last) : last[x] = Named(<<"main", "main">>) /\ HasMain
  OBVIOUS
<1>10. StartCode = called \o last
  BY DEF StartCode
<1>. HIDE DEF called, last, inits, all
<1>11. /\ DOMAIN StartCode = 1..n+Len(last)
       /\ \A x \in 1..n : StartCode[x] = e[x]
  <2>. HIDE DEF D, I
  <2>1. \A s, t \in Seq(D) : DOMAIN (s \o t) = 1..Len(s)+Len(t) /\ \A x \in DOMAIN s : (s \o t)[x] = s[x]
    OBVIOUS
  <2>. QED BY <1>5, <1>7, <1>8, <1>10, <2>1
<1>12. \A i \in I : \E x \in 1..n : e[x] = i
  <2>1. \A i \in I : i \in 1..Len(all) /\ i \in I
    BY <1>1
  <2>. HIDE DEF I
  <2>. QED BY <1>4, <2>1 DEF Embeds, n
<1>13. ASSUME NEW m \in DOMAIN StartCode, NEW i \in D, isInitFunc(ir.funcs[i].name),
              isInitFunc(ir.funcs[StartCode[m]].name) => i < StartCode[m]
       PROVE  \E k \in DOMAIN StartCode : k < m /\ StartCode[k] = i
  <2>1. PICK x \in 1..n : e[x] = i
    BY <1>12, <1>13
  <2>2. x \in DOMAIN StartCode /\ StartCode[x] = i
    BY <1>5, <1>8, <1>11, <2>1
  <2>3. CASE m \in 1..n
    <3>1. StartCode[m] = e[m] /\ e[m] \in I
      BY <1>4, <1>11, <2>3 DEF Embeds, n
    <3>2. i < e[m]
      BY <1>13, <3>1
    <3>3. x < m
      <4>1. m < x => e[m] < e[x]
        BY <1>4, <2>3 DEF Embeds, n
      <4>2. e[m] \in Nat /\ e[x] \in Nat /\ x \in Nat /\ m \in Nat /\ (x = m => e[x] = e[m])
        BY <1>5, <2>3
      <4>. QED BY <2>1, <3>2, <4>1, <4>2
    <3>. QED BY <2>2, <3>3
  <2>4. CASE m \notin 1..n
    <3>1. x < m
      BY <1>5, <1>8, <1>11, <2>1, <2>4
    <3>. QED BY <2>2, <3>1
  <2>. QED BY <2>3, <2>4
<1>. QED BY <1>13 DEF StartsInOrder

\* The start code has called its first n functions, and all but the one under
\* way have returned.
Progress(n) ==
  /\ n \in 0..Len(StartCode)
  /\ Len(queue) = Len(StartCode) - n /\ \A k \in 1..Len(queue) : queue[k] = StartCode[n+k]
  /\ stack # <<>> => n >= 1 /\ stack[1].f = StartCode[n]
  /\ \A k \in 1..n : StartCode[k] \in ended \/ (k = n /\ stack # <<>>)

\* A package whose turn has come, or that waits for no other.
Due(p) == Place(p) <= Place(Started) \/ Imports(p) = <<>>

\* What is active is due.
NothingAhead == \A k \in DOMAIN stack : Due(Of(stack[k].f))

RunInv == pc = "run" => NothingAhead /\ \E n : Progress(n)

\* While the program runs, its functions and their order stay what they are.
LEMMA SameProgram ==
  ASSUME UNCHANGED <<given, packed, compiled>>
  PROVE  /\ StartCode' = StartCode
         /\ \A p : Place(p)' = Place(p)
         /\ \A i : Of(i)' = Of(i)
         /\ Started' = Of(stack'[1].f)
         /\ \A p : Imports(p)' = Imports(p)
         /\ \A p : Started' = Started => Due(p)' = Due(p)
<1>1. UNCHANGED <<opt, ir, order, pkgs>>
  BY DEF given, packed, compiled
<1>2. GenerateELF' = GenerateELF /\ HasMain' = HasMain /\ \A name : Named(name)' = Named(name)
  BY <1>1 DEF GenerateELF, HasMain, Names, Named
<1>3. StartCode' = StartCode
  BY <1>1, <1>2 DEF StartCode
<1>4. \A p : Imports(p)' = Imports(p) /\ Place(p)' = Place(p)
  BY <1>1 DEF Imports, Place
<1>5. \A p : Started' = Started => Due(p)' = Due(p)
  <2>1. Started' = Started => Place(Started)' = Place(Started)
    BY <1>1 DEF Place
  <2>. QED BY <1>4, <2>1 DEF Due
<1>. QED BY <1>1, <1>3, <1>4, <1>5 DEF Of, Started

\* A step that changes no frame's function goes on as before.
LEMMA SameProgress ==
  ASSUME RunInv, DeadInv, pc = "run", UNCHANGED <<given, packed, compiled, queue, ended>>,
         DOMAIN stack' = DOMAIN stack, \A k \in DOMAIN stack : stack'[k].f = stack[k].f,
         stack' = <<>> <=> stack = <<>>
  PROVE  RunInv'
<1>1. PICK n : Progress(n)
  BY DEF RunInv
<1>2. stack \in Seq(Frames)
  BY DEF DeadInv, LinkInv
<1>3. stack # <<>> => 1 \in DOMAIN stack
  BY <1>2
<1>4. stack # <<>> => stack'[1].f = stack[1].f /\ Started' = Started
  BY <1>3, SameProgram DEF Started
<1>5. UNCHANGED <<queue, ended>>
  OBVIOUS
<1>6. Progress(n)'
  BY <1>1, <1>4, <1>5, SameProgram DEF Progress
<1>7. NothingAhead'
  <2>. SUFFICES ASSUME NEW k \in DOMAIN stack' PROVE Due(Of(stack[k].f))'
    BY DEF NothingAhead
  <2>1. stack # <<>> /\ stack'[k].f = stack[k].f
    OBVIOUS
  <2>2. Due(Of(stack[k].f))' = Due(Of(stack[k].f))
    BY <1>4, <2>1, SameProgram DEF Due
  <2>. QED BY <2>2 DEF RunInv, NothingAhead
<1>. QED BY <1>6, <1>7 DEF RunInv

LEMMA RunInvGenerate ==
  ASSUME DeadInv, NamesKnown, Generate
  PROVE  RunInv'
<1>. SUFFICES ASSUME pc' = "run" PROVE RunInv'
  BY DEF RunInv
<1>1. /\ pc = "generate" /\ queue' = StartCode /\ UNCHANGED <<given, packed, compiled, stack, ended>>
  BY DEF Generate, Fail, Exit
<1>2. stack' = <<>>
  BY <1>1 DEF DeadInv
<1>3. StartCode' = StartCode /\ StartCode \in Seq(DOMAIN ir.funcs)
  BY <1>1, SameProgram, StartCodeTyped
<1>4. Len(StartCode) \in Nat
  BY <1>3
<1>5. \A k \in 1..Len(StartCode) : 0 + k = k
  BY <1>4
<1>6. Progress(0)'
  BY <1>1, <1>2, <1>3, <1>4, <1>5 DEF Progress
<1>7. NothingAhead'
  BY <1>2 DEF NothingAhead
<1>. QED BY <1>6, <1>7 DEF RunInv

LEMMA RunInvBegin ==
  ASSUME RunInv, DeadInv, NamesKnown, FuncsInv, SortInv, Begin
  PROVE  RunInv'
<1>1. /\ pc = "run" /\ stack = <<>> /\ queue # <<>> /\ UNCHANGED <<given, packed, compiled, ended>>
      /\ stack' = << [f |-> Head(queue), at |-> 1] >> /\ queue' = Tail(queue)
  BY DEF Begin
<1>2. PICK n : Progress(n)
  BY <1>1 DEF RunInv
<1>3. queue \in Seq(DOMAIN ir.funcs) /\ StartCode \in Seq(DOMAIN ir.funcs)
  BY <1>1, StartCodeTyped DEF DeadInv, LinkInv
<1>4. /\ Len(StartCode) \in Nat /\ Len(queue) \in Nat /\ Len(queue) # 0
      /\ Head(queue) = queue[1] /\ Len(queue') = Len(queue) - 1
      /\ \A k \in 1..Len(queue)-1 : queue'[k] = queue[k+1]
  <2>. DEFINE D == DOMAIN ir.funcs
  <2>. HIDE DEF D
  <2>1. queue \in Seq(D) /\ StartCode \in Seq(D)
    BY <1>3 DEF D
  <2>. QED BY <1>1, <2>1
<1>. DEFINE l == Len(StartCode)
            q == Len(queue)
<1>5. l \in Nat /\ q \in Nat /\ q # 0 /\ n \in 0..l /\ q = l - n
  BY <1>2, <1>4 DEF Progress
<1>6. stack' # <<>> /\ stack'[1].f = Head(queue) /\ DOMAIN stack' = {1}
  BY <1>1
<1>7. StartCode' = StartCode
  BY <1>1, SameProgram
<1>. HIDE DEF l, q
<1>8. /\ n + 1 \in 0..l /\ q - 1 = l - (n + 1) /\ n + 1 >= 1 /\ 1 \in 1..q
      /\ \A k \in 1..q-1 : k + 1 \in 1..q /\ n + (k + 1) = (n + 1) + k
      /\ \A k \in 1..n+1 : k = n + 1 \/ k \in 1..n
  BY <1>5
<1>9. Head(queue) = StartCode[n+1]
  BY <1>2, <1>4, <1>8 DEF Progress, q
<1>10. \A k \in 1..q-1 : queue'[k] = StartCode[(n+1)+k]
  <2>. SUFFICES ASSUME NEW k \in 1..q-1 PROVE queue'[k] = StartCode[(n+1)+k]
    OBVIOUS
  <2>1. queue'[k] = queue[k+1] /\ queue[k+1] = StartCode[n+(k+1)]
    BY <1>2, <1>4, <1>8 DEF Progress, q
  <2>. QED BY <1>8, <2>1
<1>11. \A k \in 1..n+1 : StartCode[k] \in ended \/ k = n + 1
  BY <1>1, <1>2, <1>8 DEF Progress
<1>12. Progress(n+1)'
  <2>1. Len(queue') = q - 1
    BY <1>4 DEF q
  <2>. QED BY <1>1, <1>6, <1>7, <1>8, <1>9, <1>10, <1>11, <2>1 DEF Progress, l
<1>13. NothingAhead'
  <2>. SUFFICES ASSUME NEW k \in DOMAIN stack' PROVE Due(Of(stack[k].f))'
    BY DEF NothingAhead
  <2>1. k = 1
    BY <1>6
  <2>2. Started' = Of(Head(queue)) /\ (Of(stack[k].f))' = Of(Head(queue))
    BY <1>1, <1>6, <2>1, SameProgram
  <2>3. Head(queue) \in DOMAIN ir.funcs
    BY <1>1, <1>3
  <2>4. Of(Head(queue)) \in ToSet(order)
    BY <1>1, <2>3 DEF FuncsInv, FuncsInOrder
  <2>5. Place(Of(Head(queue))) \in Nat
    BY <2>4, OrderedPlace
  <2>6. Place(Started)' = Place(Of(Head(queue))) /\ (Place(Of(stack[k].f)))' = Place(Of(Head(queue)))
    BY <1>1, <2>2, SameProgram
  <2>. QED BY <2>5, <2>6 DEF Due
<1>. QED BY <1>12, <1>13 DEF RunInv

LEMMA RunInvReturn ==
  ASSUME RunInv, DeadInv, Return
  PROVE  RunInv'
<1>. SUFFICES ASSUME pc' = "run" PROVE RunInv'
  BY DEF RunInv
<1>1. /\ pc = "run" /\ stack # <<>> /\ UNCHANGED <<given, packed, compiled, queue>>
      /\ stack' = Front(stack)
      /\ ended' = IF Len(stack) = 1 THEN ended \cup {Top.f} ELSE ended
  BY DEF Return
<1>2. PICK n : Progress(n)
  BY <1>1 DEF RunInv
<1>3. stack \in Seq(Frames)
  BY <1>1 DEF DeadInv, LinkInv
<1>4. /\ Len(stack) \in Nat /\ Len(stack) # 0 /\ DOMAIN stack = 1..Len(stack)
      /\ Len(stack') = Len(stack) - 1 /\ DOMAIN stack' = 1..Len(stack)-1
      /\ \A k \in 1..Len(stack)-1 : stack'[k] = stack[k]
      /\ stack' = <<>> <=> Len(stack) = 1
  <2>. DEFINE F == Frames
  <2>. HIDE DEF F
  <2>1. stack \in Seq(F)
    BY <1>3 DEF F
  <2>2. Len(stack) \in Nat /\ Len(stack) # 0 /\ DOMAIN stack = 1..Len(stack)
    BY <1>1, <2>1
  <2>3. stack' = SubSeq(stack, 1, Len(stack) - 1)
    BY <1>1 DEF Front
  <2>4. /\ stack' \in Seq(F) /\ Len(stack') = Len(stack) - 1 /\ DOMAIN stack' = 1..Len(stack)-1
        /\ \A k \in 1..Len(stack)-1 : stack'[k] = stack[k]
    BY <2>1, <2>2, <2>3
  <2>5. stack' = <<>> <=> Len(stack') = 0
    BY <2>4
  <2>. QED BY <2>2, <2>4, <2>5
<1>5. StartCode' = StartCode /\ n \in Int
  BY <1>1, <1>2, SameProgram DEF Progress
<1>6. CASE Len(stack) = 1
  <2>1. stack' = <<>> /\ ended' = ended \cup {StartCode[n]}
    BY <1>1, <1>2, <1>6, <1>4 DEF Progress, Top
  <2>2. \A k \in 1..n : StartCode[k] \in ended'
    BY <1>2, <2>1 DEF Progress
  <2>3. Progress(n)'
    BY <1>1, <1>2, <1>5, <2>1, <2>2 DEF Progress
  <2>4. NothingAhead'
    BY <2>1 DEF NothingAhead
  <2>. QED BY <2>3, <2>4 DEF RunInv
<1>7. CASE Len(stack) # 1
  <2>1. 1 \in 1..Len(stack)-1
    BY <1>4, <1>7
  <2>2. stack' # <<>> /\ stack'[1] = stack[1] /\ ended' = ended
    BY <1>1, <1>4, <1>7, <2>1
  <2>3. Progress(n)'
    BY <1>1, <1>2, <1>5, <2>2 DEF Progress
  <2>4. NothingAhead'
    <3>. SUFFICES ASSUME NEW k \in DOMAIN stack' PROVE Due(Of(stack[k].f))'
      BY DEF NothingAhead
    <3>1. k \in DOMAIN stack /\ stack'[k] = stack[k]
      BY <1>4
    <3>2. Started' = Started
      BY <1>1, <2>2, SameProgram DEF Started
    <3>3. Due(Of(stack[k].f))' = Due(Of(stack[k].f))
      BY <1>1, <3>1, <3>2, SameProgram DEF Due
    <3>. QED BY <1>1, <3>1, <3>3 DEF RunInv, NothingAhead
  <2>. QED BY <2>3, <2>4 DEF RunInv
<1>. QED BY <1>6, <1>7

\* The active calls after the innermost one has gone on.
LEMMA AdvancedSame ==
  ASSUME stack \in Seq(Frames), stack # <<>>
  PROVE  /\ Len(stack) \in Nat /\ Len(stack) \in DOMAIN stack
         /\ Len(Advanced) = Len(stack) /\ DOMAIN Advanced = DOMAIN stack /\ DOMAIN stack = 1..Len(stack)
         /\ \A k \in DOMAIN stack : Advanced[k].f = stack[k].f
<1>1. Len(stack) \in Nat /\ Len(stack) # 0 /\ DOMAIN stack = 1..Len(stack) /\ Len(stack) \in DOMAIN stack
  BY DEF Frames
<1>2. stack[Len(stack)] \in Frames
  BY <1>1
<1>3. PICK f, k : stack[Len(stack)] = [f |-> f, at |-> k]
  BY <1>2 DEF Frames
<1>4. Advanced = [stack EXCEPT ![Len(stack)] = [f |-> f, at |-> k + 1]]
  <2>1. Top = [f |-> f, at |-> k]
    BY <1>3 DEF Top
  <2>2. [Top EXCEPT !.at = @ + 1] = [f |-> f, at |-> k + 1]
    BY <2>1
  <2>. QED BY <2>2 DEF Advanced
<1>5. Len(Advanced) = Len(stack) /\ DOMAIN Advanced = DOMAIN stack
  BY <1>1, <1>4
<1>6. \A j \in DOMAIN stack : Advanced[j].f = stack[j].f
  BY <1>1, <1>3, <1>4
<1>. QED BY <1>1, <1>5, <1>6

\* A call goes to a package that is due.
LEMMA CallGoesBack ==
  ASSUME RunInv, DeadInv, NamesKnown, FuncsInv, SortInv, NoCycle, CallsGoBack, Executing,
         NEW name \in ToSet(Callee(Inst)) \cap Names
  PROVE  Due(Of(Named(name)))
<1>1. /\ pc = "run" /\ stack # <<>> /\ stack \in Seq(Frames) /\ FuncsInOrder /\ NothingAhead
  BY DEF Executing, RunInv, DeadInv, LinkInv, FuncsInv
<1>2. /\ Len(stack) \in DOMAIN stack /\ Top = stack[Len(stack)] /\ 1 \in DOMAIN stack
      /\ Top.f \in DOMAIN ir.funcs /\ stack[1].f \in DOMAIN ir.funcs
  <2>1. Len(stack) \in DOMAIN stack /\ 1 \in DOMAIN stack
    BY <1>1
  <2>2. stack[Len(stack)] \in Frames /\ stack[1] \in Frames
    BY <1>1, <2>1
  <2>. QED BY <2>1, <2>2 DEF Top, Frames
<1>3. PICK i \in DOMAIN ir.funcs : ir.funcs[i].name = name /\ Named(name) = i /\ Of(Named(name)) = name[1]
  BY NamedFinds DEF Names, Of
<1>4. name[1] \in ToSet(order) \cap DOMAIN pkgs /\ Of(Top.f) \in ToSet(order) /\ Started \in ToSet(order)
  BY <1>1, <1>2, <1>3 DEF FuncsInOrder, Started
<1>5. /\ Place(name[1]) \in Nat /\ Place(Started) \in Nat
      /\ Place(Of(Top.f)) \in DOMAIN order /\ order[Place(Of(Top.f))] = Of(Top.f) /\ Place(Of(Top.f)) \in Nat
  BY <1>4, OrderedPlace
<1>6. Due(Of(Top.f))
  BY <1>1, <1>2 DEF NothingAhead
<1>7. CASE name[1] = Of(Top.f) \/ Place(name[1]) <= Place(Started) \/ Imports(name[1]) = <<>>
  BY <1>3, <1>6, <1>7 DEF Due
<1>8. CASE name[1] \in ToSet(Imports(Of(Top.f)))
  <2>1. PICK l \in DOMAIN order : l < Place(Of(Top.f)) /\ order[l] = name[1]
    BY <1>4, <1>5, <1>8 DEF SortInv, ImportsFirst
  <2>2. Place(name[1]) = l
    BY <2>1, PlaceFound
  <2>3. Imports(Of(Top.f)) # <<>>
    BY <1>8 DEF ToSet
  <2>4. Place(Of(Top.f)) <= Place(Started)
    BY <1>6, <2>3 DEF Due
  <2>. QED BY <1>3, <1>5, <2>1, <2>2, <2>4 DEF Due
<1>. QED BY <1>7, <1>8 DEF CallsGoBack

LEMMA RunInvCall ==
  ASSUME RunInv, DeadInv, NamesKnown, FuncsInv, SortInv, NoCycle, CallsGoBack, Call
  PROVE  RunInv'
<1>. SUFFICES ASSUME pc' = "run" PROVE RunInv'
  BY DEF RunInv
<1>. DEFINE name == Callee(Inst)[1]
            fr == [f |-> Named(name), at |-> 1]
<1>1. /\ pc = "run" /\ stack # <<>> /\ Executing /\ Callee(Inst) # <<>> /\ name \in Names
      /\ UNCHANGED <<given, packed, compiled, queue, ended>>
      /\ stack' = Append(Advanced, fr)
  BY DEF Call, Executing, Ends, Exit, Goto
<1>2. name \in ToSet(Callee(Inst))
  <2>1. 1 \in DOMAIN Callee(Inst)
    <3>1. \A x : 1 \in DOMAIN <<x>>
      OBVIOUS
    <3>2. Callee(Inst) = <<>> \/ \E x : Callee(Inst) = <<x>>
      BY DEF Callee
    <3>. QED BY <1>1, <3>1, <3>2
  <2>. QED BY <2>1 DEF ToSet
<1>. HIDE DEF name
<1>3. Due(Of(Named(name)))
  BY <1>1, <1>2, CallGoesBack
<1>4. PICK n : Progress(n)
  BY <1>1 DEF RunInv
<1>5. stack \in Seq(Frames) /\ NothingAhead /\ Advanced \in Seq(Frames)
  BY <1>1, AdvancedTyped DEF DeadInv, LinkInv, RunInv
<1>6. /\ Len(stack) \in Nat /\ DOMAIN stack = 1..Len(stack) /\ 1 \in DOMAIN stack
      /\ stack' # <<>> /\ DOMAIN stack' = 1..Len(stack)+1
      /\ \A k \in 1..Len(stack) : stack'[k].f = stack[k].f
      /\ stack'[Len(stack)+1].f = Named(name)
  <2>. DEFINE u == Advanced
              l == Len(stack)
              F == Frames
  <2>1. /\ l \in Nat /\ l \in DOMAIN stack /\ DOMAIN stack = 1..l /\ Len(u) = l /\ DOMAIN u = 1..l
        /\ \A k \in 1..l : u[k].f = stack[k].f
    BY <1>1, <1>5, AdvancedSame
  <2>2. stack' = Append(u, fr) /\ fr.f = Named(name) /\ u \in Seq(F)
    BY <1>1, <1>5
  <2>. HIDE DEF u, l, F, fr
  <2>3. Len(stack') = l + 1 /\ DOMAIN stack' = 1..l+1 /\ stack'[l+1] = fr /\ \A k \in 1..l : stack'[k] = u[k]
    BY <2>1, <2>2
  <2>4. stack' # <<>>
    <3>1. DOMAIN <<>> = {} /\ l + 1 \in 1..l+1
      BY <2>1
    <3>. QED BY <2>3, <3>1
  <2>5. 1 \in 1..l
    BY <2>1
  <2>. QED BY <2>1, <2>2, <2>3, <2>4, <2>5 DEF l
<1>7. Started' = Started
  BY <1>1, <1>6, SameProgram DEF Started
<1>8. Progress(n)'
  <2>1. StartCode' = StartCode /\ stack'[1].f = stack[1].f
    BY <1>1, <1>6, SameProgram
  <2>. QED BY <1>1, <1>4, <1>6, <2>1 DEF Progress
<1>9. NothingAhead'
  <2>. SUFFICES ASSUME NEW k \in DOMAIN stack' PROVE Due(Of(stack[k].f))'
    BY DEF NothingAhead
  <2>1. Due(Of(stack[k].f))' = Due(Of(stack'[k].f))
    BY <1>1, <1>7, SameProgram DEF Due
  <2>2. CASE k \in 1..Len(stack)
    BY <1>5, <1>6, <2>1, <2>2 DEF NothingAhead
  <2>3. CASE k = Len(stack) + 1
    BY <1>3, <1>6, <2>1, <2>3
  <2>4. k \in 1..Len(stack) \/ k = Len(stack) + 1
    <3>1. \A l \in Nat : \A x \in 1..l+1 : x \in 1..l \/ x = l + 1
      OBVIOUS
    <3>. QED BY <1>6, <3>1
  <2>. QED BY <2>2, <2>3, <2>4
<1>. QED BY <1>8, <1>9 DEF RunInv

LEMMA RunInvAdvance ==
  ASSUME RunInv, DeadInv, CallLost \/ Other
  PROVE  RunInv'
<1>. SUFFICES ASSUME pc' = "run" PROVE RunInv'
  BY DEF RunInv
<1>1. /\ pc = "run" /\ stack # <<>> /\ UNCHANGED <<given, packed, compiled, queue, ended>>
      /\ stack' = Advanced
  BY DEF CallLost, Other, Executing, Ends, Exit, Goto
<1>2. stack \in Seq(Frames)
  BY <1>1 DEF DeadInv, LinkInv
<1>3. DOMAIN stack' = DOMAIN stack /\ (\A k \in DOMAIN stack : stack'[k].f = stack[k].f) /\ Len(stack) \in DOMAIN stack
  BY <1>1, <1>2, AdvancedSame
<1>4. stack' # <<>>
  <2>1. DOMAIN <<>> = {}
    OBVIOUS
  <2>. QED BY <1>3, <2>1
<1>. QED BY <1>1, <1>3, <1>4, SameProgress

LEMMA RunInvInit == Init => RunInv
BY DEF Init, RunInv

LEMMA RunInvNext ==
  RunInv /\ DeadInv /\ NamesKnown /\ FuncsInv /\ SortInv /\ NoCycle /\ CallsGoBack /\ [Next]_vars => RunInv'
<1>. SUFFICES ASSUME RunInv, DeadInv, NamesKnown, FuncsInv, SortInv, NoCycle, CallsGoBack, [Next]_vars PROVE RunInv'
  OBVIOUS
<1>1. CASE UNCHANGED vars \/ Stopped
  <2>1. UNCHANGED <<given, packed, compiled, queue, ended, stack, pc>>
    BY <1>1 DEF vars, running, Stopped
  <2>2. CASE pc = "run"
    BY <2>1, <2>2, SameProgress
  <2>3. CASE pc # "run"
    BY <2>1, <2>3 DEF RunInv
  <2>. QED BY <2>2, <2>3
<1>2. CASE ParseOption \/ ReadInput \/ Start \/ FindBase \/ ReadEntry \/ ResolveImport \/ Resolved
  <2>1. pc' # "run"
    BY <1>2 DEF ParseOption, ReadInput, Start, FindBase, ReadEntry, ResolveImport, Resolved, Exit, Fail, Goto
  <2>. QED BY <2>1 DEF RunInv
<1>3. CASE Sort \/ visit \/ Validate \/ Compile \/ Mark \/ Sweep \/ NoMain
  <2>1. pc' # "run"
    BY <1>3 DEF Sort, visit, Validate, Compile, Mark, Sweep, NoMain, Exit, Fail, Goto
  <2>. QED BY <2>1 DEF RunInv
<1>. QED
  BY <1>1, <1>2, <1>3, RunInvGenerate, RunInvBegin, RunInvReturn, RunInvCall, RunInvAdvance DEF Next

\* The packages that come before p, and p.
UpTo(p) == {p} \cup {r \in ToSet(order) : Place(r) < Place(p)}

\* A set that has p and what its members import has all p imports.
LEMMA WithImportsWithin ==
  ASSUME PathsInv, NEW B, NEW p \in B, \A r \in B : ToSet(Imports(r)) \cap DOMAIN pkgs \subseteq B
  PROVE  WithImports({p}) \subseteq B
<1>. DEFINE n == Cardinality(DOMAIN pkgs)
            More(S) == S \cup ((UNION {ToSet(Imports(q)) : q \in S}) \cap DOMAIN pkgs)
            Rec(g) == g = [k \in 0..n |->
                             IF k = 0 THEN {p} ELSE g[k-1] \cup ((UNION {ToSet(Imports(q)) : q \in g[k-1]}) \cap DOMAIN pkgs)]
            upTo == CHOOSE g : Rec(g)
            X == SUBSET ({p} \cup DOMAIN pkgs)
            a == {p}
            step == [k \in 1..n |-> [S \in X |-> More(S)]]
<1>1. n \in Nat
  BY FS_CardinalityType DEF PathsInv
<1>2. WithImports({p}) = upTo[n]
  BY DEF WithImports
<1>3. step \in [1..n -> [X -> X]] /\ a \in X /\ \A k \in 1..n : \A S \in X : step[k][S] = More(S)
  OBVIOUS
<1>4. \E g : Rec(g)
  <2>1. PICK g \in [0..n -> X] : IsRecursion(g, n, a, step)
    <3>. HIDE DEF n, X, a, step
    <3>. QED BY <1>1, <1>3, IntervalRecursion
  <2>2. \A k \in 1..n : g[k] = More(g[k-1])
    <3>. HIDE DEF X, step, More
    <3>1. \A k \in 1..n : k - 1 \in 0..n
      BY <1>1
    <3>. QED BY <1>3, <2>1, <3>1 DEF IsRecursion
  <2>3. \A k \in 0..n : g[k] = IF k = 0 THEN {p} ELSE More(g[k-1])
    <3>1. \A k \in 0..n : k = 0 \/ (k \in 1..n /\ k # 0)
      BY <1>1
    <3>. HIDE DEF More
    <3>. QED BY <2>1, <2>2, <3>1 DEF IsRecursion
  <2>4. Rec(g)
    BY <2>3
  <2>. QED BY <2>4
<1>5. Rec(upTo)
  BY <1>4
<1>6. upTo[0] = {p} /\ \A k \in 1..n : upTo[k] = More(upTo[k-1])
  <2>1. \A k \in 1..n : k \in 0..n /\ k # 0
    BY <1>1
  <2>2. 0 \in 0..n
    BY <1>1
  <2>. QED BY <1>5, <2>1, <2>2
<1>7. \A S : S \subseteq B => More(S) \subseteq B
  OBVIOUS
<1>. HIDE DEF n, More, upTo
<1>. DEFINE Done == {k \in 0..n : upTo[k] \subseteq B}
<1>8. 0 \in Done
  BY <1>1, <1>6
<1>9. ASSUME NEW k \in 0..n-1, k \in Done PROVE k + 1 \in Done
  <2>1. k + 1 \in 1..n /\ k + 1 \in 0..n /\ (k + 1) - 1 = k
    BY <1>1
  <2>2. upTo[k+1] = More(upTo[k])
    BY <1>6, <2>1
  <2>. QED BY <1>7, <1>9, <2>1, <2>2
<1>10. n \in Done
  <2>. HIDE DEF Done
  <2>1. \A k \in 0..n : k \in Done
    BY <1>1, <1>8, <1>9, IntervalSetInduction
  <2>. QED BY <1>1, <2>1
<1>. QED BY <1>2, <1>10

\* What is imported, directly or not, comes before what imports it.
LEMMA WithImportsBefore ==
  ASSUME SortInv, PathsInv, NoCycle, NEW p \in ToSet(order)
  PROVE  WithImports({p}) \subseteq UpTo(p)
<1>1. ASSUME NEW r \in UpTo(p), NEW q \in ToSet(Imports(r)) \cap DOMAIN pkgs PROVE q \in UpTo(p)
  <2>1. r \in ToSet(order) /\ (r = p \/ Place(r) < Place(p))
    BY DEF UpTo
  <2>2. Place(r) \in DOMAIN order /\ order[Place(r)] = r /\ Place(r) \in Nat /\ Place(p) \in Nat
    BY <2>1, OrderedPlace
  <2>3. PICK l \in DOMAIN order : l < Place(r) /\ order[l] = q
    BY <1>1, <2>2 DEF SortInv, ImportsFirst
  <2>4. Place(q) = l /\ l \in Nat /\ q \in ToSet(order)
    BY <2>3, PlaceFound
  <2>5. Place(q) < Place(p)
    BY <2>1, <2>2, <2>3, <2>4
  <2>. QED BY <2>4, <2>5 DEF UpTo
<1>2. p \in UpTo(p)
  BY DEF UpTo
<1>. QED BY <1>1, <1>2, WithImportsWithin

\* A package without imports waits for none.
LEMMA BelowNothing ==
  ASSUME PathsInv, NEW p, Imports(p) = <<>>
  PROVE  Below(p) = {}
<1>1. ToSet(Imports(p)) = {}
  BY DEF ToSet
<1>2. \A r \in {p} : ToSet(Imports(r)) \cap DOMAIN pkgs \subseteq {p}
  BY <1>1
<1>3. WithImports({p}) \subseteq {p}
  BY <1>2, WithImportsWithin
<1>. QED BY <1>3 DEF Below

LEMMA BelowPlace ==
  ASSUME SortInv, PathsInv, NoCycle, NEW p \in ToSet(order), NEW q \in Below(p)
  PROVE  Place(q) < Place(p)
<1>1. q \in WithImports({p}) /\ q # p
  BY DEF Below
<1>2. q \in UpTo(p)
  BY <1>1, WithImportsBefore
<1>. QED BY <1>1, <1>2 DEF UpTo

\* At any time of the program's run, whatever it has called.
LEMMA InitialisersReturned ==
  ASSUME SortInv, PathsInv, NoCycle, FuncsInv, DeadInv, NamesKnown, RunInv
  PROVE  InitsInOrder
<1>. SUFFICES ASSUME pc = "run", NEW k \in DOMAIN stack, NEW i \in DOMAIN ir.funcs,
                     isInitFunc(ir.funcs[i].name), ir.funcs[i].name[1] \in Below(ir.funcs[stack[k].f].name[1])
              PROVE  i \in ended
  BY DEF InitsInOrder
<1>1. FuncsInOrder /\ NothingAhead /\ stack \in Seq(Frames)
  BY DEF FuncsInv, RunInv, DeadInv, LinkInv
<1>2. PICK n : Progress(n)
  BY DEF RunInv
<1>3. 1 \in DOMAIN stack /\ stack # <<>> /\ stack[k].f \in DOMAIN ir.funcs /\ stack[1].f \in DOMAIN ir.funcs
  <2>1. 1 \in DOMAIN stack /\ stack # <<>>
    <3>. DEFINE F == Frames
    <3>. HIDE DEF F
    <3>1. stack \in Seq(F)
      BY <1>1 DEF F
    <3>. QED BY <3>1
  <2>2. stack[k] \in Frames /\ stack[1] \in Frames
    BY <1>1, <2>1
  <2>. QED BY <2>1, <2>2 DEF Frames
<1>4. /\ n >= 1 /\ stack[1].f = StartCode[n] /\ n \in 0..Len(StartCode)
      /\ \A m \in 1..n : m # n => StartCode[m] \in ended
  BY <1>2, <1>3 DEF Progress
<1>5. StartCode \in Seq(DOMAIN ir.funcs) /\ n \in DOMAIN StartCode /\ Len(StartCode) \in Nat /\ DOMAIN StartCode = 1..Len(StartCode)
  <2>. DEFINE D == DOMAIN ir.funcs
  <2>1. StartCode \in Seq(D)
    BY StartCodeTyped
  <2>. HIDE DEF D
  <2>2. Len(StartCode) \in Nat /\ DOMAIN StartCode = 1..Len(StartCode)
    BY <2>1
  <2>3. n \in DOMAIN StartCode
    BY <1>4, <2>2
  <2>. QED BY <2>1, <2>2, <2>3 DEF D
<1>. DEFINE s == StartCode[n]
<1>6. s \in DOMAIN ir.funcs /\ s = stack[1].f /\ Started = Of(s)
  BY <1>3, <1>4 DEF Started
<1>7. Place(Of(i)) < Place(Of(s))
  <2>1. Of(stack[k].f) \in ToSet(order) /\ Of(i) \in ToSet(order) /\ Of(s) \in ToSet(order)
    BY <1>1, <1>3, <1>6 DEF FuncsInOrder
  <2>2. Place(Of(stack[k].f)) \in Nat /\ Place(Of(i)) \in Nat /\ Place(Of(s)) \in Nat
    BY <2>1, OrderedPlace
  <2>3. Place(Of(i)) < Place(Of(stack[k].f))
    BY <2>1, BelowPlace DEF Of
  <2>4. Place(Of(stack[k].f)) <= Place(Of(s))
    <3>1. Imports(Of(stack[k].f)) # <<>>
      BY <2>1, BelowNothing DEF Of
    <3>. QED BY <1>1, <1>6, <3>1 DEF NothingAhead, Due
  <2>. HIDE DEF s
  <2>. QED BY <2>2, <2>3, <2>4
<1>8. i < s
  <2>1. i \in Int /\ s \in Int
    BY <1>6, SequenceDomain DEF NamesKnown
  <2>2. Place(Of(i)) \in Nat /\ Place(Of(s)) \in Nat
    BY <1>1, <1>6, OrderedPlace DEF FuncsInOrder
  <2>3. s < i => Place(Of(s)) <= Place(Of(i))
    BY <1>1, <1>6 DEF FuncsInOrder
  <2>4. s = i => Place(Of(s)) = Place(Of(i))
    OBVIOUS
  <2>. HIDE DEF s
  <2>. QED BY <1>7, <2>1, <2>2, <2>3, <2>4
<1>9. PICK m \in DOMAIN StartCode : m < n /\ StartCode[m] = i
  BY <1>5, <1>8, StartCodeOrder DEF StartsInOrder
<1>10. m \in 1..n /\ m # n
  BY <1>4, <1>5, <1>9
<1>. QED BY <1>4, <1>9, <1>10

\* topologicalSort puts each package out once, whatever packages import each
\* other, and after all it imports where none import each other, whatever package
\* it starts from (frontend.go).
THEOREM ImportsComeFirst == Spec /\ []PackagesAreLists => [](OnceEach /\ (NoCycle => ImportsFirst))
<1>1. SortInv => OnceEach /\ (NoCycle => ImportsFirst)
  BY DEF SortInv
<1>. QED BY <1>1, SortInvInit, SortInvNext, PTL DEF Spec

\* No function of a package is executed before the initialisers of all it
\* imports have returned, for every program without a cycle of imports, every
\* target and every way of starting it: the order of topologicalSort, compiled,
\* swept and started (frontend.go, ir.go, dce.go, the backends' start code).
\* Linkable says what calls may do: no two functions have one name, and a call
\* that no import stands for goes back in the order or to a package that imports
\* nothing.  That is the runtime, and a package that does not import it may run
\* before its initialisers.
THEOREM InitialisersComeFirst == Spec /\ []Linkable /\ []NoCycle => []InitsInOrder
<1>. DEFINE Inv == SortInv /\ PathsInv /\ DeadInv /\ FuncsInv /\ RunInv
<1>1. Init => Inv
  BY SortInvInit, PathsInvInit, DeadInvInit, FuncsInvInit, RunInvInit
<1>2. Linkable => NamesKnown /\ CallsGoBack /\ PackagesAreLists
  BY DEF Linkable
<1>3. Inv /\ NamesKnown /\ NamesKnown' /\ CallsGoBack /\ PackagesAreLists /\ NoCycle /\ [Next]_vars => Inv'
  BY SortInvNext, PathsInvNext, DeadInvNext, FuncsInvNext, RunInvNext
<1>4. Inv /\ NamesKnown /\ NoCycle => InitsInOrder
  BY InitialisersReturned
<1>. HIDE DEF Inv
<1>. QED BY <1>1, <1>2, <1>3, <1>4, PTL DEF Spec

-----------------------------------------------------------------------------
(* The names of functions.                                                 *)

\* A package declares no function twice; one with several functions init does.
OnceDeclared(pkg) ==
  LET funcs == FuncDecls(pkg)
  IN  \A j, k \in DOMAIN funcs :
        /\ QualName(pkg, funcs[j]) # <<pkg.path, "init$globals">>
        /\ QualName(pkg, funcs[j]) = QualName(pkg, funcs[k]) => j = k

DeclaredOnce == pc = "compile" => \A p \in DOMAIN pkgs : OnceDeclared(pkgs[p])

DistinctNames(s) == \A j, k \in DOMAIN s : s[j].name = s[k].name => j = k

LEMMA CompiledOnce ==
  ASSUME NEW i, NEW pkg, IsSequence(FuncDecls(pkg)), OnceDeclared(pkg)
  PROVE  DistinctNames(compilePackage(i, pkg))
<1>. DEFINE funcs == FuncDecls(pkg)
            own == [k \in DOMAIN funcs |-> compileFunc(i, pkg, funcs[k])]
            inits == compileGlobalInits(i, pkg)
            E == ToSet(own) \cup ToSet(inits)
            c == compilePackage(i, pkg)
<1>1. Len(funcs) \in Nat /\ DOMAIN funcs = 1..Len(funcs)
  BY SequenceDomain
<1>2. /\ \A k \in DOMAIN own : own[k].name # <<pkg.path, "init$globals">>
      /\ \A j, k \in DOMAIN own : own[j].name = own[k].name => j = k
  <2>1. \A k \in DOMAIN own : k \in DOMAIN funcs /\ own[k].name = QualName(pkg, funcs[k])
    BY DEF compileFunc
  <2>2. \A k \in DOMAIN funcs : QualName(pkg, funcs[k]) # <<pkg.path, "init$globals">>
    BY DEF OnceDeclared
  <2>3. \A j, k \in DOMAIN funcs : QualName(pkg, funcs[j]) = QualName(pkg, funcs[k]) => j = k
    BY DEF OnceDeclared
  <2>. HIDE DEF own, funcs
  <2>. QED BY <2>1, <2>2, <2>3
<1>3. inits = <<>> \/ \E d : inits = << [name |-> <<pkg.path, "init$globals">>, code |-> d] >>
  BY DEF compileGlobalInits
<1>4. Len(inits) \in {0, 1} /\ DOMAIN inits = 1..Len(inits) /\ \A k \in DOMAIN inits : inits[k].name = <<pkg.path, "init$globals">>
  <2>1. CASE inits = <<>>
    BY <2>1
  <2>2. CASE inits # <<>>
    <3>1. PICK d : inits = << [name |-> <<pkg.path, "init$globals">>, code |-> d] >>
      BY <1>3, <2>2
    <3>. HIDE DEF inits
    <3>2. Len(inits) = 1 /\ DOMAIN inits = 1..1 /\ inits[1].name = <<pkg.path, "init$globals">>
      BY <3>1
    <3>. QED BY <3>2
  <2>. QED BY <2>1, <2>2
<1>5. own \in Seq(ToSet(own)) /\ inits \in Seq(ToSet(inits))
  <2>1. own \in [1..Len(funcs) -> ToSet(own)]
    BY <1>1 DEF ToSet
  <2>2. inits = <<>> \/ \E x : inits = <<x>> /\ x \in ToSet(inits)
    <3>1. \A x : x \in ToSet(<<x>>)
      BY DEF ToSet
    <3>. HIDE DEF inits
    <3>. QED BY <1>3, <3>1
  <2>. HIDE DEF own, funcs, inits
  <2>3. inits \in Seq(ToSet(inits))
    <3>1. \A S : <<>> \in Seq(S)
      OBVIOUS
    <3>2. \A S : \A x \in S : <<x>> \in Seq(S)
      OBVIOUS
    <3>. QED BY <2>2, <3>1, <3>2
  <2>. QED BY <1>1, <2>1, <2>3
<1>6. c = inits \o own
  BY DEF compilePackage
<1>. HIDE DEF own, inits, c, funcs
<1>7. inits \in Seq(E) /\ own \in Seq(E)
  <2>1. \A X, Y : X \subseteq Y => Seq(X) \subseteq Seq(Y)
    OBVIOUS
  <2>. QED BY <1>5, <2>1
<1>. HIDE DEF E
<1>. DEFINE l == Len(inits)
            m == Len(own)
<1>8. /\ l \in Nat /\ m \in Nat /\ DOMAIN own = 1..m /\ DOMAIN inits = 1..l /\ DOMAIN c = 1..l+m
      /\ \A k \in 1..l : c[k] = inits[k]
      /\ \A k \in 1..m : c[l+k] = own[k]
  BY <1>6, <1>7
<1>9. l <= 1
  BY <1>4
<1>. HIDE DEF l, m
<1>10. \A k \in 1..l+m : (k = 1 /\ k \in 1..l) \/ (k - l \in 1..m /\ l + (k - l) = k)
  BY <1>8, <1>9
<1>11. \A k \in 1..l+m : \/ k = 1 /\ c[k].name = <<pkg.path, "init$globals">>
                         \/ k - l \in DOMAIN own /\ c[k] = own[k-l]
  <2>1. \A k \in 1..l : c[k].name = <<pkg.path, "init$globals">>
    BY <1>4, <1>8
  <2>2. \A k \in 1..l+m : k - l \in 1..m => c[k] = own[k-l]
    BY <1>8, <1>10
  <2>. QED BY <1>8, <1>10, <2>1, <2>2
<1>12. ASSUME NEW j \in 1..l+m, NEW k \in 1..l+m, c[j].name = c[k].name PROVE j = k
  <2>1. CASE j = 1 /\ k = 1
    BY <2>1
  <2>2. CASE (k - l \in DOMAIN own /\ c[k] = own[k-l]) /\ (j - l \in DOMAIN own /\ c[j] = own[j-l])
    <3>1. j - l = k - l
      BY <1>2, <1>12, <2>2
    <3>. QED BY <1>8, <3>1
  <2>. QED BY <1>2, <1>11, <1>12, <2>1, <2>2
<1>13. DistinctNames(c)
  BY <1>8, <1>12 DEF DistinctNames
<1>. QED BY <1>13 DEF c

\* What the compiler holds of functions, at any time.
NamesInv == "funcs" \in DOMAIN ir /\ (\E E : ir.funcs \in Seq(E)) /\ NamesUnique

LEMMA NamesInvInit == Init => NamesInv
<1>. SUFFICES ASSUME Init PROVE NamesInv
  OBVIOUS
<1>1. ir = [funcs |-> <<>>, globals |-> <<>>]
  BY DEF Init
<1>. QED BY <1>1 DEF NamesInv, NamesUnique

LEMMA SameNames == ASSUME NamesInv, UNCHANGED ir PROVE NamesInv'
BY DEF NamesInv, NamesUnique

LEMMA NamesInvCompile ==
  ASSUME NamesInv, SortInv, PathsInv, PackagesAreLists, DeclaredOnce, Compile
  PROVE  NamesInv'
<1>1. pc = "compile"
  BY DEF Compile
<1>2. CASE CompileErrors # {}
  BY <1>2, SameNames DEF Compile
<1>3. CASE CompileErrors = {}
  <2>1. ir' = CompileModule
    BY <1>3 DEF Compile
  <2>2. PICK funcs : funcs = CompileModule.funcs
    OBVIOUS
  <2>3. "funcs" \in DOMAIN ir' /\ ir'.funcs = funcs
    BY <2>1, <2>2 DEF CompileModule
  <2>. DEFINE l == Len(Found)
  <2>4. /\ l \in Nat /\ DOMAIN Found = 1..l
        /\ \A x \in 1..l : Found[x] \in ToSet(order) \cap DOMAIN pkgs
        /\ \A x, y \in 1..l : x < y => Place(Found[x]) < Place(Found[y])
    BY FoundInOrder
  <2>5. /\ \E E : Blocked(E, Compiled, funcs, l)
        /\ \A x \in 1..l : \A f \in ToSet(Compiled[x]) : f.name[1] = Found[x]
    BY <1>1, <2>2, CompiledBlocks
  <2>6. \A x \in 1..l : DistinctNames(Compiled[x])
    <3>. SUFFICES ASSUME NEW x \in 1..l PROVE DistinctNames(Compiled[x])
      OBVIOUS
    <3>1. Found[x] \in DOMAIN pkgs /\ Compiled[x] = compilePackage(x, pkgs[Found[x]])
      BY <2>4 DEF Compiled
    <3>2. IsSequence(FuncDecls(pkgs[Found[x]])) /\ OnceDeclared(pkgs[Found[x]])
      BY <1>1, <3>1 DEF PackagesAreLists, DeclaredOnce
    <3>. QED BY <3>1, <3>2, CompiledOnce
  <2>. HIDE DEF l
  <2>7. PICK b \in [1..Len(funcs) -> Nat], o \in [1..Len(funcs) -> Nat] : Blocks(Compiled, funcs, b, o, l)
    BY <2>5 DEF Blocked
  <2>8. Len(funcs) \in Nat /\ DOMAIN funcs = 1..Len(funcs) /\ \E E : funcs \in Seq(E)
    BY <2>5 DEF Blocked
  <2>9. ASSUME NEW i \in DOMAIN funcs
        PROVE  /\ b[i] \in 1..l /\ funcs[i].name[1] = Found[b[i]]
               /\ o[i] \in DOMAIN Compiled[b[i]] /\ funcs[i] = Compiled[b[i]][o[i]] /\ o[i] \in Nat
    <3>1. b[i] \in 1..l /\ o[i] \in DOMAIN Compiled[b[i]] /\ funcs[i] = Compiled[b[i]][o[i]] /\ o[i] \in Nat
      BY <2>7, <2>8 DEF Blocks
    <3>2. funcs[i] \in ToSet(Compiled[b[i]])
      BY <3>1 DEF ToSet
    <3>. QED BY <2>5, <3>1, <3>2
  <2>10. ASSUME NEW i \in DOMAIN funcs, NEW j \in DOMAIN funcs, i < j, funcs[i].name = funcs[j].name PROVE FALSE
    <3>1. b[i] <= b[j] /\ (b[i] = b[j] => o[i] < o[j])
      BY <2>7, <2>8, <2>10 DEF Blocks
    <3>2. b[i] \in 1..l /\ b[j] \in 1..l /\ Found[b[i]] = Found[b[j]]
      BY <2>9, <2>10
    <3>3. b[i] = b[j]
      <4>1. ~(b[i] < b[j])
        <5>1. Place(Found[b[i]]) \in Nat
          BY <2>4, <3>2, OrderedPlace
        <5>. QED BY <2>4, <3>2, <5>1
      <4>. QED BY <2>4, <3>1, <3>2, <4>1
    <3>4. o[i] = o[j]
      BY <2>6, <2>9, <2>10, <3>2, <3>3 DEF DistinctNames
    <3>. QED BY <2>9, <3>1, <3>3, <3>4
  <2>11. \A i, j \in DOMAIN funcs : funcs[i].name = funcs[j].name => i = j
    <3>1. \A i, j \in DOMAIN funcs : i < j \/ j < i \/ i = j
      BY <2>8
    <3>. QED BY <2>10, <3>1
  <2>. QED BY <2>3, <2>8, <2>11 DEF NamesInv, NamesUnique
<1>. QED BY <1>2, <1>3

LEMMA NamesInvSweep ==
  ASSUME NamesInv, Sweep
  PROVE  NamesInv'
<1>. DEFINE I == {i \in DOMAIN ir.funcs : ir.funcs[i].name \in reach}
            s == ir.funcs
            t == ir'.funcs
<1>1. t = Kept(s, I) /\ "funcs" \in DOMAIN ir'
  <2>1. ir' = [ir EXCEPT !.funcs = Kept(ir.funcs, I)]
    BY DEF Sweep
  <2>2. "funcs" \in DOMAIN ir
    BY DEF NamesInv
  <2>. HIDE DEF I
  <2>. QED BY <2>1, <2>2
<1>2. PICK E : s \in Seq(E)
  BY DEF NamesInv
<1>. HIDE DEF I
<1>3. t \in Seq(E) /\ \E e \in [1..Len(t) -> Nat] : Embeds(s, I, t, e, Len(s))
  BY <1>1, <1>2, KeptInOrder
<1>4. PICK e \in [1..Len(t) -> Nat] : Embeds(s, I, t, e, Len(s))
  BY <1>3
<1>5. Len(t) \in Nat /\ DOMAIN t = 1..Len(t) /\ DOMAIN s = 1..Len(s)
  BY <1>2, <1>3
<1>6. \A i \in DOMAIN t : e[i] \in DOMAIN s /\ t[i] = s[e[i]] /\ e[i] \in Nat
  BY <1>4, <1>5 DEF Embeds
<1>7. \A i, j \in DOMAIN t : i < j => e[i] < e[j]
  BY <1>4, <1>5 DEF Embeds
<1>8. ASSUME NEW i \in DOMAIN t, NEW j \in DOMAIN t, t[i].name = t[j].name PROVE i = j
  <2>1. e[i] = e[j]
    BY <1>6, <1>8 DEF NamesInv, NamesUnique
  <2>2. ~(i < j) /\ ~(j < i)
    BY <1>6, <1>7, <2>1
  <2>. QED BY <1>5, <2>2
<1>. QED BY <1>1, <1>3, <1>8 DEF NamesInv, NamesUnique

LEMMA NamesInvNext ==
  NamesInv /\ SortInv /\ PathsInv /\ PackagesAreLists /\ DeclaredOnce /\ [Next]_vars => NamesInv'
<1>. SUFFICES ASSUME NamesInv, SortInv, PathsInv, PackagesAreLists, DeclaredOnce, [Next]_vars PROVE NamesInv'
  OBVIOUS
<1>1. CASE UNCHANGED vars \/ Stopped
  BY <1>1, SameNames DEF vars, compiled, Stopped
<1>2. CASE ParseOption \/ ReadInput \/ Start \/ FindBase \/ ReadEntry \/ ResolveImport \/ Resolved \/ Sort \/ visit \/ Validate
  <2>1. UNCHANGED compiled
    BY <1>2 DEF ParseOption, ReadInput, Start, FindBase, ReadEntry, ResolveImport, Resolved, Sort, visit, Validate
  <2>. QED BY <2>1, SameNames DEF compiled
<1>3. CASE Mark
  BY <1>3, SameNames DEF Mark
<1>4. CASE Generate \/ Begin \/ Return \/ NoMain \/ Call \/ CallLost \/ Other
  <2>1. UNCHANGED compiled
    BY <1>4 DEF Generate, Begin, Return, NoMain, Call, CallLost, Other
  <2>. QED BY <2>1, SameNames DEF compiled
<1>. QED BY <1>1, <1>2, <1>3, <1>4, NamesInvCompile, NamesInvSweep DEF Next

\* Names tell functions apart in every build whose packages declare nothing
\* twice: no package is compiled twice, whatever packages import each other, and
\* the functions of different packages and the generated initialisers never share
\* a name (qualName and compileGlobalInits of ir.go, topologicalSort).  Packages
\* with an init at most are such; BuildTwoInits has one that is not.
THEOREM NamesStayUnique == Spec /\ []PackagesAreLists /\ []DeclaredOnce => []NamesUnique
<1>. DEFINE Inv == NamesInv /\ SortInv /\ PathsInv
<1>1. Init => Inv
  BY NamesInvInit, SortInvInit, PathsInvInit
<1>2. Inv /\ PackagesAreLists /\ DeclaredOnce /\ [Next]_vars => Inv'
  BY NamesInvNext, SortInvNext, PathsInvNext
<1>3. Inv => NamesUnique
  BY DEF NamesInv
<1>. HIDE DEF Inv
<1>. QED BY <1>1, <1>2, <1>3, PTL DEF Spec
=============================================================================
