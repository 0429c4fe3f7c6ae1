----------------------------- MODULE LoopProofs -----------------------------
(***************************************************************************)
(* Induction over positions, and what loops over a sequence compute.  The  *)
(* provers instantiate no induction theorem that takes a predicate, so     *)
(* these are stated with sets and functions.                               *)
(***************************************************************************)
EXTENDS Loops, FiniteSetTheorems, SequenceTheorems, TLAPS

(* A nonempty set of positions has a first one.                            *)
LEMMA FirstPosition ==
  ASSUME NEW n \in Nat, NEW T \in SUBSET (1..n), T # {}
  PROVE  \E x \in T : \A y \in T : x <= y
<1> DEFINE R == StrictSubsetOrdering(1..n)
           F == {1..i : i \in T}
<1>1. IsWellFoundedOn(R, FiniteSubsetsOf(1..n))
  BY FS_StrictSubsetOrderingWellFounded
<1>2. F \subseteq FiniteSubsetsOf(1..n)
  <2> SUFFICES ASSUME NEW i \in T PROVE 1..i \in FiniteSubsetsOf(1..n)
    OBVIOUS
  <2>1. i \in Int /\ i <= n
    OBVIOUS
  <2>2. IsFiniteSet(1..i)
    BY <2>1, FS_Interval
  <2>3. 1..i \subseteq 1..n
    BY <2>1
  <2> QED BY <2>2, <2>3 DEF FiniteSubsetsOf
<1>3. \E s \in F : \A u \in F : ~ (<<u, s>> \in R)
  <2>1. F # {}
    OBVIOUS
  <2> HIDE DEF R, F
  <2> QED BY <1>1, <1>2, <2>1, WFMin
<1>4. PICK x \in T : \A y \in T : ~ (<<1..y, 1..x>> \in R)
  BY <1>3
<1>5. ASSUME NEW y \in T PROVE x <= y
  <2>1. x \in Nat /\ y \in Nat /\ 1 <= x /\ x <= n /\ y <= n
    OBVIOUS
  <2> SUFFICES ASSUME y < x PROVE FALSE
    BY <2>1
  <2>2. 1..y \subseteq 1..x /\ x \in 1..x /\ x \notin 1..y
    BY <2>1
  <2>3. 1..y \in SUBSET (1..n) /\ 1..x \in SUBSET (1..n)
    BY <2>1
  <2> QED BY <1>4, <2>2, <2>3 DEF StrictSubsetOrdering
<1> QED BY <1>5

(* What holds before a loop, and after each pass of it that it held before *)
(* of, holds throughout.                                                   *)
LEMMA PositionInduction ==
  ASSUME NEW n \in Nat, NEW T, 0 \in T, \A i \in 1..n : i - 1 \in T => i \in T
  PROVE  \A i \in 0..n : i \in T
<1> DEFINE B == {i \in 1..n : i \notin T}
<1>1. CASE B = {}
  BY <1>1
<1>2. CASE B # {}
  <2>1. PICK x \in B : \A y \in B : x <= y
    <3> HIDE DEF B
    <3>1. B \in SUBSET (1..n)
      BY DEF B
    <3> QED BY <1>2, <3>1, FirstPosition
  <2>2. x \in 1..n /\ x \notin T /\ x - 1 \in 0..n
    OBVIOUS
  <2>3. x - 1 \in T
    BY <2>1, <2>2
  <2> QED BY <2>2, <2>3
<1> QED BY <1>1, <1>2

(* f[i] is the state of a loop after i of its n passes.                    *)
IsRun(f, n, start, Body) ==
  f[0] = start /\ \A i \in 1..n : f[i] = Body[<<f[i - 1], i>>]

(* A loop of n passes over a state in S has a run.                         *)
LEMMA LoopRuns ==
  ASSUME NEW n \in Nat, NEW S, NEW start \in S, NEW Body \in [S \X (1..n) -> S]
  PROVE  \E f : f \in [0..n -> S] /\ IsRun(f, n, start, Body)
<1> DEFINE Run(f, k) == f[0] = start /\ \A i \in 1..k : f[i] = Body[<<f[i - 1], i>>]
           T == {k \in 0..n : \E f \in [0..k -> S] : Run(f, k)}
<1>1. 0 \in T
  <2>1. [j \in 0..0 |-> start] \in [0..0 -> S] /\ Run([j \in 0..0 |-> start], 0)
    OBVIOUS
  <2>2. 0 \in 0..n
    OBVIOUS
  <2> QED BY <2>1, <2>2
<1>2. ASSUME NEW k \in 1..n, k - 1 \in T
      PROVE  k \in T
  <2>1. PICK f \in [0..(k - 1) -> S] : Run(f, k - 1)
    BY <1>2
  <2> DEFINE g == [j \in 0..k |-> IF j = k THEN Body[<<f[k - 1], k>>] ELSE f[j]]
  <2>2. f[k - 1] \in S
    OBVIOUS
  <2>3. Body[<<f[k - 1], k>>] \in S
    BY <2>2
  <2>4. g \in [0..k -> S]
    BY <2>3
  <2>5. g[0] = start
    BY <2>1
  <2>6. ASSUME NEW i \in 1..k PROVE g[i] = Body[<<g[i - 1], i>>]
    <3>1. CASE i = k
      <4>1. k - 1 \in 0..k /\ k - 1 # k
        OBVIOUS
      <4> QED BY <3>1, <4>1
    <3>2. CASE i # k
      <4>1. i \in 1..(k - 1) /\ i - 1 \in 0..k /\ i - 1 # k /\ i \in 0..k
        BY <3>2
      <4>2. f[i] = Body[<<f[i - 1], i>>]
        BY <2>1, <4>1
      <4> QED BY <3>2, <4>1, <4>2
    <3> QED BY <3>1, <3>2
  <2>7. Run(g, k)
    BY <2>5, <2>6
  <2> HIDE DEF g
  <2> QED BY <2>4, <2>7
<1>3. n \in T
  <2> HIDE DEF T
  <2>1. \A i \in 0..n : i \in T
    BY <1>1, <1>2, PositionInduction
  <2> QED BY <2>1
<1> QED BY <1>3 DEF IsRun

-----------------------------------------------------------------------------
(* f[i] is what Only has taken of the first i elements.                    *)
Takes(f, s, T) ==
  /\ f[0] = <<>> /\ Only(s, T) = f[Len(s)]
  /\ \A i \in 1..Len(s) : s[i] \in T => f[i] = Append(f[i - 1], s[i])
  /\ \A i \in 1..Len(s) : s[i] \notin T => f[i] = f[i - 1]

(* Only takes the elements one by one.                                     *)
LEMMA OnlyRuns ==
  ASSUME NEW S, NEW s \in Seq(S), NEW T
  PROVE  \E f : f \in [0..Len(s) -> Seq(S \cap T)] /\ Takes(f, s, T)
<1> DEFINE n == Len(s)
           R == Seq(S \cap T)
           Body == [p \in R \X (1..n) |-> IF s[p[2]] \in T THEN Append(p[1], s[p[2]]) ELSE p[1]]
           Step(f, i) == IF s[i] \in T THEN Append(f[i - 1], s[i]) ELSE f[i - 1]
           Unfolds(f) == f = [i \in 0..n |-> IF i = 0 THEN <<>> ELSE Step(f, i)]
<1>1. n \in Nat /\ \A i \in 1..n : s[i] \in S
  OBVIOUS
<1>2. ASSUME NEW r \in R, NEW i \in 1..n
      PROVE  (IF s[i] \in T THEN Append(r, s[i]) ELSE r) \in R
  <2>1. s[i] \in T => s[i] \in S \cap T
    BY <1>1
  <2> QED BY <2>1
<1>3. Body \in [R \X (1..n) -> R]
  BY <1>2
<1>4. <<>> \in R
  OBVIOUS
<1>5. PICK f : f \in [0..n -> R] /\ IsRun(f, n, <<>>, Body)
  <2> HIDE DEF Body, R, n
  <2> QED BY <1>1, <1>3, <1>4, LoopRuns
<1>6. \A i \in 1..n : f[i] = Step(f, i)
  <2> SUFFICES ASSUME NEW i \in 1..n PROVE f[i] = Step(f, i)
    OBVIOUS
  <2>1. f[i - 1] \in R
    <3>1. i - 1 \in 0..n
      BY <1>1
    <3> HIDE DEF R, n, Body
    <3> QED BY <1>5, <3>1
  <2> QED BY <1>5, <2>1 DEF IsRun
<1>7. Unfolds(f)
  <2> HIDE DEF R, n, Step
  <2>1. \A i \in 0..n : i = 0 \/ i \in 1..n
    BY <1>1
  <2>2. \A i \in 0..n : f[i] = IF i = 0 THEN <<>> ELSE Step(f, i)
    BY <1>5, <1>6, <2>1 DEF IsRun
  <2> QED BY <1>5, <2>2
<1> DEFINE g == CHOOSE h : Unfolds(h)
<1>8. Unfolds(g)
  <2> HIDE DEF Unfolds
  <2> QED BY <1>7
<1>9. Only(s, T) = g[n]
  BY DEF Only
<1> HIDE DEF g
<1>10. g[0] = <<>> /\ \A i \in 1..n : g[i] = Step(g, i)
  <2> HIDE DEF n, Step
  <2>1. 0 \in 0..n /\ \A i \in 1..n : i \in 0..n /\ i # 0
    BY <1>1
  <2> QED BY <1>8, <2>1
<1> DEFINE P == {i \in 0..n : g[i] \in R}
<1>11. \A i \in 0..n : i \in P
  <2>1. 0 \in P
    <3>1. 0 \in 0..n
      BY <1>1
    <3> HIDE DEF R
    <3> QED BY <1>4, <1>10, <3>1
  <2>2. ASSUME NEW i \in 1..n, i - 1 \in P PROVE i \in P
    <3>1. g[i - 1] \in R /\ g[i] = Step(g, i) /\ i \in 0..n
      BY <1>1, <1>10, <2>2
    <3>2. Step(g, i) \in R
      <4> HIDE DEF R
      <4> QED BY <1>2, <3>1
    <3> HIDE DEF R, Step
    <3> QED BY <3>1, <3>2
  <2> HIDE DEF P
  <2> QED BY <1>1, <2>1, <2>2, PositionInduction
<1>12. g \in [0..n -> R]
  BY <1>8, <1>11
<1> QED BY <1>9, <1>10, <1>12 DEF Takes

(* It takes nothing that is not in T, and nothing from elsewhere.          *)
LEMMA OnlyType ==
  ASSUME NEW S, NEW s \in Seq(S), NEW T
  PROVE  Only(s, T) \in Seq(S \cap T)
<1>1. PICK f : f \in [0..Len(s) -> Seq(S \cap T)] /\ Takes(f, s, T)
  BY OnlyRuns
<1>2. Len(s) \in 0..Len(s)
  OBVIOUS
<1> QED BY <1>1, <1>2 DEF Takes

(* It takes every element that is in T.                                    *)
LEMMA OnlyTakesAll ==
  ASSUME NEW S, NEW s \in Seq(S), NEW T, NEW k \in 1..Len(s), s[k] \in T
  PROVE  \E j \in 1..Len(Only(s, T)) : Only(s, T)[j] = s[k]
<1> DEFINE n == Len(s)
           R == Seq(S \cap T)
<1>1. PICK f : f \in [0..n -> R] /\ Takes(f, s, T)
  BY OnlyRuns
<1> DEFINE Taken(q) == \E j \in 1..Len(q) : q[j] = s[k]
           P == {i \in 0..n : i >= k => Taken(f[i])}
<1>2. n \in Nat /\ n \in 0..n /\ s[k] \in S \cap T
  OBVIOUS
<1>3. 0 \in P
  BY <1>2
<1>4. ASSUME NEW i \in 1..n, i - 1 \in P PROVE i \in P
  <2>1. f[i - 1] \in R /\ i \in 0..n /\ i - 1 \in 0..n
    BY <1>1, <1>2
  <2>2. CASE i < k
    BY <2>1, <2>2
  <2>3. CASE i = k
    <3>1. f[i] = Append(f[i - 1], s[k])
      BY <1>1, <2>3 DEF Takes
    <3>2. Len(f[i]) = Len(f[i - 1]) + 1 /\ f[i][Len(f[i - 1]) + 1] = s[k]
      BY <1>2, <2>1, <3>1
    <3>3. Len(f[i - 1]) \in Nat
      BY <2>1
    <3>4. Taken(f[i])
      BY <3>2, <3>3
    <3> QED BY <2>1, <3>4
  <2>4. CASE i > k
    <3>1. PICK j \in 1..Len(f[i - 1]) : f[i - 1][j] = s[k]
      BY <1>4, <2>4
    <3>2. CASE s[i] \notin T
      <4>1. f[i] = f[i - 1]
        BY <1>1, <3>2 DEF Takes
      <4> QED BY <2>1, <3>1, <4>1
    <3>3. CASE s[i] \in T
      <4>1. f[i] = Append(f[i - 1], s[i]) /\ s[i] \in S \cap T
        BY <1>1, <3>3 DEF Takes
      <4>2. Len(f[i]) = Len(f[i - 1]) + 1 /\ f[i][j] = f[i - 1][j] /\ Len(f[i - 1]) \in Nat
        BY <2>1, <4>1, AppendProperties
      <4>3. j \in 1..Len(f[i]) /\ f[i][j] = s[k]
        BY <3>1, <4>2
      <4> QED BY <2>1, <4>3
    <3> QED BY <3>2, <3>3
  <2> QED BY <1>2, <2>2, <2>3, <2>4
<1>5. n \in P
  <2> HIDE DEF P
  <2> QED BY <1>2, <1>3, <1>4, PositionInduction
<1> QED BY <1>1, <1>5 DEF Takes

(* It changes nothing when everything is in T.                             *)
LEMMA OnlyIsAll ==
  ASSUME NEW S, NEW s \in Seq(S), NEW T, \A i \in 1..Len(s) : s[i] \in T
  PROVE  Only(s, T) = s
<1> DEFINE n == Len(s)
           R == Seq(S \cap T)
<1>1. PICK f : f \in [0..n -> R] /\ Takes(f, s, T)
  BY OnlyRuns
<1> DEFINE P == {i \in 0..n : Len(f[i]) = i /\ \A j \in 1..i : f[i][j] = s[j]}
<1>2. n \in Nat /\ n \in 0..n
  OBVIOUS
<1>3. 0 \in P
  BY <1>1, <1>2 DEF Takes
<1>4. ASSUME NEW i \in 1..n, i - 1 \in P PROVE i \in P
  <2>1. f[i - 1] \in R /\ i \in 0..n /\ s[i] \in S \cap T
    BY <1>1, <1>2
  <2>2. f[i] = Append(f[i - 1], s[i])
    BY <1>1 DEF Takes
  <2>3. Len(f[i - 1]) = i - 1 /\ \A j \in 1..(i - 1) : f[i - 1][j] = s[j]
    BY <1>4
  <2>4. /\ Len(f[i]) = i /\ f[i][i] = s[i]
        /\ \A j \in 1..(i - 1) : f[i][j] = f[i - 1][j]
    BY <2>1, <2>2, <2>3, AppendProperties
  <2>5. \A j \in 1..i : f[i][j] = s[j]
    BY <2>3, <2>4
  <2> QED BY <2>1, <2>4, <2>5
<1>5. n \in P
  <2> HIDE DEF P
  <2> QED BY <1>2, <1>3, <1>4, PositionInduction
<1>6. f[n] \in Seq(S)
  BY <1>1, <1>2, SeqMonotonic
<1> QED BY <1>1, <1>5, <1>6, SeqEqual DEF Takes
=============================================================================
