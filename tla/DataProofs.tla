------------------------------ MODULE DataProofs ------------------------------
(***************************************************************************)
(* Induction without operator parameters: what is to be shown of all       *)
(* numbers, of all finite sets or of all states of a loop is given as the  *)
(* set of those it holds of.  With it, what the sums and the loops of the  *)
(* models compute.                                                         *)
(***************************************************************************)
EXTENDS Integers, FiniteSets, Functions, FiniteSetTheorems, WellFoundedInduction, TLAPS

-----------------------------------------------------------------------------
(* Induction.                                                              *)

LEMMA LeastNat ==
  ASSUME NEW T, T \subseteq Nat, T # {}
  PROVE  \E n \in T : \A m \in T : n <= m
<1> DEFINE R == OpToRel(<, Nat)
<1>1. IsWellFoundedOn(R, Nat)
  BY NatLessThanWellFounded
<1>2. \A m, n \in Nat : m < n => <<m, n>> \in R
  BY DEF OpToRel
<1> HIDE DEF R
<1>3. PICK n \in T : \A m \in T : ~(<<m, n>> \in R)
  BY <1>1, WFMin
<1>4. \A m \in T : ~(m < n)
  BY <1>2, <1>3
<1> QED
  BY <1>4

LEMMA NatSetInduction ==
  ASSUME NEW T, 0 \in T, \A n \in Nat : n \in T => n + 1 \in T
  PROVE  \A n \in Nat : n \in T
<1> DEFINE C == {n \in Nat : n \notin T}
<1> SUFFICES ASSUME C # {} PROVE FALSE
  OBVIOUS
<1>1. PICK n \in C : \A m \in C : n <= m
  <2>1. C \subseteq Nat
    OBVIOUS
  <2> HIDE DEF C
  <2> QED
    BY <2>1, LeastNat
<1>2. n - 1 \in Nat /\ n - 1 \in T /\ (n - 1) + 1 = n
  BY <1>1
<1> QED
  BY <1>1, <1>2

\* The states of a loop of n rounds: what one round preserves holds of all.
LEMMA LoopInvariant ==
  ASSUME NEW n \in Nat, NEW S, NEW w, w[0] \in S,
         \A i \in 1..n : w[i - 1] \in S => w[i] \in S
  PROVE  \A i \in 0..n : w[i] \in S
<1> DEFINE T == {i \in Nat : i <= n => w[i] \in S}
<1>1. \A i \in Nat : i \in T => i + 1 \in T
  <2> TAKE i \in Nat
  <2> HAVE i \in T
  <2>1. CASE i + 1 <= n
    <3>1. i + 1 \in 1..n /\ (i + 1) - 1 = i /\ w[i] \in S
      BY <2>1
    <3> QED
      BY <3>1
  <2> QED
    BY <2>1
<1>2. \A i \in Nat : i \in T
  <2>1. 0 \in T
    OBVIOUS
  <2> HIDE DEF T
  <2> QED
    BY <1>1, <2>1, NatSetInduction
<1> QED
  BY <1>2

\* A loop of n rounds, each of which makes a state of S from one of S, has
\* a sequence of states.
Rounds(n, S) == [(1..n) \X S -> S]
LoopRuns(n, S, b, step) ==
  {w \in [0..n -> S] : w[0] = b /\ \A i \in 1..n : w[i] = step[<<i, w[i - 1]>>]}
LEMMA LoopExists ==
  ASSUME NEW n \in Nat, NEW S, NEW b \in S, NEW step \in Rounds(n, S)
  PROVE  LoopRuns(n, S, b, step) # {}
<1>0. step \in [(1..n) \X S -> S]
  BY DEF Rounds
<1> DEFINE Loop(k, w) == /\ w \in [0..k -> S] /\ w[0] = b
                         /\ \A i \in 1..k : w[i] = step[<<i, w[i - 1]>>]
           T == {k \in Nat : k <= n => \E w : Loop(k, w)}
<1>1. 0 \in T
  <2>1. Loop(0, [i \in 0..0 |-> b])
    OBVIOUS
  <2> QED
    BY <2>1
<1>2. \A k \in Nat : k \in T => k + 1 \in T
  <2> TAKE k \in Nat
  <2> HAVE k \in T
  <2> SUFFICES ASSUME k + 1 <= n PROVE \E w : Loop(k + 1, w)
    OBVIOUS
  <2>1. PICK v : Loop(k, v)
    OBVIOUS
  <2> DEFINE w == [i \in 0..(k + 1) |-> IF i = k + 1 THEN step[<<k + 1, v[k]>>] ELSE v[i]]
  <2>2. step[<<k + 1, v[k]>>] \in S
    <3>1. k + 1 \in 1..n /\ v[k] \in S
      BY <2>1
    <3> QED
      BY <1>0, <3>1
  <2>3. w \in [0..(k + 1) -> S] /\ w[0] = b
    BY <2>1, <2>2
  <2>4. ASSUME NEW i \in 1..(k + 1) PROVE w[i] = step[<<i, w[i - 1]>>]
    <3>1. CASE i = k + 1
      <4>1. k + 1 \in 0..(k + 1) /\ k \in 0..(k + 1) /\ k # k + 1 /\ (k + 1) - 1 = k
        OBVIOUS
      <4>2. w[k + 1] = step[<<k + 1, v[k]>>] /\ w[k] = v[k]
        BY <4>1
      <4> HIDE DEF w
      <4> QED
        BY <3>1, <4>1, <4>2
    <3>2. CASE i # k + 1
      <4>1. i \in 1..k /\ i - 1 \in 0..k /\ i - 1 # k + 1 /\ i - 1 \in 0..(k + 1) /\ i \in 0..(k + 1)
        BY <3>2
      <4>2. w[i] = v[i] /\ w[i - 1] = v[i - 1]
        BY <3>2, <4>1
      <4> QED
        BY <2>1, <4>1, <4>2
    <3> QED
      BY <3>1, <3>2
  <2> QED
    BY <2>3, <2>4
<1>3. \A k \in Nat : k \in T
  <2> HIDE DEF T
  <2> QED
    BY <1>1, <1>2, NatSetInduction
<1>4. PICK w : Loop(n, w)
  BY <1>3
<1> QED
  BY <1>4 DEF LoopRuns

\* What every subset has if it has it whenever all sets with one element less do.
LEMMA FiniteSetInduction ==
  ASSUME NEW S, IsFiniteSet(S), NEW T, {} \in T,
         \A A \in SUBSET S : A # {} /\ (\A x \in A : A \ {x} \in T) => A \in T
  PROVE  \A A \in SUBSET S : A \in T
<1> DEFINE C == {A \in SUBSET S : A \notin T}
           R == StrictSubsetOrdering(S)
<1> SUFFICES ASSUME C # {} PROVE FALSE
  OBVIOUS
<1>1. C \subseteq SUBSET S
  OBVIOUS
<1>2. IsWellFoundedOn(R, SUBSET S)
  BY FS_StrictSubsetOrderingWellFounded, FS_FiniteSubsetsOfFinite
<1>3. \A A, B \in SUBSET S : B \subseteq A /\ B # A => <<B, A>> \in R
  BY DEF StrictSubsetOrdering
<1> HIDE DEF C, R
<1>4. PICK A \in C : \A B \in C : ~(<<B, A>> \in R)
  BY <1>1, <1>2, WFMin
<1>5. A \in SUBSET S /\ A # {} /\ A \notin T
  BY <1>4 DEF C
<1>6. ASSUME NEW x \in A PROVE A \ {x} \in T
  <2>1. A \ {x} \in SUBSET S /\ A \ {x} \subseteq A /\ A \ {x} # A
    BY <1>5
  <2>2. <<A \ {x}, A>> \in R
    BY <1>3, <1>5, <2>1
  <2>3. A \ {x} \notin C
    BY <1>4, <2>2
  <2> QED
    BY <2>1, <2>3 DEF C
<1> QED
  BY <1>5, <1>6

-----------------------------------------------------------------------------
(* Sums.  SumFunctionOnSet takes one element after another, which one is   *)
(* not known; the sum of a set is the last entry of a table of the sums of *)
(* its subsets.                                                            *)

Pick(B) == CHOOSE x \in B : TRUE
SumRound(f, S, h) ==
  [B \in SUBSET S |-> IF B = {} THEN 0 ELSE f[Pick(B)] + h[B \ {Pick(B)}]]
SumTable(f, S) == CHOOSE g : g = SumRound(f, S, g)

LEMMA SumIsEntry ==
  ASSUME NEW f, NEW S
  PROVE  SumFunctionOnSet(f, S) = SumTable(f, S)[S]
BY Zenon DEF SumFunctionOnSet, FoldFunctionOnSet, MapThenFoldSet, SumTable, SumRound, Pick

LEMMA PickIsIn ==
  ASSUME NEW B, B # {}
  PROVE  Pick(B) \in B
BY DEF Pick

LEMMA SumTableExists ==
  ASSUME NEW S, IsFiniteSet(S), NEW f, \A x \in S : f[x] \in Int
  PROVE  SumTable(f, S) = SumRound(f, S, SumTable(f, S)) /\ SumTable(f, S) \in [SUBSET S -> Int]
<1> DEFINE F == [SUBSET S -> Int]
           n == Cardinality(S) + 1
           step == [p \in (1..n) \X F |-> SumRound(f, S, p[2])]
           zero == [B \in SUBSET S |-> 0]
<1>1. \A h \in F : SumRound(f, S, h) \in F
  <2> TAKE h \in F
  <2>1. ASSUME NEW B \in SUBSET S, B # {} PROVE f[Pick(B)] + h[B \ {Pick(B)}] \in Int
    BY <2>1, PickIsIn
  <2> QED
    BY <2>1 DEF SumRound
<1>2. Cardinality(S) \in Nat /\ n \in Nat
  BY FS_CardinalityType
<1>3. step \in [(1..n) \X F -> F] /\ zero \in F
  <2>1. \A p \in (1..n) \X F : SumRound(f, S, p[2]) \in F
    <3> HIDE DEF F, n
    <3> QED
      BY <1>1
  <2>2. zero \in F
    OBVIOUS
  <2> HIDE DEF F, n
  <2> QED
    BY <2>1, <2>2
<1>4. \A i \in 1..n : \A h \in F : step[<<i, h>>] = SumRound(f, S, h)
  OBVIOUS
<1> HIDE DEF n, F, step, zero
<1>5. PICK w \in [0..n -> F] : w[0] = zero /\ \A i \in 1..n : w[i] = step[<<i, w[i - 1]>>]
  <2>1. step \in Rounds(n, F)
    BY <1>3 DEF Rounds
  <2>2. LoopRuns(n, F, zero, step) # {}
    BY <1>2, <1>3, <2>1, LoopExists
  <2> QED
    BY <2>2 DEF LoopRuns
<1>6. \A i \in 1..n : w[i] = SumRound(f, S, w[i - 1]) /\ w[i - 1] \in F
  <2> TAKE i \in 1..n
  <2>1. i \in 0..n /\ i - 1 \in 0..n /\ i # 0
    BY <1>2
  <2>2. w[i] = step[<<i, w[i - 1]>>]
    BY <1>5, <2>1
  <2> QED
    BY <1>4, <2>1, <2>2
<1> DEFINE Stable(i) == \A B \in SUBSET S : Cardinality(B) < i => w[i - 1][B] = w[i][B]
           T == {i \in Nat : i \in 1..n => Stable(i)}
<1>7. \A B \in SUBSET S : B # {} => /\ Cardinality(B) \in Nat /\ Cardinality(B) > 0
                                  /\ B \ {Pick(B)} \in SUBSET S
                                  /\ Cardinality(B \ {Pick(B)}) = Cardinality(B) - 1
  <2> TAKE B \in SUBSET S
  <2> HAVE B # {}
  <2>1. IsFiniteSet(B) /\ Pick(B) \in B
    BY FS_Subset, PickIsIn
  <2> QED
    BY <2>1, FS_CardinalityType, FS_RemoveElement, FS_EmptySet, SMTT(30)
<1>8. \A i \in Nat : i \in T => i + 1 \in T
  <2> TAKE i \in Nat
  <2> HAVE i \in T
  <2> SUFFICES ASSUME i + 1 \in 1..n PROVE Stable(i + 1)
    OBVIOUS
  <2> SUFFICES ASSUME NEW B \in SUBSET S, Cardinality(B) < i + 1 PROVE w[i][B] = w[i + 1][B]
    BY <1>2
  <2>1. w[i + 1] = SumRound(f, S, w[i])
    BY <1>2, <1>6
  <2>2. CASE i = 0
    <3>1. B = {}
      <4> SUFFICES ASSUME B # {} PROVE FALSE
        OBVIOUS
      <4>1. Cardinality(B) \in Nat /\ Cardinality(B) > 0
        BY <1>7
      <4> QED
        BY <2>2, <4>1
    <3>2. w[0][B] = 0
      BY <1>2, <1>5 DEF zero
    <3> QED
      BY <2>1, <2>2, <3>1, <3>2 DEF SumRound
  <2>3. CASE i # 0
    <3>1. i \in 1..n /\ w[i] = SumRound(f, S, w[i - 1])
      BY <1>2, <1>6, <2>3
    <3>2. CASE B = {}
      BY <2>1, <3>1, <3>2 DEF SumRound
    <3>3. CASE B # {}
      <4>1. w[i - 1][B \ {Pick(B)}] = w[i][B \ {Pick(B)}]
        BY <1>7, <3>1, <3>3
      <4> QED
        BY <2>1, <3>1, <3>3, <4>1 DEF SumRound
    <3> QED
      BY <3>2, <3>3
  <2> QED
    BY <2>2, <2>3
<1>9. Stable(n)
  <2>1. 0 \in T
    OBVIOUS
  <2>2. \A i \in Nat : i \in T
    <3> HIDE DEF T
    <3> QED
      BY <1>8, <2>1, NatSetInduction
  <2> QED
    BY <1>2, <2>2 DEF n
<1>10. \A B \in SUBSET S : Cardinality(B) < n
  <2> TAKE B \in SUBSET S
  <2>1. Cardinality(B) \in Nat /\ Cardinality(B) <= Cardinality(S)
    BY FS_Subset, FS_CardinalityType
  <2> QED
    BY <1>2, <2>1 DEF n
<1>11. n \in 1..n /\ n \in 0..n
  BY <1>2 DEF n
<1>12. w[n] = SumRound(f, S, w[n]) /\ w[n] \in F
  <2>1. w[n] = SumRound(f, S, w[n - 1])
    BY <1>6, <1>11
  <2>2. \A B \in SUBSET S : w[n - 1][B] = w[n][B]
    BY <1>9, <1>10
  <2>3. SumRound(f, S, w[n - 1]) = SumRound(f, S, w[n])
    BY <1>7, <2>2 DEF SumRound
  <2> QED
    BY <1>11, <2>1, <2>3
<1>13. SumTable(f, S) = SumRound(f, S, SumTable(f, S))
  BY <1>12, Zenon DEF SumTable
<1>14. SumTable(f, S) \in [SUBSET S -> Int]
  <2> DEFINE g == SumTable(f, S)
             U == {B \in SUBSET S : g[B] \in Int}
  <2>1. \A B \in SUBSET S : g[B] = IF B = {} THEN 0 ELSE f[Pick(B)] + g[B \ {Pick(B)}]
    BY <1>13 DEF SumRound
  <2>2. DOMAIN g = SUBSET S /\ g = [B \in SUBSET S |-> g[B]]
    BY <1>13 DEF SumRound
  <2> HIDE DEF g
  <2>3. {} \in U
    <3>1. {} \in SUBSET S /\ g[{}] = 0
      BY <2>1
    <3> QED
      BY <3>1
  <2>4. \A B \in SUBSET S : B # {} /\ (\A x \in B : B \ {x} \in U) => B \in U
    <3> TAKE B \in SUBSET S
    <3> HAVE B # {} /\ (\A x \in B : B \ {x} \in U)
    <3>1. Pick(B) \in B /\ f[Pick(B)] \in Int /\ g[B \ {Pick(B)}] \in Int
      BY PickIsIn
    <3>2. g[B] = f[Pick(B)] + g[B \ {Pick(B)}]
      BY <2>1
    <3> QED
      BY <3>1, <3>2
  <2>5. \A B \in SUBSET S : B \in U
    <3> HIDE DEF U
    <3> QED
      BY <2>3, <2>4, FiniteSetInduction
  <2>6. \A B \in SUBSET S : g[B] \in Int
    BY <2>5
  <2> QED
    BY <2>2, <2>6 DEF g
<1> QED
  BY <1>13, <1>14

LEMMA SumOfNothing ==
  ASSUME NEW f
  PROVE  SumFunctionOnSet(f, {}) = 0
<1>1. SumTable(f, {}) = SumRound(f, {}, SumTable(f, {}))
  BY FS_EmptySet, SumTableExists
<1>2. SumTable(f, {})[{}] = 0
  BY <1>1 DEF SumRound
<1> QED
  BY <1>2, SumIsEntry

\* The tables of two sets agree on what both hold.
LEMMA SumTableAgrees ==
  ASSUME NEW S, IsFiniteSet(S), NEW f, \A x \in S : f[x] \in Int, NEW A \in SUBSET S
  PROVE  SumTable(f, S)[A] = SumFunctionOnSet(f, A)
<1> DEFINE g == SumTable(f, S)
           h == SumTable(f, A)
           T == {B \in SUBSET A : g[B] = h[B]}
<1>1. IsFiniteSet(A)
  BY FS_Subset
<1>2. \A B \in SUBSET A : g[B] = IF B = {} THEN 0 ELSE f[Pick(B)] + g[B \ {Pick(B)}]
  <2>1. g = SumRound(f, S, g)
    BY SumTableExists
  <2>2. \A B \in SUBSET A : B \in SUBSET S
    OBVIOUS
  <2> HIDE DEF g
  <2> QED
    BY <2>1, <2>2 DEF SumRound
<1>3. \A B \in SUBSET A : h[B] = IF B = {} THEN 0 ELSE f[Pick(B)] + h[B \ {Pick(B)}]
  <2>1. h = SumRound(f, A, h)
    BY <1>1, SumTableExists
  <2> HIDE DEF h
  <2> QED
    BY <2>1 DEF SumRound
<1> HIDE DEF g, h
<1>4. {} \in T
  <2>1. {} \in SUBSET A
    OBVIOUS
  <2> QED
    BY <1>2, <1>3, <2>1
<1>5. \A B \in SUBSET A : B # {} /\ (\A x \in B : B \ {x} \in T) => B \in T
  <2> TAKE B \in SUBSET A
  <2> HAVE B # {} /\ (\A x \in B : B \ {x} \in T)
  <2>1. Pick(B) \in B
    BY PickIsIn
  <2>2. g[B \ {Pick(B)}] = h[B \ {Pick(B)}]
    BY <2>1
  <2>3. g[B] = h[B]
    BY <1>2, <1>3, <2>2
  <2> QED
    BY <2>3
<1>6. A \in T
  <2> HIDE DEF T
  <2> QED
    BY <1>1, <1>4, <1>5, FiniteSetInduction
<1> QED
  BY <1>6, SumIsEntry DEF g, h

LEMMA SumType ==
  ASSUME NEW S, IsFiniteSet(S), NEW f, \A x \in S : f[x] \in Int
  PROVE  SumFunctionOnSet(f, S) \in Int
<1>1. SumTable(f, S) \in [SUBSET S -> Int]
  BY SumTableExists
<1>2. SumTable(f, S)[S] \in Int
  BY <1>1
<1> QED
  BY <1>2, SumIsEntry

LEMMA SumPick ==
  ASSUME NEW S, IsFiniteSet(S), S # {}, NEW f, \A x \in S : f[x] \in Int
  PROVE  SumFunctionOnSet(f, S) = f[Pick(S)] + SumFunctionOnSet(f, S \ {Pick(S)})
<1> DEFINE g == SumTable(f, S)
<1>1. g = SumRound(f, S, g)
  BY SumTableExists
<1>2. g[S] = f[Pick(S)] + g[S \ {Pick(S)}]
  <2> HIDE DEF g
  <2> QED
    BY <1>1 DEF SumRound
<1>3. g[S \ {Pick(S)}] = SumFunctionOnSet(f, S \ {Pick(S)})
  <2>1. S \ {Pick(S)} \in SUBSET S
    OBVIOUS
  <2> QED
    BY <2>1, SumTableAgrees
<1> QED
  BY <1>2, <1>3, SumIsEntry

\* One element can be taken out of a sum, whichever it is.
LEMMA SumOne ==
  ASSUME NEW S, IsFiniteSet(S), NEW f, \A x \in S : f[x] \in Int, NEW x \in S
  PROVE  SumFunctionOnSet(f, S) = f[x] + SumFunctionOnSet(f, S \ {x})
<1> DEFINE Sum(A) == SumFunctionOnSet(f, A)
           T == {A \in SUBSET S : \A y \in A : Sum(A) = f[y] + Sum(A \ {y})}
<1>1. \A A \in SUBSET S : A # {} /\ (\A y \in A : A \ {y} \in T) => A \in T
  <2> TAKE A \in SUBSET S
  <2> HAVE A # {} /\ (\A y \in A : A \ {y} \in T)
  <2> SUFFICES ASSUME NEW y \in A PROVE Sum(A) = f[y] + Sum(A \ {y})
    OBVIOUS
  <2> DEFINE p == Pick(A)
  <2>1. p \in A
    BY PickIsIn
  <2>2. IsFiniteSet(A) /\ \A z \in A : f[z] \in Int
    BY FS_Subset
  <2>3. Sum(A) = f[p] + Sum(A \ {p})
    BY <2>2, SumPick
  <2> HIDE DEF p
  <2>4. CASE y # p
    <3>1. Sum(A \ {p}) = f[y] + Sum((A \ {p}) \ {y})
      BY <2>1, <2>4
    <3>2. Sum(A \ {y}) = f[p] + Sum((A \ {y}) \ {p})
      BY <2>1, <2>4
    <3>3. (A \ {p}) \ {y} = (A \ {y}) \ {p}
      OBVIOUS
    <3>4. IsFiniteSet((A \ {y}) \ {p}) /\ \A z \in (A \ {y}) \ {p} : f[z] \in Int
      BY <2>2, FS_RemoveElement
    <3>5. Sum((A \ {y}) \ {p}) \in Int /\ f[y] \in Int /\ f[p] \in Int
      BY <2>1, <2>2, <3>4, SumType
    <3>6. Sum((A \ {p}) \ {y}) = Sum((A \ {y}) \ {p})
      BY <3>3, Zenon
    <3> QED
      BY <2>3, <3>1, <3>2, <3>5, <3>6
  <2> QED
    BY <2>3, <2>4
<1>2. {} \in T
  OBVIOUS
<1>3. S \in T
  <2> HIDE DEF T
  <2>1. \A A \in SUBSET S : A \in T
    BY <1>1, <1>2, FiniteSetInduction
  <2> QED
    BY <2>1
<1> QED
  BY <1>3

LEMMA SumWith ==
  ASSUME NEW S, IsFiniteSet(S), NEW f, \A x \in S : f[x] \in Int,
         NEW x, x \notin S, f[x] \in Int
  PROVE  SumFunctionOnSet(f, S \cup {x}) = SumFunctionOnSet(f, S) + f[x]
<1>1. IsFiniteSet(S \cup {x}) /\ (S \cup {x}) \ {x} = S
  BY FS_AddElement
<1>2. SumFunctionOnSet(f, S \cup {x}) = f[x] + SumFunctionOnSet(f, (S \cup {x}) \ {x})
  BY <1>1, SumOne
<1>3. SumFunctionOnSet(f, S) \in Int
  BY SumType
<1>4. SumFunctionOnSet(f, (S \cup {x}) \ {x}) = SumFunctionOnSet(f, S)
  BY <1>1, Zenon
<1> QED
  BY <1>2, <1>3, <1>4

LEMMA SumLeq ==
  ASSUME NEW S, IsFiniteSet(S), NEW f, NEW g,
         \A x \in S : f[x] \in Int /\ g[x] \in Int /\ f[x] <= g[x]
  PROVE  SumFunctionOnSet(f, S) <= SumFunctionOnSet(g, S)
<1> DEFINE T == {A \in SUBSET S : SumFunctionOnSet(f, A) <= SumFunctionOnSet(g, A)}
<1>1. {} \in T
  BY SumOfNothing
<1>2. \A A \in SUBSET S : A # {} /\ (\A y \in A : A \ {y} \in T) => A \in T
  <2> TAKE A \in SUBSET S
  <2> HAVE A # {} /\ (\A y \in A : A \ {y} \in T)
  <2> DEFINE p == Pick(A)
  <2>1. p \in A
    BY PickIsIn
  <2>2. IsFiniteSet(A) /\ IsFiniteSet(A \ {p})
    BY FS_Subset, FS_RemoveElement
  <2>3. SumFunctionOnSet(f, A) = f[p] + SumFunctionOnSet(f, A \ {p})
    BY <2>2, SumPick
  <2>4. SumFunctionOnSet(g, A) = g[p] + SumFunctionOnSet(g, A \ {p})
    BY <2>2, SumPick
  <2>5. SumFunctionOnSet(f, A \ {p}) \in Int /\ SumFunctionOnSet(g, A \ {p}) \in Int
    <3>1. \A x \in A \ {p} : f[x] \in Int /\ g[x] \in Int
      OBVIOUS
    <3> QED
      BY <2>2, <3>1, SumType
  <2>6. SumFunctionOnSet(f, A \ {p}) <= SumFunctionOnSet(g, A \ {p})
    BY <2>1
  <2>7. f[p] \in Int /\ g[p] \in Int /\ f[p] <= g[p]
    BY <2>1
  <2> HIDE DEF p
  <2> QED
    BY <2>3, <2>4, <2>5, <2>6, <2>7
<1>3. S \in T
  <2> HIDE DEF T
  <2>1. \A A \in SUBSET S : A \in T
    BY <1>1, <1>2, FiniteSetInduction
  <2> QED
    BY <2>1
<1> QED
  BY <1>3

LEMMA SumAgrees ==
  ASSUME NEW S, IsFiniteSet(S), NEW f, NEW g, \A x \in S : f[x] \in Int /\ f[x] = g[x]
  PROVE  SumFunctionOnSet(f, S) = SumFunctionOnSet(g, S)
<1>1. SumFunctionOnSet(f, S) <= SumFunctionOnSet(g, S)
  BY SumLeq
<1>2. SumFunctionOnSet(g, S) <= SumFunctionOnSet(f, S)
  BY SumLeq
<1>3. SumFunctionOnSet(f, S) \in Int /\ SumFunctionOnSet(g, S) \in Int
  BY SumType
<1> QED
  BY <1>1, <1>2, <1>3

LEMMA SumNat ==
  ASSUME NEW S, IsFiniteSet(S), NEW f, \A x \in S : f[x] \in Nat
  PROVE  SumFunctionOnSet(f, S) \in Nat
<1> DEFINE T == {A \in SUBSET S : SumFunctionOnSet(f, A) \in Nat}
<1>1. {} \in T
  BY SumOfNothing
<1>2. \A A \in SUBSET S : A # {} /\ (\A y \in A : A \ {y} \in T) => A \in T
  <2> TAKE A \in SUBSET S
  <2> HAVE A # {} /\ (\A y \in A : A \ {y} \in T)
  <2>1. Pick(A) \in A /\ IsFiniteSet(A) /\ f[Pick(A)] \in Nat
    BY PickIsIn, FS_Subset
  <2>2. SumFunctionOnSet(f, A) = f[Pick(A)] + SumFunctionOnSet(f, A \ {Pick(A)})
    BY <2>1, SumPick
  <2>3. SumFunctionOnSet(f, A \ {Pick(A)}) \in Nat
    BY <2>1
  <2>4. SumFunctionOnSet(f, A) \in Nat
    BY <2>1, <2>2, <2>3
  <2> QED
    BY <2>4
<1>3. S \in T
  <2> HIDE DEF T
  <2>1. \A A \in SUBSET S : A \in T
    BY <1>1, <1>2, FiniteSetInduction
  <2> QED
    BY <2>1
<1> QED
  BY <1>3

\* A sum in which one term changes.
LEMMA SumChange ==
  ASSUME NEW S, IsFiniteSet(S), NEW f, NEW g, NEW x \in S,
         \A y \in S : f[y] \in Int /\ g[y] \in Int,
         \A y \in S \ {x} : g[y] = f[y]
  PROVE  SumFunctionOnSet(g, S) = SumFunctionOnSet(f, S) - f[x] + g[x]
<1>1. IsFiniteSet(S \ {x})
  BY FS_RemoveElement
<1>2. SumFunctionOnSet(f, S) = f[x] + SumFunctionOnSet(f, S \ {x})
  BY SumOne
<1>3. SumFunctionOnSet(g, S) = g[x] + SumFunctionOnSet(g, S \ {x})
  BY SumOne
<1>4. SumFunctionOnSet(g, S \ {x}) = SumFunctionOnSet(f, S \ {x})
  <2>1. \A y \in S \ {x} : g[y] \in Int /\ g[y] = f[y]
    OBVIOUS
  <2> QED
    BY <1>1, <2>1, SumAgrees
<1>5. SumFunctionOnSet(f, S \ {x}) \in Int
  BY <1>1, SumType
<1> QED
  BY <1>2, <1>3, <1>4, <1>5

LEMMA SumOfZeros ==
  ASSUME NEW S, IsFiniteSet(S), NEW f, \A x \in S : f[x] = 0
  PROVE  SumFunctionOnSet(f, S) = 0
<1> DEFINE T == {A \in SUBSET S : SumFunctionOnSet(f, A) = 0}
<1>1. {} \in T
  BY SumOfNothing
<1>2. \A A \in SUBSET S : A # {} /\ (\A y \in A : A \ {y} \in T) => A \in T
  <2> TAKE A \in SUBSET S
  <2> HAVE A # {} /\ (\A y \in A : A \ {y} \in T)
  <2>1. Pick(A) \in A /\ IsFiniteSet(A) /\ f[Pick(A)] = 0 /\ \A x \in A : f[x] \in Int
    BY PickIsIn, FS_Subset
  <2>2. SumFunctionOnSet(f, A) = f[Pick(A)] + SumFunctionOnSet(f, A \ {Pick(A)})
    BY <2>1, SumPick
  <2>3. SumFunctionOnSet(f, A \ {Pick(A)}) = 0
    BY <2>1
  <2> QED
    BY <2>1, <2>2, <2>3
<1>3. S \in T
  <2> HIDE DEF T
  <2>1. \A A \in SUBSET S : A \in T
    BY <1>1, <1>2, FiniteSetInduction
  <2> QED
    BY <2>1
<1> QED
  BY <1>3

\* A part of a sum of natural numbers is no more than the whole.
LEMMA SumOfPart ==
  ASSUME NEW S, IsFiniteSet(S), NEW T \in SUBSET S, NEW f, NEW g,
         \A x \in S : g[x] \in Nat,
         \A x \in T : f[x] \in Nat /\ f[x] <= g[x]
  PROVE  SumFunctionOnSet(f, T) <= SumFunctionOnSet(g, S)
<1> DEFINE Low(A) == SumFunctionOnSet(f, T \cap A)
           High(A) == SumFunctionOnSet(g, A)
           R == {A \in SUBSET S : Low(A) <= High(A)}
<1>1. {} \in R
  <2>1. T \cap {} = {}
    OBVIOUS
  <2>2. SumFunctionOnSet(f, T \cap {}) = 0
    BY <2>1, SumOfNothing, Zenon
  <2> QED
    BY <2>2, SumOfNothing
<1>2. \A A \in SUBSET S : A # {} /\ (\A y \in A : A \ {y} \in R) => A \in R
  <2> TAKE A \in SUBSET S
  <2> HAVE A # {} /\ (\A y \in A : A \ {y} \in R)
  <2> DEFINE p == Pick(A)
             B == A \ {p}
  <2>1. p \in A
    BY PickIsIn
  <2>2. /\ IsFiniteSet(A) /\ IsFiniteSet(B) /\ IsFiniteSet(T \cap A) /\ IsFiniteSet(T \cap B)
        /\ B \in R
    BY <2>1, FS_Subset
  <2>3. High(A) = g[p] + High(B) /\ High(B) \in Nat /\ g[p] \in Nat
    <3>1. High(A) = g[p] + High(B)
      <4>1. \A x \in A : g[x] \in Int
        OBVIOUS
      <4> QED
        BY <2>2, <4>1, SumPick
    <3>2. High(B) \in Nat
      BY <2>2, SumNat
    <3> QED
      BY <2>1, <3>1, <3>2
  <2>4. Low(B) <= High(B) /\ Low(B) \in Nat
    <3>1. \A x \in T \cap B : f[x] \in Nat
      OBVIOUS
    <3>2. Low(B) \in Nat
      BY <2>2, <3>1, SumNat
    <3> QED
      BY <2>2, <3>2
  <2>5. CASE p \in T
    <3>1. (T \cap A) \ {p} = T \cap B /\ p \in T \cap A /\ \A x \in T \cap A : f[x] \in Int
      BY <2>1, <2>5
    <3> HIDE DEF p, B
    <3>2. SumFunctionOnSet(f, T \cap A) = f[p] + SumFunctionOnSet(f, (T \cap A) \ {p})
      BY <2>2, <3>1, SumOne
    <3>3. Low(A) = f[p] + Low(B)
      BY <3>1, <3>2
    <3>4. f[p] \in Nat /\ f[p] <= g[p]
      BY <2>5
    <3> HIDE DEF Low, High
    <3>5. Low(A) <= High(A)
      BY <2>3, <2>4, <3>3, <3>4
    <3> QED
      BY <3>5
  <2>6. CASE p \notin T
    <3>1. T \cap A = T \cap B
      BY <2>6
    <3> HIDE DEF p, B
    <3>2. Low(A) = Low(B)
      BY <3>1, Zenon
    <3> HIDE DEF Low, High
    <3>3. Low(A) <= High(A)
      BY <2>3, <2>4, <3>2
    <3> QED
      BY <3>3
  <2> QED
    BY <2>5, <2>6
<1>3. S \in R
  <2> HIDE DEF R
  <2>1. \A A \in SUBSET S : A \in R
    BY <1>1, <1>2, FiniteSetInduction
  <2> QED
    BY <2>1
<1>4. T \cap S = T
  OBVIOUS
<1> QED
  BY <1>3, <1>4

-----------------------------------------------------------------------------
(* A finite set, strictly ordered by the pairs of R, has a first element   *)
(* and can be put in order.                                                *)

IsOrdered(R, S) ==
  /\ \A x, y \in S : x # y => <<x, y>> \in R \/ <<y, x>> \in R
  /\ \A x, y, z \in S : <<x, y>> \in R /\ <<y, z>> \in R => <<x, z>> \in R

LEMMA FirstExists ==
  ASSUME NEW S, IsFiniteSet(S), S # {}, NEW R, IsOrdered(R, S)
  PROVE  \E x \in S : \A y \in S \ {x} : <<x, y>> \in R
<1> DEFINE First(A, x) == x \in A /\ \A y \in A \ {x} : <<x, y>> \in R
           T == {A \in SUBSET S : A = {} \/ \E x : First(A, x)}
<1>1. {} \in T
  OBVIOUS
<1>2. \A A \in SUBSET S : A # {} /\ (\A y \in A : A \ {y} \in T) => A \in T
  <2> TAKE A \in SUBSET S
  <2> HAVE A # {} /\ (\A y \in A : A \ {y} \in T)
  <2>1. PICK a \in A : TRUE
    OBVIOUS
  <2>2. A \ {a} \in T
    OBVIOUS
  <2>3. CASE A \ {a} = {}
    <3>1. First(A, a)
      BY <2>3
    <3> QED
      BY <3>1
  <2>4. CASE \E x : First(A \ {a}, x)
    <3>1. PICK x : First(A \ {a}, x)
      BY <2>4
    <3>2. CASE <<x, a>> \in R
      <4>1. First(A, x)
        BY <3>1, <3>2
      <4> QED
        BY <4>1
    <3>3. CASE <<a, x>> \in R
      <4>1. First(A, a)
        BY <3>1, <3>3 DEF IsOrdered
      <4> QED
        BY <4>1
    <3> QED
      BY <3>1, <3>2, <3>3 DEF IsOrdered
  <2> QED
    BY <2>2, <2>3, <2>4
<1>3. S \in T
  <2> HIDE DEF T
  <2>1. \A A \in SUBSET S : A \in T
    BY <1>1, <1>2, FiniteSetInduction
  <2> QED
    BY <2>1
<1> QED
  BY <1>3

InOrder(R, S) ==
  {s \in [1..Cardinality(S) -> S] :
     \A i, j \in 1..Cardinality(S) : i < j => <<s[i], s[j]>> \in R}

LEMMA OrderExists ==
  ASSUME NEW S, IsFiniteSet(S), NEW R, IsOrdered(R, S)
  PROVE  InOrder(R, S) # {}
<1> DEFINE T == {A \in SUBSET S : InOrder(R, A) # {}}
<1>1. {} \in T
  <2>1. Cardinality({}) = 0
    BY FS_EmptySet
  <2>2. [i \in 1..0 |-> i] \in InOrder(R, {})
    BY <2>1 DEF InOrder
  <2> QED
    BY <2>2
<1>2. \A A \in SUBSET S : A # {} /\ (\A y \in A : A \ {y} \in T) => A \in T
  <2> TAKE A \in SUBSET S
  <2> HAVE A # {} /\ (\A y \in A : A \ {y} \in T)
  <2>1. IsFiniteSet(A) /\ IsOrdered(R, A)
    BY FS_Subset DEF IsOrdered
  <2>2. PICK x \in A : \A y \in A \ {x} : <<x, y>> \in R
    BY <2>1, FirstExists
  <2> DEFINE n == Cardinality(A)
             B == A \ {x}
  <2>3. n \in Nat \ {0} /\ Cardinality(B) = n - 1
    BY <2>1, FS_CardinalityType, FS_RemoveElement, FS_EmptySet
  <2>4. PICK s : s \in InOrder(R, B)
    OBVIOUS
  <2> HIDE DEF n
  <2>5. /\ s \in [1..(n - 1) -> B]
        /\ \A i, j \in 1..(n - 1) : i < j => <<s[i], s[j]>> \in R
    BY <2>3, <2>4 DEF InOrder
  <2> DEFINE t == [i \in 1..n |-> IF i = 1 THEN x ELSE s[i - 1]]
  <2>6. \A i \in 1..n : i # 1 => i - 1 \in 1..(n - 1) /\ t[i] = s[i - 1] /\ t[i] \in B
    <3> TAKE i \in 1..n
    <3> HAVE i # 1
    <3>1. i - 1 \in 1..(n - 1)
      BY <2>3
    <3>2. t[i] = s[i - 1]
      OBVIOUS
    <3> QED
      BY <2>5, <3>1, <3>2
  <2>7. 1 \in 1..n /\ t[1] = x
    BY <2>3
  <2>8. t \in [1..n -> A]
    BY <2>2, <2>6
  <2>9. ASSUME NEW i \in 1..n, NEW j \in 1..n, i < j PROVE <<t[i], t[j]>> \in R
    <3>1. j # 1
      BY <2>3, <2>9
    <3>2. CASE i = 1
      BY <2>2, <2>6, <2>7, <3>1, <3>2
    <3>3. CASE i # 1
      <4>1. i - 1 \in 1..(n - 1) /\ j - 1 \in 1..(n - 1) /\ i - 1 < j - 1
        BY <2>6, <2>9, <3>1, <3>3
      <4>2. <<s[i - 1], s[j - 1]>> \in R
        BY <2>5, <4>1
      <4>3. t[i] = s[i - 1] /\ t[j] = s[j - 1]
        BY <2>6, <3>1, <3>3
      <4> QED
        BY <4>2, <4>3
    <3> QED
      BY <3>2, <3>3
  <2>10. t \in InOrder(R, A)
    <3> HIDE DEF t
    <3> QED
      BY <2>8, <2>9 DEF InOrder, n
  <2> QED
    BY <2>10
<1>3. S \in T
  <2> HIDE DEF T
  <2>1. \A A \in SUBSET S : A \in T
    BY <1>1, <1>2, FiniteSetInduction
  <2> QED
    BY <2>1
<1> QED
  BY <1>3
=============================================================================
