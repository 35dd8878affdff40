------------------------------ MODULE SumTheorems ------------------------------
(***************************************************************************)
(* Facts about the sums the models are written with: the sum of a function  *)
(* over a finite set, as SumFunctionOnSet and MapThenSumSet take it, and     *)
(* the sum over a sequence, as FoldLeft takes it.                            *)
(*                                                                          *)
(* The counters of the code are running totals: the models relate each to   *)
(* the sum it stands for.  A sum is a recursive function, so its laws need  *)
(* induction; the induction rules of the library take a predicate as a      *)
(* parameter, and the ones below take a set in its place.                    *)
(***************************************************************************)
EXTENDS Integers, SequencesExt, SequenceTheorems, FiniteSetTheorems, NaturalsInduction,
        WellFoundedInduction, TLAPS

\* Induction over the natural numbers.
LEMMA NatSetInduction ==
  ASSUME NEW P, 0 \in P, \A n \in Nat : n \in P => n+1 \in P
  PROVE  Nat \subseteq P
<1> DEFINE R == OpToRel(<, Nat)
           T == Nat \ P
<1> SUFFICES ASSUME T # {} PROVE FALSE
  OBVIOUS
<1>1. IsWellFoundedOn(R, Nat)
  BY NatLessThanWellFounded
<1> HIDE DEF R
<1>2. PICK x \in T : \A y \in T : ~(<<y, x>> \in R)
  <2>1. T \subseteq Nat
    OBVIOUS
  <2> HIDE DEF T
  <2> QED
    BY <1>1, <2>1, WFMin
<1>3. x \in Nat /\ x # 0 /\ x - 1 \in Nat /\ x - 1 \in T
  <2>1. x \in Nat /\ x # 0
    OBVIOUS
  <2>2. x - 1 \in Nat /\ (x - 1) + 1 = x
    BY <2>1
  <2> QED
    BY <2>1, <2>2
<1>4. <<x-1, x>> \in R
  BY <1>3 DEF R, OpToRel
<1> QED
  BY <1>2, <1>3, <1>4

\* Induction over the subsets of a finite set, taking one element off at a time.
LEMMA SubsetInduction ==
  ASSUME NEW S, IsFiniteSet(S), NEW P,
         \A T \in SUBSET S : (\A x \in T : T \ {x} \in P) => T \in P
  PROVE  SUBSET S \subseteq P
<1> DEFINE N == {n \in Nat : \A T \in SUBSET S : Cardinality(T) = n => T \in P}
<1>1. \A T \in SUBSET S : IsFiniteSet(T) /\ Cardinality(T) \in Nat
  BY FS_Subset, FS_CardinalityType
<1>2. 0 \in N
  <2> SUFFICES ASSUME NEW T \in SUBSET S, Cardinality(T) = 0 PROVE T \in P
    OBVIOUS
  <2>1. T = {}
    BY <1>1, FS_EmptySet
  <2> QED
    BY <2>1
<1>3. ASSUME NEW n \in Nat, n \in N PROVE n+1 \in N
  <2> SUFFICES ASSUME NEW T \in SUBSET S, Cardinality(T) = n+1 PROVE T \in P
    OBVIOUS
  <2>1. ASSUME NEW x \in T PROVE T \ {x} \in P
    <3>1. Cardinality(T \ {x}) = n
      BY <1>1, FS_RemoveElement
    <3> QED
      BY <1>3, <3>1
  <2> QED
    BY <2>1
<1> HIDE DEF N
<1>4. Nat \subseteq N
  BY <1>2, <1>3, NatSetInduction
<1> QED
  BY <1>1, <1>4 DEF N
--------------------------------------------------------------------------------
(***************************************************************************)
(* Sums over finite sets                                                    *)
(***************************************************************************)
\* g is the sum of f over the subsets of S.
IsSum(g, f, S) ==
  /\ g \in [SUBSET S -> Int]
  /\ g[{}] = 0
  /\ \A s \in SUBSET S : \A x \in s : g[s] = f[x] + g[s \ {x}]

\* What a fold computes: c picks the element taken next.
FoldEq(g, f, c, S) ==
  g = [s \in SUBSET S |-> IF s = {} THEN 0 ELSE f[c[s]] + g[s \ {c[s]}]]

Picks(c, S) == \A s \in (SUBSET S) \ {{}} : c[s] \in s

\* A fold has a result.
LEMMA FoldExists ==
  ASSUME NEW S, IsFiniteSet(S), NEW f, \A x \in S : f[x] \in Int,
         NEW c, Picks(c, S)
  PROVE  \E g : FoldEq(g, f, c, S)
<1> DEFINE Upto(n, g) == \A s \in SUBSET S : Cardinality(s) <= n =>
                 g[s] = IF s = {} THEN 0 ELSE f[c[s]] + g[s \ {c[s]}]
           N == {n \in Nat : \E g \in [SUBSET S -> Int] : Upto(n, g)}
<1>1. \A s \in SUBSET S : IsFiniteSet(s) /\ Cardinality(s) \in Nat
  BY FS_Subset, FS_CardinalityType
<1>2. 0 \in N
  <2> DEFINE g == [s \in SUBSET S |-> 0]
  <2>1. Upto(0, g)
    <3> SUFFICES ASSUME NEW s \in SUBSET S, Cardinality(s) <= 0 PROVE s = {}
      OBVIOUS
    <3>1. Cardinality(s) = 0
      BY <1>1
    <3> QED
      BY <1>1, <3>1, FS_EmptySet
  <2>2. g \in [SUBSET S -> Int]
    OBVIOUS
  <2> HIDE DEF g, Upto
  <2> QED
    BY <2>1, <2>2
<1>3. ASSUME NEW n \in Nat, n \in N PROVE n+1 \in N
  <2>1. PICK g \in [SUBSET S -> Int] : Upto(n, g)
    BY <1>3
  <2> DEFINE g2 == [s \in SUBSET S |-> IF Cardinality(s) = n+1 THEN f[c[s]] + g[s \ {c[s]}]
                                                              ELSE g[s]]
  <2>2. ASSUME NEW s \in SUBSET S, s # {}
        PROVE  /\ f[c[s]] \in Int /\ s \ {c[s]} \in SUBSET S
               /\ Cardinality(s \ {c[s]}) = Cardinality(s) - 1
    <3>1. c[s] \in s
      BY <2>2 DEF Picks
    <3> QED
      BY <1>1, <3>1, FS_RemoveElement
  <2>3. g2 \in [SUBSET S -> Int]
    <3> SUFFICES ASSUME NEW s \in SUBSET S, Cardinality(s) = n+1
                 PROVE  f[c[s]] + g[s \ {c[s]}] \in Int
      OBVIOUS
    <3>1. s # {}
      BY FS_EmptySet
    <3> QED
      BY <2>2, <3>1
  <2>4. Upto(n+1, g2)
    <3> SUFFICES ASSUME NEW s \in SUBSET S, Cardinality(s) <= n+1
                 PROVE  g2[s] = IF s = {} THEN 0 ELSE f[c[s]] + g2[s \ {c[s]}]
      OBVIOUS
    <3>1. CASE s = {}
      <4>1. Cardinality(s) = 0 /\ 0 # n+1 /\ 0 <= n
        BY <3>1, FS_EmptySet
      <4> QED
        BY <2>1, <3>1, <4>1
    <3>2. CASE s # {}
      <4>1. s \ {c[s]} \in SUBSET S /\ Cardinality(s \ {c[s]}) = Cardinality(s) - 1
        BY <2>2, <3>2
      <4>2. g2[s \ {c[s]}] = g[s \ {c[s]}]
        <5>1. Cardinality(s \ {c[s]}) # n+1
          BY <1>1, <4>1
        <5> QED
          BY <4>1, <5>1
      <4>3. CASE Cardinality(s) = n+1
        BY <3>2, <4>2, <4>3
      <4>4. CASE Cardinality(s) # n+1
        <5>1. Cardinality(s) <= n
          BY <1>1, <4>4
        <5> QED
          BY <2>1, <3>2, <4>2, <4>4, <5>1
      <4> QED
        BY <4>3, <4>4
    <3> QED
      BY <3>1, <3>2
  <2> HIDE DEF g2
  <2> QED
    BY <2>3, <2>4
<1> HIDE DEF N
<1>4. Nat \subseteq N
  BY <1>2, <1>3, NatSetInduction
<1>5. Cardinality(S) \in N
  BY <1>1, <1>4
<1>6. PICK g \in [SUBSET S -> Int] : Upto(Cardinality(S), g)
  BY <1>5 DEF N
<1>7. \A s \in SUBSET S : Cardinality(s) <= Cardinality(S)
  BY FS_Subset
<1>8. \A s \in SUBSET S : g[s] = IF s = {} THEN 0 ELSE f[c[s]] + g[s \ {c[s]}]
  BY <1>6, <1>7
<1>9. g = [s \in SUBSET S |-> IF s = {} THEN 0 ELSE f[c[s]] + g[s \ {c[s]}]]
  BY <1>8
<1> QED
  BY <1>9 DEF FoldEq

\* It does not depend on the order of the elements.
LEMMA FoldIsSum ==
  ASSUME NEW S, IsFiniteSet(S), NEW f, \A x \in S : f[x] \in Int,
         NEW c, Picks(c, S), NEW g, FoldEq(g, f, c, S)
  PROVE  IsSum(g, f, S)
<1> DEFINE I == {s \in SUBSET S : g[s] \in Int}
           P == {s \in SUBSET S : \A x \in s : g[s] = f[x] + g[s \ {x}]}
<1>1. \A s \in SUBSET S : g[s] = IF s = {} THEN 0 ELSE f[c[s]] + g[s \ {c[s]}]
  BY DEF FoldEq
<1>2. ASSUME NEW s \in SUBSET S, \A x \in s : s \ {x} \in I PROVE s \in I
  <2> SUFFICES g[s] \in Int
    OBVIOUS
  <2>1. CASE s = {}
    <3>1. g[s] = 0
      BY <1>1, <2>1
    <3> QED
      BY <3>1
  <2>2. CASE s # {}
    <3>1. c[s] \in s /\ f[c[s]] \in Int
      BY <2>2 DEF Picks
    <3>2. g[s] = f[c[s]] + g[s \ {c[s]}]
      BY <1>1, <2>2
    <3>3. g[s \ {c[s]}] \in Int
      BY <1>2, <3>1
    <3> QED
      BY <3>1, <3>2, <3>3
  <2> QED
    BY <2>1, <2>2
<1> HIDE DEF I
<1>3. \A s \in SUBSET S : g[s] \in Int
  <2>1. SUBSET S \subseteq I
    BY <1>2, SubsetInduction
  <2> QED
    BY <2>1 DEF I
<1>4. ASSUME NEW s \in SUBSET S, \A x \in s : s \ {x} \in P PROVE s \in P
  <2> SUFFICES ASSUME NEW x \in s PROVE g[s] = f[x] + g[s \ {x}]
    OBVIOUS
  <2> DEFINE y == c[s]
  <2>1. y \in s
    BY DEF Picks
  <2>2. g[s] = f[y] + g[s \ {y}]
    BY <1>1
  <2> HIDE DEF y
  <2>3. CASE x = y
    BY <2>2, <2>3
  <2>4. CASE x # y
    <3>1. g[s \ {y}] = f[x] + g[(s \ {y}) \ {x}]
      BY <1>4, <2>1, <2>4
    <3>2. g[s \ {x}] = f[y] + g[(s \ {x}) \ {y}]
      BY <1>4, <2>1, <2>4
    <3>3. (s \ {y}) \ {x} = (s \ {x}) \ {y}
      OBVIOUS
    <3> DEFINE r == g[(s \ {x}) \ {y}]
    <3>4. r \in Int /\ f[x] \in Int /\ f[y] \in Int
      <4>1. (s \ {x}) \ {y} \in SUBSET S
        OBVIOUS
      <4> QED
        BY <1>3, <2>1, <4>1
    <3>5. g[s] = f[y] + (f[x] + r) /\ g[s \ {x}] = f[y] + r
      BY <2>2, <3>1, <3>2, <3>3
    <3> HIDE DEF r
    <3>6. f[y] + (f[x] + r) = f[x] + (f[y] + r)
      BY <3>4
    <3> QED
      BY <3>5, <3>6
  <2> QED
    BY <2>3, <2>4
<1> HIDE DEF P
<1>5. SUBSET S \subseteq P
  BY <1>4, SubsetInduction
<1>6. g \in [SUBSET S -> Int]
  <2>1. g = [s \in SUBSET S |-> g[s]]
    BY DEF FoldEq
  <2> QED
    BY <1>3, <2>1
<1>7. g[{}] = 0
  BY <1>1
<1> QED
  BY <1>5, <1>6, <1>7 DEF P, IsSum

\* Two sums of the same function agree where both are defined.
LEMMA SumUnique ==
  ASSUME NEW S, IsFiniteSet(S), NEW T \in SUBSET S, NEW f,
         NEW g, IsSum(g, f, S), NEW h, IsSum(h, f, T)
  PROVE  h[T] = g[T]
<1> DEFINE P == {s \in SUBSET T : h[s] = g[s]}
<1>1. IsFiniteSet(T)
  BY FS_Subset
<1>2. ASSUME NEW s \in SUBSET T, \A x \in s : s \ {x} \in P PROVE s \in P
  <2>1. CASE s = {}
    BY <2>1 DEF IsSum
  <2>2. CASE s # {}
    <3>1. PICK x \in s : TRUE
      BY <2>2
    <3>2. h[s] = f[x] + h[s \ {x}] /\ g[s] = f[x] + g[s \ {x}]
      BY DEF IsSum
    <3> QED
      BY <1>2, <3>2
  <2> QED
    BY <2>1, <2>2
<1> HIDE DEF P
<1>3. SUBSET T \subseteq P
  BY <1>1, <1>2, SubsetInduction
<1> QED
  BY <1>3 DEF P

\* SumFunctionOnSet is the sum.
LEMMA SumIsSum ==
  ASSUME NEW S, IsFiniteSet(S), NEW f, \A x \in S : f[x] \in Int
  PROVE  \E g : IsSum(g, f, S) /\ SumFunctionOnSet(f, S) = g[S]
<1> DEFINE c == [s \in (SUBSET S) \ {{}} |-> CHOOSE x \in s : TRUE]
           F(g) == g = [s \in SUBSET S |-> IF s = {} THEN 0
                          ELSE f[CHOOSE x \in s : TRUE] + g[s \ {CHOOSE x \in s : TRUE}]]
<1>1. Picks(c, S)
  BY DEF Picks
<1>2. \A g : FoldEq(g, f, c, S) <=> F(g)
  BY DEF FoldEq
<1>3. SumFunctionOnSet(f, S) = (CHOOSE g : F(g))[S]
  BY DEF SumFunctionOnSet, FoldFunctionOnSet, MapThenFoldSet
<1> HIDE DEF c, F
<1>4. \E g : F(g)
  BY <1>1, <1>2, FoldExists
<1>5. F(CHOOSE g : F(g))
  BY <1>4
<1>6. IsSum(CHOOSE g : F(g), f, S)
  BY <1>1, <1>2, <1>5, FoldIsSum
<1> QED
  BY <1>3, <1>6

\* The laws of a sum: any element may be taken first.
LEMMA SumStep ==
  ASSUME NEW S, IsFiniteSet(S), NEW f, \A x \in S : f[x] \in Int
  PROVE  /\ SumFunctionOnSet(f, S) \in Int
         /\ S = {} => SumFunctionOnSet(f, S) = 0
         /\ \A x \in S : SumFunctionOnSet(f, S) = f[x] + SumFunctionOnSet(f, S \ {x})
<1>1. PICK g : IsSum(g, f, S) /\ SumFunctionOnSet(f, S) = g[S]
  BY SumIsSum
<1>2. ASSUME NEW x \in S PROVE SumFunctionOnSet(f, S \ {x}) = g[S \ {x}]
  <2>1. IsFiniteSet(S \ {x}) /\ S \ {x} \in SUBSET S
    BY FS_Subset
  <2>2. PICK h : IsSum(h, f, S \ {x}) /\ SumFunctionOnSet(f, S \ {x}) = h[S \ {x}]
    BY <2>1, SumIsSum
  <2> QED
    BY <1>1, <2>1, <2>2, SumUnique
<1>3. S = {} => g[S] = 0
  BY <1>1 DEF IsSum
<1>4. g[S] \in Int /\ \A x \in S : g[S] = f[x] + g[S \ {x}]
  BY <1>1 DEF IsSum
<1> QED
  BY <1>1, <1>2, <1>3, <1>4

\* Larger terms make a larger sum, equal terms the same sum.
LEMMA SumMonotone ==
  ASSUME NEW S, IsFiniteSet(S), NEW f, \A x \in S : f[x] \in Int,
         NEW g, \A x \in S : g[x] \in Int, \A x \in S : f[x] <= g[x]
  PROVE  SumFunctionOnSet(f, S) <= SumFunctionOnSet(g, S)
<1> DEFINE P == {s \in SUBSET S : SumFunctionOnSet(f, s) <= SumFunctionOnSet(g, s)}
<1>1. ASSUME NEW s \in SUBSET S, \A x \in s : s \ {x} \in P PROVE s \in P
  <2>1. /\ IsFiniteSet(s) /\ \A x \in s : f[x] \in Int /\ g[x] \in Int
        /\ \A x \in s : IsFiniteSet(s \ {x})
    BY FS_Subset
  <2>2. CASE s = {}
    <3>1. SumFunctionOnSet(f, s) = 0 /\ SumFunctionOnSet(g, s) = 0
      BY <2>1, <2>2, SumStep
    <3> QED
      BY <3>1
  <2>3. CASE s # {}
    <3>1. PICK x \in s : TRUE
      BY <2>3
    <3>2. /\ SumFunctionOnSet(f, s) = f[x] + SumFunctionOnSet(f, s \ {x})
          /\ SumFunctionOnSet(g, s) = g[x] + SumFunctionOnSet(g, s \ {x})
      BY <2>1, SumStep
    <3>3. SumFunctionOnSet(f, s \ {x}) \in Int /\ SumFunctionOnSet(g, s \ {x}) \in Int
      BY <2>1, SumStep
    <3>4. SumFunctionOnSet(f, s \ {x}) <= SumFunctionOnSet(g, s \ {x})
      BY <1>1
    <3>5. f[x] \in Int /\ g[x] \in Int /\ f[x] <= g[x]
      BY <2>1
    <3>6. SumFunctionOnSet(f, s) <= SumFunctionOnSet(g, s)
      BY <3>2, <3>3, <3>4, <3>5
    <3> QED
      BY <3>6
  <2> QED
    BY <2>2, <2>3
<1> HIDE DEF P
<1>2. SUBSET S \subseteq P
  BY <1>1, SubsetInduction
<1> QED
  BY <1>2 DEF P

LEMMA SumEqual ==
  ASSUME NEW S, IsFiniteSet(S), NEW f, \A x \in S : f[x] \in Int,
         NEW g, \A x \in S : f[x] = g[x]
  PROVE  SumFunctionOnSet(f, S) = SumFunctionOnSet(g, S)
<1>1. SumFunctionOnSet(f, S) \in Int /\ SumFunctionOnSet(g, S) \in Int
  BY SumStep
<1>2. SumFunctionOnSet(f, S) <= SumFunctionOnSet(g, S)
  BY SumMonotone
<1>3. SumFunctionOnSet(g, S) <= SumFunctionOnSet(f, S)
  BY SumMonotone
<1> QED
  BY <1>1, <1>2, <1>3

\* One term changed.
LEMMA SumExcept ==
  ASSUME NEW S, IsFiniteSet(S), NEW f, \A x \in S : f[x] \in Int,
         NEW g, \A x \in S : g[x] \in Int,
         NEW i \in S, \A x \in S \ {i} : g[x] = f[x]
  PROVE  SumFunctionOnSet(g, S) = SumFunctionOnSet(f, S) - f[i] + g[i]
<1>1. IsFiniteSet(S \ {i})
  BY FS_Subset
<1>2. SumFunctionOnSet(f, S \ {i}) = SumFunctionOnSet(g, S \ {i})
  BY <1>1, SumEqual
<1>3. SumFunctionOnSet(f, S \ {i}) \in Int
  BY <1>1, SumStep
<1>4. /\ SumFunctionOnSet(f, S) = f[i] + SumFunctionOnSet(f, S \ {i})
      /\ SumFunctionOnSet(g, S) = g[i] + SumFunctionOnSet(g, S \ {i})
  BY SumStep
<1> QED
  BY <1>2, <1>3, <1>4

\* No terms but zeros.
LEMMA SumZero ==
  ASSUME NEW S, IsFiniteSet(S), NEW f, \A x \in S : f[x] = 0
  PROVE  SumFunctionOnSet(f, S) = 0
<1> DEFINE P == {s \in SUBSET S : SumFunctionOnSet(f, s) = 0}
<1>1. ASSUME NEW s \in SUBSET S, \A x \in s : s \ {x} \in P PROVE s \in P
  <2>1. IsFiniteSet(s) /\ \A x \in s : f[x] = 0 /\ f[x] \in Int
    BY FS_Subset
  <2>2. /\ s = {} => SumFunctionOnSet(f, s) = 0
        /\ \A x \in s : SumFunctionOnSet(f, s) = f[x] + SumFunctionOnSet(f, s \ {x})
    BY <2>1, SumStep
  <2>3. ASSUME NEW x \in s PROVE SumFunctionOnSet(f, s) = 0
    <3>1. SumFunctionOnSet(f, s) = 0 + 0
      BY <1>1, <2>1, <2>2
    <3> QED
      BY <3>1
  <2> QED
    BY <2>2, <2>3
<1> HIDE DEF P
<1>2. SUBSET S \subseteq P
  BY <1>1, SubsetInduction
<1> QED
  BY <1>2 DEF P

\* The terms outside T are zero.
LEMMA SumSubset ==
  ASSUME NEW S, IsFiniteSet(S), NEW f, \A x \in S : f[x] \in Int,
         NEW T \in SUBSET S, \A x \in S \ T : f[x] = 0
  PROVE  SumFunctionOnSet(f, S) = SumFunctionOnSet(f, T)
<1> DEFINE P == {s \in SUBSET S : T \subseteq s =>
                    SumFunctionOnSet(f, s) = SumFunctionOnSet(f, T)}
<1>1. ASSUME NEW s \in SUBSET S, \A x \in s : s \ {x} \in P PROVE s \in P
  <2> SUFFICES ASSUME T \subseteq s PROVE SumFunctionOnSet(f, s) = SumFunctionOnSet(f, T)
    OBVIOUS
  <2>1. CASE s = T
    BY <2>1
  <2>2. CASE s # T
    <3>1. PICK x \in s : x \notin T
      BY <2>2
    <3>2. IsFiniteSet(s) /\ \A y \in s : f[y] \in Int
      BY FS_Subset
    <3>3. SumFunctionOnSet(f, s) = f[x] + SumFunctionOnSet(f, s \ {x})
      BY <3>2, SumStep
    <3>4. SumFunctionOnSet(f, s \ {x}) = SumFunctionOnSet(f, T) /\ f[x] = 0
      BY <1>1, <3>1
    <3>5. SumFunctionOnSet(f, T) \in Int
      <4>1. IsFiniteSet(T) /\ \A y \in T : f[y] \in Int
        BY FS_Subset
      <4> QED
        BY <4>1, SumStep
    <3> QED
      BY <3>3, <3>4, <3>5
  <2> QED
    BY <2>1, <2>2
<1>2. SUBSET S \subseteq P
  <2> HIDE DEF P
  <2> QED
    BY <1>1, SubsetInduction
<1> QED
  BY <1>2

\* A term is part of a sum of natural numbers.
LEMMA SumOfNat ==
  ASSUME NEW S, IsFiniteSet(S), NEW f, \A x \in S : f[x] \in Nat
  PROVE  SumFunctionOnSet(f, S) \in Nat /\ \A x \in S : f[x] <= SumFunctionOnSet(f, S)
<1> DEFINE z == [x \in S |-> 0]
<1>1. SumFunctionOnSet(z, S) = 0
  BY SumZero
<1>2. SumFunctionOnSet(f, S) \in Int /\ SumFunctionOnSet(z, S) <= SumFunctionOnSet(f, S)
  BY SumStep, SumMonotone
<1>3. ASSUME NEW x \in S PROVE f[x] <= SumFunctionOnSet(f, S)
  <2> DEFINE y == [w \in S |-> IF w = x THEN f[x] ELSE 0]
  <2>1. SumFunctionOnSet(y, S) <= SumFunctionOnSet(f, S)
    BY SumMonotone
  <2>2. SumFunctionOnSet(y, S) = SumFunctionOnSet(z, S) - z[x] + y[x]
    <3>1. /\ \A w \in S : z[w] \in Int /\ y[w] \in Int
          /\ \A w \in S \ {x} : y[w] = z[w]
      OBVIOUS
    <3> HIDE DEF y, z
    <3> QED
      BY <3>1, SumExcept
  <2>3. z[x] = 0 /\ y[x] = f[x]
    OBVIOUS
  <2> HIDE DEF y, z
  <2> QED
    BY <1>1, <1>2, <2>1, <2>2, <2>3
<1> HIDE DEF z
<1> QED
  BY <1>1, <1>2, <1>3
--------------------------------------------------------------------------------
(***************************************************************************)
(* Sums over sequences                                                      *)
(***************************************************************************)
\* Max picks the largest of finitely many numbers.
LEMMA MaxPicks ==
  ASSUME NEW n \in Nat, NEW s \in SUBSET (1..n), s # {}
  PROVE  Max(s) \in s
<1> DEFINE P == {m \in Nat : \A t \in (SUBSET (1..m)) \ {{}} :
                                \E x \in t : \A y \in t : x >= y}
<1>1. 0 \in P
  OBVIOUS
<1>2. ASSUME NEW m \in Nat, m \in P PROVE m+1 \in P
  <2> SUFFICES ASSUME NEW t \in (SUBSET (1..m+1)) \ {{}}
               PROVE  \E x \in t : \A y \in t : x >= y
    OBVIOUS
  <2>1. CASE m+1 \in t
    <3>1. \A y \in t : m+1 >= y
      OBVIOUS
    <3> QED
      BY <2>1, <3>1
  <2>2. CASE m+1 \notin t
    <3>1. \A y \in t : y \in 1..m
      BY <2>2
    <3> QED
      BY <1>2, <3>1
  <2> QED
    BY <2>1, <2>2
<1> HIDE DEF P
<1>3. n \in P
  BY <1>1, <1>2, NatSetInduction
<1>4. \E x \in s : \A y \in s : x >= y
  BY <1>3 DEF P
<1> QED
  BY <1>4 DEF Max

\* What FoldLeft computes when it adds f[i], the contribution of the i-th element,
\* to what it has: the addition is the other way round.
SeqFoldEq(g, f, n) ==
  g = [s \in SUBSET (1..n) |-> IF s = {} THEN 0 ELSE g[s \ {Max(s)}] + f[Max(s)]]

LEMMA SeqFoldIsSum ==
  ASSUME NEW n \in Nat, NEW f, \A j \in 1..n : f[j] \in Int
  PROVE  /\ \E g : SeqFoldEq(g, f, n)
         /\ \A g : SeqFoldEq(g, f, n) => g[1..n] = SumFunctionOnSet(f, 1..n)
<1> DEFINE S == 1..n
           c == [s \in (SUBSET S) \ {{}} |-> Max(s)]
<1>1. IsFiniteSet(S)
  BY FS_Interval
<1>2. \A s \in (SUBSET S) \ {{}} : Max(s) \in s
  BY MaxPicks
<1>3. Picks(c, S)
  BY <1>2 DEF Picks
<1>4. ASSUME NEW g, g \in [SUBSET S -> Int]
      PROVE  SeqFoldEq(g, f, n) <=> FoldEq(g, f, c, S)
  <2>1. ASSUME NEW s \in SUBSET S, s # {}
        PROVE  g[s \ {Max(s)}] + f[Max(s)] = f[c[s]] + g[s \ {c[s]}]
    <3>1. Max(s) \in S /\ s \ {Max(s)} \in SUBSET S /\ c[s] = Max(s)
      BY <1>2, <2>1
    <3>2. g[s \ {Max(s)}] \in Int /\ f[Max(s)] \in Int
      BY <1>4, <3>1
    <3>3. g[s \ {Max(s)}] + f[Max(s)] = f[Max(s)] + g[s \ {Max(s)}]
      BY <3>2
    <3> QED
      BY <3>1, <3>3
  <2> HIDE DEF c
  <2>2. \A s \in SUBSET S : (IF s = {} THEN 0 ELSE g[s \ {Max(s)}] + f[Max(s)])
                             = (IF s = {} THEN 0 ELSE f[c[s]] + g[s \ {c[s]}])
    BY <2>1
  <2> QED
    BY <2>2 DEF SeqFoldEq, FoldEq
<1>5. ASSUME NEW g, SeqFoldEq(g, f, n)
      PROVE  g \in [SUBSET S -> Int]
  <2> DEFINE P == {s \in SUBSET S : g[s] \in Int}
  <2>1. ASSUME NEW s \in SUBSET S, \A x \in s : s \ {x} \in P PROVE s \in P
    <3> SUFFICES g[s] \in Int
      OBVIOUS
    <3>1. g[s] = IF s = {} THEN 0 ELSE g[s \ {Max(s)}] + f[Max(s)]
      BY <1>5 DEF SeqFoldEq
    <3>2. CASE s = {}
      <4>1. g[s] = 0
        BY <3>1, <3>2
      <4> QED
        BY <4>1
    <3>3. CASE s # {}
      <4>1. Max(s) \in s /\ f[Max(s)] \in Int
        BY <1>2, <3>3
      <4>2. g[s \ {Max(s)}] \in Int
        BY <2>1, <4>1
      <4>3. g[s] = g[s \ {Max(s)}] + f[Max(s)]
        BY <3>1, <3>3
      <4> QED
        BY <4>1, <4>2, <4>3
    <3> QED
      BY <3>2, <3>3
  <2> HIDE DEF P, S
  <2>2. SUBSET S \subseteq P
    BY <1>1, <2>1, SubsetInduction
  <2>3. g = [s \in SUBSET S |-> g[s]]
    BY <1>5 DEF SeqFoldEq, S
  <2> QED
    BY <2>2, <2>3 DEF P
<1> HIDE DEF c
<1>6. PICK h : FoldEq(h, f, c, S)
  BY <1>1, <1>3, FoldExists
<1>7. IsSum(h, f, S)
  BY <1>1, <1>3, <1>6, FoldIsSum
<1>8. SeqFoldEq(h, f, n)
  BY <1>4, <1>6, <1>7 DEF IsSum
<1>9. ASSUME NEW g, SeqFoldEq(g, f, n)
      PROVE  g[S] = SumFunctionOnSet(f, S)
  <2>1. FoldEq(g, f, c, S)
    BY <1>4, <1>5, <1>9
  <2>2. IsSum(g, f, S)
    BY <1>1, <1>3, <2>1, FoldIsSum
  <2>3. PICK k : IsSum(k, f, S) /\ SumFunctionOnSet(f, S) = k[S]
    BY <1>1, SumIsSum
  <2> QED
    BY <1>1, <2>2, <2>3, SumUnique
<1> QED
  BY <1>8, <1>9

\* A fold over a set S that takes c[s] of every s: T[<<v, x>>] is the value after x
\* and v the value before.  There is such a function.
PickEq(g, T, base, c, S) ==
  g = [s \in SUBSET S |-> IF s = {} THEN base ELSE T[<<g[s \ {c[s]}], c[s]>>]]

LEMMA FoldPicks ==
  ASSUME NEW S, IsFiniteSet(S), NEW c, Picks(c, S),
         NEW V, NEW base \in V, NEW T \in [V \X S -> V]
  PROVE  \E g \in [SUBSET S -> V] : PickEq(g, T, base, c, S)
<1> DEFINE Upto(k, g) == \A s \in SUBSET S : Cardinality(s) <= k =>
                 g[s] = IF s = {} THEN base ELSE T[<<g[s \ {c[s]}], c[s]>>]
           N == {k \in Nat : \E g \in [SUBSET S -> V] : Upto(k, g)}
<1>1. \A s \in SUBSET S : IsFiniteSet(s) /\ Cardinality(s) \in Nat
  BY FS_Subset, FS_CardinalityType
<1>2. ASSUME NEW s \in SUBSET S, s # {}
      PROVE  /\ c[s] \in s /\ c[s] \in S /\ s \ {c[s]} \in SUBSET S
             /\ Cardinality(s \ {c[s]}) = Cardinality(s) - 1
  <2>1. c[s] \in s
    BY <1>2 DEF Picks
  <2> QED
    BY <1>1, <2>1, FS_RemoveElement
<1>3. 0 \in N
  <2> DEFINE g == [s \in SUBSET S |-> base]
  <2>1. Upto(0, g)
    <3> SUFFICES ASSUME NEW s \in SUBSET S, Cardinality(s) <= 0 PROVE s = {}
      OBVIOUS
    <3>1. Cardinality(s) = 0
      BY <1>1
    <3> QED
      BY <1>1, <3>1, FS_EmptySet
  <2>2. g \in [SUBSET S -> V]
    OBVIOUS
  <2> HIDE DEF g, Upto
  <2> QED
    BY <2>1, <2>2
<1>4. ASSUME NEW k \in Nat, k \in N PROVE k+1 \in N
  <2>1. PICK g \in [SUBSET S -> V] : Upto(k, g)
    BY <1>4
  <2> DEFINE v(s) == T[<<g[s \ {c[s]}], c[s]>>]
             g2 == [s \in SUBSET S |-> IF Cardinality(s) = k+1 THEN v(s) ELSE g[s]]
  <2>2. g2 \in [SUBSET S -> V]
    <3> SUFFICES ASSUME NEW s \in SUBSET S, Cardinality(s) = k+1 PROVE v(s) \in V
      OBVIOUS
    <3>1. ASSUME s = {} PROVE FALSE
      <4>1. Cardinality(s) = 0 /\ k+1 # 0
        BY <3>1, FS_EmptySet
      <4> QED
        BY <4>1
    <3>2. c[s] \in S /\ g[s \ {c[s]}] \in V
      BY <1>2, <3>1
    <3>3. <<g[s \ {c[s]}], c[s]>> \in V \X S
      BY <3>2
    <3> QED
      BY <3>3
  <2>3. Upto(k+1, g2)
    <3> SUFFICES ASSUME NEW s \in SUBSET S, Cardinality(s) <= k+1
                 PROVE  g2[s] = IF s = {} THEN base ELSE T[<<g2[s \ {c[s]}], c[s]>>]
      OBVIOUS
    <3>1. CASE s = {}
      <4>1. Cardinality(s) = 0 /\ 0 # k+1 /\ 0 <= k
        BY <3>1, FS_EmptySet
      <4> QED
        BY <2>1, <3>1, <4>1
    <3>2. CASE s # {}
      <4>1. s \ {c[s]} \in SUBSET S /\ Cardinality(s \ {c[s]}) = Cardinality(s) - 1
        BY <1>2, <3>2
      <4>2. g2[s \ {c[s]}] = g[s \ {c[s]}]
        <5>1. Cardinality(s \ {c[s]}) # k+1
          BY <1>1, <4>1
        <5> QED
          BY <4>1, <5>1
      <4>3. CASE Cardinality(s) = k+1
        BY <3>2, <4>2, <4>3
      <4>4. CASE Cardinality(s) # k+1
        <5>1. Cardinality(s) <= k
          BY <1>1, <4>4
        <5> QED
          BY <2>1, <3>2, <4>2, <4>4, <5>1
      <4> QED
        BY <4>3, <4>4
    <3> QED
      BY <3>1, <3>2
  <2> HIDE DEF g2, Upto
  <2> QED
    BY <2>2, <2>3
<1> HIDE DEF N
<1>5. Cardinality(S) \in N
  BY <1>1, <1>3, <1>4, NatSetInduction, S \in SUBSET S
<1>6. PICK g \in [SUBSET S -> V] : Upto(Cardinality(S), g)
  BY <1>5 DEF N
<1>7. \A s \in SUBSET S : Cardinality(s) <= Cardinality(S)
  BY FS_Subset
<1>8. \A s \in SUBSET S : g[s] = IF s = {} THEN base ELSE T[<<g[s \ {c[s]}], c[s]>>]
  BY <1>6, <1>7
<1>9. g = [s \in SUBSET S |-> IF s = {} THEN base ELSE T[<<g[s \ {c[s]}], c[s]>>]]
  BY <1>8
<1> QED
  BY <1>9 DEF PickEq

\* What FoldLeft computes from base when T[<<v, j>>] is its value after the j-th
\* element and v the value before: there is such a function.
RunEq(g, T, base, n) ==
  g = [s \in SUBSET (1..n) |-> IF s = {} THEN base ELSE T[<<g[s \ {Max(s)}], Max(s)>>]]

LEMMA FoldRuns ==
  ASSUME NEW n \in Nat, NEW V, NEW base \in V, NEW T \in [V \X (1..n) -> V]
  PROVE  \E g \in [SUBSET (1..n) -> V] : RunEq(g, T, base, n)
<1> DEFINE c == [s \in (SUBSET (1..n)) \ {{}} |-> Max(s)]
<1>1. IsFiniteSet(1..n)
  BY FS_Interval
<1>2. Picks(c, 1..n)
  BY MaxPicks DEF Picks
<1>3. \A s \in (SUBSET (1..n)) \ {{}} : c[s] = Max(s)
  OBVIOUS
<1> HIDE DEF c
<1>4. PICK g \in [SUBSET (1..n) -> V] : PickEq(g, T, base, c, 1..n)
  BY <1>1, <1>2, FoldPicks
<1>5. \A s \in SUBSET (1..n) : g[s] = IF s = {} THEN base ELSE T[<<g[s \ {Max(s)}], Max(s)>>]
  <2> TAKE s \in SUBSET (1..n)
  <2>1. g[s] = IF s = {} THEN base ELSE T[<<g[s \ {c[s]}], c[s]>>]
    BY <1>4 DEF PickEq
  <2> QED
    BY <1>3, <2>1
<1>6. g = [s \in SUBSET (1..n) |-> g[s]]
  OBVIOUS
<1>7. g = [s \in SUBSET (1..n) |-> IF s = {} THEN base ELSE T[<<g[s \ {Max(s)}], Max(s)>>]]
  BY <1>5, <1>6
<1> QED
  BY <1>7 DEF RunEq

\* The largest of the first n+1 numbers, and the others.
LEMMA MaxOfInterval ==
  ASSUME NEW n \in Nat
  PROVE  Max(1..n+1) = n+1 /\ (1..n+1) \ {n+1} = 1..n
<1>1. n+1 \in Nat /\ 1..n+1 \in SUBSET (1..n+1) /\ 1..n+1 # {}
  OBVIOUS
<1>2. \E x \in 1..n+1 : \A y \in 1..n+1 : x >= y
  OBVIOUS
<1>3. Max(1..n+1) \in 1..n+1 /\ \A y \in 1..n+1 : Max(1..n+1) >= y
  BY <1>2 DEF Max
<1> QED
  BY <1>3

\* The last element adds to the sum of the others.
LEMMA SumAppend ==
  ASSUME NEW n \in Nat, NEW f, \A j \in 1..n+1 : f[j] \in Int
  PROVE  SumFunctionOnSet(f, 1..n+1) = SumFunctionOnSet(f, 1..n) + f[n+1]
<1>1. IsFiniteSet(1..n+1) /\ IsFiniteSet(1..n)
  BY FS_Interval
<1>2. n+1 \in 1..n+1 /\ (1..n+1) \ {n+1} = 1..n
  OBVIOUS
<1>3. SumFunctionOnSet(f, 1..n+1) = f[n+1] + SumFunctionOnSet(f, 1..n)
  BY <1>1, <1>2, SumStep
<1>4. SumFunctionOnSet(f, 1..n) \in Int /\ f[n+1] \in Int
  BY <1>1, <1>2, SumStep
<1> QED
  BY <1>3, <1>4

\* Taking off the first element takes its part off the sum.
LEMMA SumTail ==
  ASSUME NEW n \in Nat, NEW f, \A j \in 1..n+1 : f[j] \in Int,
         NEW g, \A j \in 1..n : g[j] = f[j+1]
  PROVE  SumFunctionOnSet(g, 1..n) = SumFunctionOnSet(f, 1..n+1) - f[1]
<1> DEFINE Sf(m) == SumFunctionOnSet(f, 1..m)
           Sg(m) == SumFunctionOnSet(g, 1..m)
           P == {m \in Nat : m <= n => Sg(m) = Sf(m+1) - f[1]}
<1>1. ASSUME NEW m \in Nat, m <= n
      PROVE  /\ Sg(m) \in Int /\ Sf(m) \in Int /\ Sf(m+1) = Sf(m) + f[m+1]
             /\ f[m+1] \in Int /\ (m < n => Sg(m+1) = Sg(m) + f[m+2])
  <2>1. /\ \A j \in 1..m+1 : f[j] \in Int
        /\ \A j \in 1..m : f[j] \in Int /\ g[j] \in Int
        /\ m < n => \A j \in 1..m+1 : g[j] \in Int /\ g[j] = f[j+1]
    BY <1>1
  <2>2. IsFiniteSet(1..m) /\ m+1 \in 1..m+1
    BY FS_Interval
  <2>3. Sg(m) \in Int /\ Sf(m) \in Int /\ f[m+1] \in Int
    BY <2>1, <2>2, SumStep
  <2>4. Sf(m+1) = Sf(m) + f[m+1]
    BY <2>1, SumAppend
  <2>5. m < n => Sg(m+1) = Sg(m) + g[m+1] /\ g[m+1] = f[m+2]
    BY <2>1, <2>2, SumAppend
  <2> QED
    BY <2>3, <2>4, <2>5
<1>2. 0 \in P
  <2>1. Sg(0) = 0 /\ Sf(0) = 0
    <3>1. 1..0 = {} /\ IsFiniteSet({})
      BY FS_EmptySet
    <3> QED
      BY <3>1, SumStep
  <2> HIDE DEF Sf, Sg
  <2>2. Sf(0+1) = Sf(0) + f[0+1] /\ f[0+1] \in Int
    BY <1>1
  <2> QED
    BY <2>1, <2>2
<1>3. ASSUME NEW m \in Nat, m \in P PROVE m+1 \in P
  <2> SUFFICES ASSUME m+1 <= n PROVE Sg(m+1) = Sf((m+1)+1) - f[1]
    OBVIOUS
  <2>1. Sg(m) = Sf(m+1) - f[1]
    BY <1>3
  <2>2. /\ Sg(m+1) = Sg(m) + f[m+2] /\ Sf(m+1) \in Int
        /\ Sf((m+1)+1) = Sf(m+1) + f[(m+1)+1]
    BY <1>1
  <2>3. (m+1)+1 = m+2 /\ f[1] \in Int /\ f[m+2] \in Int
    OBVIOUS
  <2> HIDE DEF Sf, Sg
  <2> QED
    BY <2>1, <2>2, <2>3
<1> HIDE DEF P
<1>4. n \in P
  BY <1>2, <1>3, NatSetInduction
<1> QED
  BY <1>4 DEF P
--------------------------------------------------------------------------------
(***************************************************************************)
(* Sequences of sequences, one after another                                *)
(***************************************************************************)
\* h[m] is the first m sequences of a, one after another.
IsConcat(h, a, n) ==
  h = [m \in 1..n |-> IF m = 1 THEN a[m] ELSE h[m-1] \o a[m]]

LEMMA ConcatExists ==
  ASSUME NEW X, NEW n \in Nat, NEW a \in [1..n -> Seq(X)]
  PROVE  \E h \in [1..n -> Seq(X)] : IsConcat(h, a, n)
<1> DEFINE P == {k \in Nat : \E h \in [1..n -> Seq(X)] : \A m \in 1..n :
                    m <= k => h[m] = IF m = 1 THEN a[m] ELSE h[m-1] \o a[m]}
<1>1. 0 \in P
  <2>1. [m \in 1..n |-> << >>] \in [1..n -> Seq(X)]
    OBVIOUS
  <2>2. \A m \in 1..n : ~(m <= 0)
    OBVIOUS
  <2> QED
    BY <2>1, <2>2
<1>2. ASSUME NEW k \in Nat, k \in P PROVE k+1 \in P
  <2>1. PICK h \in [1..n -> Seq(X)] : \A m \in 1..n :
          m <= k => h[m] = IF m = 1 THEN a[m] ELSE h[m-1] \o a[m]
    BY <1>2
  <2> DEFINE v == IF k+1 = 1 THEN a[k+1] ELSE h[k] \o a[k+1]
             h2 == [h EXCEPT ![k+1] = v]
  <2>2. h2 \in [1..n -> Seq(X)] /\ \A m \in 1..n : m # k+1 => h2[m] = h[m]
    <3>1. k+1 \in 1..n => v \in Seq(X)
      <4>1. CASE k+1 = 1
        BY <4>1
      <4>2. CASE k+1 # 1
        <5> SUFFICES ASSUME k+1 \in 1..n PROVE h[k] \o a[k+1] \in Seq(X)
          BY <4>2
        <5>1. k \in 1..n
          BY <4>2
        <5>2. h[k] \in Seq(X) /\ a[k+1] \in Seq(X)
          BY <5>1
        <5> QED
          BY <5>2, ConcatProperties
      <4> QED
        BY <4>1, <4>2
    <3> HIDE DEF v
    <3> QED
      BY <3>1
  <2>3. k+1 \in 1..n => h2[k+1] = v
    OBVIOUS
  <2>4. ASSUME NEW m \in 1..n, m <= k+1
        PROVE  h2[m] = IF m = 1 THEN a[m] ELSE h2[m-1] \o a[m]
    <3>1. CASE m = k+1
      <4>1. m # 1 => m-1 \in 1..n /\ m-1 # k+1 /\ m-1 = k
        BY <3>1
      <4>2. m # 1 => h2[m-1] = h[k]
        BY <2>2, <4>1
      <4>3. h2[m] = v
        BY <2>3, <3>1
      <4> HIDE DEF h2
      <4> QED
        BY <3>1, <4>2, <4>3
    <3>2. CASE m # k+1
      <4>1. m <= k /\ (m # 1 => m-1 \in 1..n /\ m-1 # k+1)
        BY <2>4, <3>2
      <4>2. h2[m] = h[m] /\ (m # 1 => h2[m-1] = h[m-1])
        BY <2>2, <3>2, <4>1
      <4>3. h[m] = IF m = 1 THEN a[m] ELSE h[m-1] \o a[m]
        BY <2>1, <4>1
      <4> HIDE DEF h2
      <4> QED
        BY <4>2, <4>3
    <3> QED
      BY <3>1, <3>2
  <2> HIDE DEF h2
  <2>5. h2 \in [1..n -> Seq(X)] /\ k+1 \in Nat
    BY <2>2
  <2>6. \A m \in 1..n : m <= k+1 => h2[m] = IF m = 1 THEN a[m] ELSE h2[m-1] \o a[m]
    BY <2>4
  <2> HIDE DEF v
  <2> QED
    BY <2>5, <2>6
<1> HIDE DEF P
<1>3. n \in P
  BY <1>1, <1>2, NatSetInduction
<1>4. PICK h \in [1..n -> Seq(X)] : \A m \in 1..n :
        m <= n => h[m] = IF m = 1 THEN a[m] ELSE h[m-1] \o a[m]
  BY <1>3 DEF P
<1>5. \A m \in 1..n : h[m] = IF m = 1 THEN a[m] ELSE h[m-1] \o a[m]
  BY <1>4
<1>6. h = [m \in 1..n |-> IF m = 1 THEN a[m] ELSE h[m-1] \o a[m]]
  BY <1>5
<1> QED
  BY <1>6 DEF IsConcat

LEMMA ConcatUnique ==
  ASSUME NEW X, NEW n \in Nat, NEW m \in Nat, m <= n,
         NEW a, \A j \in 1..n : a[j] \in Seq(X), NEW b, \A j \in 1..m : b[j] = a[j],
         NEW g, IsConcat(g, b, m), NEW h, IsConcat(h, a, n)
  PROVE  \A i \in 1..m : g[i] = h[i] /\ h[i] \in Seq(X)
<1> DEFINE P == {i \in Nat : i \in 1..m => g[i] = h[i] /\ h[i] \in Seq(X)}
<1>1. \A i \in 1..m : g[i] = IF i = 1 THEN b[i] ELSE g[i-1] \o b[i]
  BY DEF IsConcat
<1>2. \A i \in 1..m : h[i] = IF i = 1 THEN a[i] ELSE h[i-1] \o a[i]
  <2>1. \A i \in 1..n : h[i] = IF i = 1 THEN a[i] ELSE h[i-1] \o a[i]
    BY DEF IsConcat
  <2> QED
    BY <2>1
<1>3. 0 \in P
  OBVIOUS
<1>4. ASSUME NEW i \in Nat, i \in P PROVE i+1 \in P
  <2> SUFFICES ASSUME i+1 \in 1..m PROVE g[i+1] = h[i+1] /\ h[i+1] \in Seq(X)
    OBVIOUS
  <2>1. b[i+1] = a[i+1] /\ a[i+1] \in Seq(X)
    OBVIOUS
  <2>2. CASE i+1 = 1
    BY <1>1, <1>2, <2>1, <2>2
  <2>3. CASE i+1 # 1
    <3>1. (i+1)-1 = i /\ i \in 1..m
      BY <2>3
    <3>2. g[i+1] = g[i] \o b[i+1] /\ h[i+1] = h[i] \o a[i+1]
      BY <1>1, <1>2, <2>3, <3>1
    <3>3. g[i] = h[i] /\ h[i] \in Seq(X)
      BY <1>4, <3>1
    <3> QED
      BY <2>1, <3>2, <3>3, ConcatProperties
  <2> QED
    BY <2>2, <2>3
<1> HIDE DEF P
<1>5. Nat \subseteq P
  BY <1>3, <1>4, NatSetInduction
<1> QED
  BY <1>5 DEF P

\* The first m sequences of a, one after another.
Flat(a, m) == FlattenSeq([j \in 1..m |-> a[j]])

\* FlattenSeq takes the sequences in their order.
LEMMA FlatStep ==
  ASSUME NEW X, NEW n \in Nat, NEW a, \A j \in 1..n : a[j] \in Seq(X)
  PROVE  /\ Flat(a, 0) = << >>
         /\ \A m \in 0..n : Flat(a, m) \in Seq(X)
         /\ \A m \in 0..n-1 : Flat(a, m+1) = Flat(a, m) \o a[m+1]
<1> DEFINE b(m) == [j \in 1..m |-> a[j]]
<1>1. Flat(a, 0) = << >>
  <2>1. b(0) = << >> /\ Len(b(0)) = 0
    OBVIOUS
  <2> HIDE DEF b
  <2> QED
    BY <2>1 DEF FlattenSeq, Flat, b
<1>2. PICK h \in [1..n -> Seq(X)] : IsConcat(h, b(n), n)
  <2>1. b(n) \in [1..n -> Seq(X)]
    OBVIOUS
  <2> HIDE DEF b
  <2> QED
    BY <2>1, ConcatExists
<1>3. ASSUME NEW m \in 1..n
      PROVE  Flat(a, m) = h[m]
  <2>1. m \in Nat /\ m <= n /\ m \in 1..m
    OBVIOUS
  <2>2. b(m) \in [1..m -> Seq(X)] /\ Len(b(m)) = m /\ m # 0
    OBVIOUS
  <2>3. \A j \in 1..n : b(n)[j] \in Seq(X)
    OBVIOUS
  <2>4. \A j \in 1..m : b(m)[j] = b(n)[j]
    OBVIOUS
  <2>5. Flat(a, m) = FlattenSeq(b(m))
    BY DEF Flat
  <2> HIDE DEF b
  <2>6. FlattenSeq(b(m)) = (CHOOSE g : IsConcat(g, b(m), m))[m]
    BY <2>2 DEF FlattenSeq, IsConcat
  <2>7. \E g : IsConcat(g, b(m), m)
    BY <2>1, <2>2, ConcatExists
  <2> DEFINE k == CHOOSE g : IsConcat(g, b(m), m)
  <2>8. IsConcat(k, b(m), m)
    BY <2>7
  <2> HIDE DEF k
  <2>9. \A i \in 1..m : k[i] = h[i] /\ h[i] \in Seq(X)
    BY <1>2, <2>1, <2>3, <2>4, <2>8, ConcatUnique
  <2>10. k[m] = h[m]
    BY <2>1, <2>9
  <2> QED
    BY <2>5, <2>6, <2>10 DEF k
<1>4. \A m \in 1..n : h[m] = IF m = 1 THEN a[m] ELSE h[m-1] \o a[m]
  BY <1>2 DEF IsConcat
<1>5. ASSUME NEW m \in 1..n
      PROVE  Flat(a, m) = Flat(a, m-1) \o a[m]
  <2>1. CASE m = 1
    <3>0. m-1 = 0
      BY <2>1
    <3>1. Flat(a, m) = a[1] /\ Flat(a, m-1) = << >> /\ a[1] \in Seq(X)
      BY <1>1, <1>3, <1>4, <2>1, <3>0
    <3>2. << >> \o a[1] = a[1]
      BY <3>1, ConcatEmptySeq
    <3> QED
      BY <2>1, <3>1, <3>2
  <2>2. CASE m # 1
    <3>1. m-1 \in 1..n
      BY <2>2
    <3>2. Flat(a, m) = h[m] /\ Flat(a, m-1) = h[m-1]
      BY <1>3, <3>1
    <3>3. h[m] = h[m-1] \o a[m]
      BY <1>4, <2>2
    <3> QED
      BY <3>2, <3>3
  <2> QED
    BY <2>1, <2>2
<1>6. ASSUME NEW m \in 0..n
      PROVE  Flat(a, m) \in Seq(X)
  <2>1. m # 0 => Flat(a, m) = h[m] /\ h[m] \in Seq(X)
    BY <1>3
  <2>2. << >> \in Seq(X)
    OBVIOUS
  <2> QED
    BY <1>1, <2>1, <2>2
<1>7. ASSUME NEW m \in 0..n-1
      PROVE  Flat(a, m+1) = Flat(a, m) \o a[m+1]
  <2>1. m+1 \in 1..n /\ (m+1)-1 = m
    OBVIOUS
  <2> QED
    BY <1>5, <2>1
<1> QED
  BY <1>1, <1>6, <1>7

\* The same sequences.
LEMMA FlatSame ==
  ASSUME NEW m \in Nat, NEW a, NEW b, \A j \in 1..m : a[j] = b[j]
  PROVE  Flat(a, m) = Flat(b, m)
<1>1. [j \in 1..m |-> a[j]] = [j \in 1..m |-> b[j]]
  OBVIOUS
<1> QED
  BY <1>1 DEF Flat

\* Empty sequences at the end.
LEMMA FlatEmptyEnd ==
  ASSUME NEW X, NEW m \in Nat, NEW n \in Nat, m <= n,
         NEW a, \A j \in 1..n : a[j] \in Seq(X), \A j \in m+1..n : a[j] = << >>
  PROVE  Flat(a, n) = Flat(a, m)
<1> DEFINE P == {i \in Nat : m + i <= n => Flat(a, m+i) = Flat(a, m)}
<1>0. /\ \A i \in 0..n : Flat(a, i) \in Seq(X)
      /\ \A i \in 0..n-1 : Flat(a, i+1) = Flat(a, i) \o a[i+1]
  BY FlatStep
<1>1. 0 \in P
  OBVIOUS
<1>2. ASSUME NEW i \in Nat, i \in P PROVE i+1 \in P
  <2> SUFFICES ASSUME m + (i+1) <= n PROVE Flat(a, m+(i+1)) = Flat(a, m)
    OBVIOUS
  <2>1. m+(i+1) \in m+1..n /\ m+(i+1) = (m+i)+1 /\ m+i \in 0..n-1 /\ m \in 0..n /\ m+i <= n
    OBVIOUS
  <2>2. Flat(a, m+(i+1)) = Flat(a, m+i) \o a[m+(i+1)]
    BY <1>0, <2>1
  <2>3. a[m+(i+1)] = << >>
    BY <2>1
  <2>4. Flat(a, m+i) = Flat(a, m) /\ Flat(a, m) \in Seq(X)
    BY <1>0, <1>2, <2>1
  <2> QED
    BY <2>2, <2>3, <2>4, ConcatEmptySeq
<1> HIDE DEF P
<1>3. n - m \in P
  <2>1. n - m \in Nat
    OBVIOUS
  <2> QED
    BY <1>1, <1>2, <2>1, NatSetInduction
<1>4. m + (n - m) = n
  OBVIOUS
<1> QED
  BY <1>3, <1>4 DEF P

\* Empty sequences at the beginning.
LEMMA FlatEmptyStart ==
  ASSUME NEW X, NEW k \in Nat, NEW n \in Nat,
         NEW a, \A j \in 1..k+n : a[j] \in Seq(X), \A j \in 1..k : a[j] = << >>,
         NEW b, \A j \in 1..n : b[j] = a[k+j]
  PROVE  Flat(b, n) = Flat(a, k+n)
<1>0. /\ Flat(a, 0) = << >>
      /\ \A i \in 0..(k+n)-1 : Flat(a, i+1) = Flat(a, i) \o a[i+1]
  <2>1. PICK N \in Nat : N = k+n
    OBVIOUS
  <2>2. N \in Nat /\ \A j \in 1..N : a[j] \in Seq(X)
    BY <2>1
  <2>3. /\ Flat(a, 0) = << >>
        /\ \A i \in 0..N : Flat(a, i) \in Seq(X)
        /\ \A i \in 0..N-1 : Flat(a, i+1) = Flat(a, i) \o a[i+1]
    BY ONLY <2>2, FlatStep
  <2> QED
    BY <2>1, <2>3
<1>6. /\ Flat(b, 0) = << >>
      /\ \A i \in 0..n : Flat(b, i) \in Seq(X)
      /\ \A i \in 0..n-1 : Flat(b, i+1) = Flat(b, i) \o b[i+1]
  <2>1. ASSUME NEW j \in 1..n PROVE b[j] \in Seq(X)
    <3>1. k+j \in 1..k+n
      OBVIOUS
    <3> QED
      BY <3>1
  <2>2. n \in Nat /\ \A j \in 1..n : b[j] \in Seq(X)
    BY <2>1
  <2> QED
    BY ONLY <2>2, FlatStep
<1> DEFINE P == {i \in Nat : i <= n => Flat(b, i) = Flat(a, k+i)}
<1>2. 0 \in P
  <2>1. Flat(b, 0) = << >> /\ Flat(a, 0) = << >>
    BY <1>0, <1>6
  <2>2. /\ \A j \in 1..k : a[j] \in Seq(X)
        /\ \A j \in 0+1..k : a[j] = << >>
        /\ 0 \in Nat /\ 0 <= k /\ k+0 = k
    OBVIOUS
  <2>3. Flat(a, k) = Flat(a, 0)
    BY <2>2, FlatEmptyEnd
  <2> QED
    BY <2>1, <2>2, <2>3
<1>3. ASSUME NEW i \in Nat, i \in P PROVE i+1 \in P
  <2> SUFFICES ASSUME i+1 <= n PROVE Flat(b, i+1) = Flat(a, k+(i+1))
    OBVIOUS
  <2>1. /\ i+1 \in 1..n /\ i \in 0..n-1 /\ k+(i+1) = (k+i)+1 /\ k+i \in 0..(k+n)-1
        /\ i <= n
    OBVIOUS
  <2>2. Flat(b, i+1) = Flat(b, i) \o b[i+1]
    BY <1>6, <2>1
  <2>3. Flat(a, k+(i+1)) = Flat(a, k+i) \o a[k+(i+1)]
    BY <1>0, <2>1
  <2>4. Flat(b, i) = Flat(a, k+i) /\ b[i+1] = a[k+(i+1)]
    BY <1>3, <2>1
  <2> QED
    BY <2>2, <2>3, <2>4
<1> HIDE DEF P
<1>4. n \in P
  BY <1>2, <1>3, NatSetInduction
<1> QED
  BY <1>4 DEF P

\* The first element of the first sequence.
LEMMA FlatTail ==
  ASSUME NEW X, NEW n \in Nat, n >= 1, NEW a, \A j \in 1..n : a[j] \in Seq(X),
         a[1] # << >>,
         NEW b, b[1] = Tail(a[1]), \A j \in 2..n : b[j] = a[j]
  PROVE  /\ Flat(a, n) # << >> /\ Head(Flat(a, n)) = Head(a[1])
         /\ Flat(b, n) = Tail(Flat(a, n))
<1> DEFINE P == {i \in Nat : i+1 <= n =>
                   /\ Flat(a, i+1) # << >> /\ Head(Flat(a, i+1)) = Head(a[1])
                   /\ Flat(b, i+1) = Tail(Flat(a, i+1))}
<1>1. a[1] \in Seq(X) /\ Tail(a[1]) \in Seq(X)
  <2>1. 1 \in 1..n
    OBVIOUS
  <2>2. a[1] \in Seq(X)
    BY <2>1
  <2> QED
    BY <2>2
<1>2. ASSUME NEW j \in 1..n PROVE b[j] \in Seq(X)
  <2>1. CASE j = 1
    BY <1>1, <2>1
  <2>2. CASE j # 1
    <3>1. j \in 2..n
      BY <2>2
    <3> QED
      BY <3>1
  <2> QED
    BY <2>1, <2>2
<1>0. /\ Flat(a, 0) = << >> /\ \A i \in 0..n : Flat(a, i) \in Seq(X)
      /\ \A i \in 0..n-1 : Flat(a, i+1) = Flat(a, i) \o a[i+1]
  BY FlatStep
<1>7. /\ Flat(b, 0) = << >> /\ \A i \in 0..n-1 : Flat(b, i+1) = Flat(b, i) \o b[i+1]
  BY <1>2, FlatStep
<1>3. 0 \in P
  <2>1. 0 \in 0..n-1 /\ 0+1 = 1
    OBVIOUS
  <2>2. /\ Flat(a, 1) = << >> \o a[1]
        /\ Flat(b, 1) = << >> \o b[1]
    BY <1>0, <1>7, <2>1
  <2>3. Flat(a, 1) = a[1] /\ Flat(b, 1) = Tail(a[1])
    BY <1>1, <2>2, ConcatEmptySeq
  <2> QED
    BY <2>1, <2>3
<1>4. ASSUME NEW i \in Nat, i \in P PROVE i+1 \in P
  <2> DEFINE m == i+1
  <2> SUFFICES ASSUME m+1 <= n
               PROVE  /\ Flat(a, m+1) # << >> /\ Head(Flat(a, m+1)) = Head(a[1])
                      /\ Flat(b, m+1) = Tail(Flat(a, m+1))
    OBVIOUS
  <2>1. m \in 0..n /\ m \in 0..n-1 /\ m+1 \in 1..n /\ m+1 \in 2..n /\ m <= n
    OBVIOUS
  <2>2. /\ Flat(a, m) # << >> /\ Head(Flat(a, m)) = Head(a[1])
        /\ Flat(b, m) = Tail(Flat(a, m))
    BY <1>4, <2>1
  <2> HIDE DEF m
  <2>3. /\ Flat(a, m+1) = Flat(a, m) \o a[m+1]
        /\ Flat(b, m+1) = Flat(b, m) \o b[m+1]
        /\ Flat(a, m) \in Seq(X)
    BY <1>0, <1>7, <2>1
  <2>4. b[m+1] = a[m+1] /\ a[m+1] \in Seq(X)
    BY <2>1
  <2>5. ASSUME NEW s \in Seq(X), s # << >>, NEW t \in Seq(X)
        PROVE  s \o t # << >> /\ Head(s \o t) = Head(s) /\ Tail(s \o t) = Tail(s) \o t
    BY <2>5
  <2>6. /\ Flat(a, m) \o a[m+1] # << >> /\ Head(Flat(a, m) \o a[m+1]) = Head(Flat(a, m))
        /\ Tail(Flat(a, m) \o a[m+1]) = Tail(Flat(a, m)) \o a[m+1]
    BY <2>2, <2>3, <2>4, <2>5
  <2> QED
    BY <2>2, <2>3, <2>4, <2>6
<1> HIDE DEF P
<1>5. n - 1 \in P
  <2>1. n - 1 \in Nat
    OBVIOUS
  <2> QED
    BY <1>3, <1>4, <2>1, NatSetInduction
<1>6. (n - 1) + 1 = n
  OBVIOUS
<1> QED
  BY <1>5, <1>6 DEF P
================================================================================
