------------------------------ MODULE SetSums ------------------------------
(***************************************************************************)
(* Sums over finite sets, as MapThenSumSet computes them: the facts about  *)
(* them that proofs of counters use.  The library takes its elements in an *)
(* order of its own; the sum does not depend on it.                        *)
(***************************************************************************)
EXTENDS Integers, FiniteSetsExt, FiniteSetTheorems, WellFoundedInduction, TLAPS

\* the sum of f over S
SumOf(f, S) == MapThenSumSet(LAMBDA x : f[x], S)

\* the sums of f over all subsets of S
IsSum(F, f, S) ==
  /\ F \in [SUBSET S -> Int]
  /\ F[{}] = 0
  /\ \A s \in SUBSET S : \A x \in s : F[s] = f[x] + F[s \ {x}]

-----------------------------------------------------------------------------
(* Induction *)

\* a set of natural numbers has a least one
LEMMA Least ==
  ASSUME NEW T, T \subseteq Nat, T # {}
  PROVE  \E x \in T : \A y \in T : x <= y
<1> DEFINE R == {ss \in Nat \X Nat : ss[1] < ss[2]}
<1>1. IsWellFoundedOn(R, Nat)
  BY NatLessThanWellFounded DEF OpToRel
<1>2. PICK x \in T : \A y \in T : ~ (<<y, x>> \in R)
  <2> HIDE DEF R
  <2> QED  BY <1>1, WFMin
<1>3. \A y \in T : x <= y
  <2> TAKE y \in T
  <2>1. <<y, x>> \in Nat \X Nat /\ x \in Nat /\ y \in Nat
    OBVIOUS
  <2>2. ~ (y < x)
    BY <1>2, <2>1
  <2> QED  BY <2>1, <2>2
<1> QED  BY <1>3

\* a set that holds 0, and with a number the next one, holds them all
LEMMA Induction ==
  ASSUME NEW P, 0 \in P, \A n \in Nat : n \in P => n + 1 \in P
  PROVE  Nat \subseteq P
<1> SUFFICES ASSUME Nat \ P # {} PROVE FALSE
  OBVIOUS
<1>1. PICK x \in Nat \ P : \A y \in Nat \ P : x <= y
  BY Least
<1>2. x # 0 /\ x - 1 \in Nat
  OBVIOUS
<1>3. x - 1 \in P
  BY <1>1, <1>2
<1>4. (x - 1) + 1 \in P
  BY <1>2, <1>3
<1> QED  BY <1>4

-----------------------------------------------------------------------------
(* The sum exists *)

\* the element of s that the library takes first
Pick(s) == CHOOSE x \in s : TRUE

\* the equation of the library for the subsets in C
Iterates(g, f, C) ==
  g = [s \in C |-> IF s = {} THEN 0 ELSE f[Pick(s)] + g[s \ {Pick(s)}]]

\* the subsets of S of at most n elements
Small(S, n) == {s \in SUBSET S : Cardinality(s) <= n}

\* what is left when an element is taken out
LEMMA Taken ==
  ASSUME NEW S, IsFiniteSet(S), NEW s \in SUBSET S, NEW x \in s
  PROVE  /\ s \ {x} \in SUBSET S
         /\ Cardinality(s) \in Nat
         /\ Cardinality(s \ {x}) = Cardinality(s) - 1
  BY FS_Subset, FS_RemoveElement, FS_CardinalityType

\* only the empty set has no element
LEMMA NoneLeft ==
  ASSUME NEW S, IsFiniteSet(S), NEW s \in SUBSET S
  PROVE  Cardinality(s) \in Nat /\ (Cardinality(s) <= 0 => s = {})
  BY FS_Subset, FS_EmptySet, FS_CardinalityType

\* a set that is not empty has an element to take
LEMMA Picked ==
  ASSUME NEW s, s # {}
  PROVE  Pick(s) \in s
  BY DEF Pick

\* from the subsets of at most n elements to those of one more
LEMMA Extended ==
  ASSUME NEW S, IsFiniteSet(S), NEW f, NEW n \in Nat, NEW g, Iterates(g, f, Small(S, n))
  PROVE  \E h : Iterates(h, f, Small(S, n + 1))
<1> DEFINE h == [s \in Small(S, n + 1) |->
                   IF s = {} THEN 0 ELSE f[Pick(s)] + g[s \ {Pick(s)}]]
<1>1. ASSUME NEW s \in Small(S, n + 1), s # {}
      PROVE  s \ {Pick(s)} \in Small(S, n)
  BY <1>1, Taken, Picked DEF Small
<1>2. Small(S, n) \subseteq Small(S, n + 1)
  BY FS_Subset, FS_CardinalityType DEF Small
<1>3. \A s \in Small(S, n) : h[s] = g[s]
  BY <1>2 DEF Iterates
<1>4. ASSUME NEW s \in Small(S, n + 1)
      PROVE  h[s] = IF s = {} THEN 0 ELSE f[Pick(s)] + h[s \ {Pick(s)}]
  <2>1. CASE s = {}
    BY <2>1
  <2>2. CASE s # {}
    BY <1>1, <1>3, <2>2
  <2> QED  BY <2>1, <2>2
<1>5. Iterates(h, f, Small(S, n + 1))
  BY <1>4 DEF Iterates
<1> QED  BY <1>5

\* the equation has a solution
LEMMA IterationExists ==
  ASSUME NEW S, IsFiniteSet(S), NEW f
  PROVE  \E g : Iterates(g, f, SUBSET S)
<1> DEFINE P == {n \in Nat : \E g : Iterates(g, f, Small(S, n))}
<1>1. 0 \in P
  <2> DEFINE g == [s \in Small(S, 0) |-> 0]
  <2>1. \A s \in Small(S, 0) : s = {}
    BY NoneLeft DEF Small
  <2>2. Iterates(g, f, Small(S, 0))
    BY <2>1 DEF Iterates
  <2> QED  BY <2>2
<1>2. \A n \in Nat : n \in P => n + 1 \in P
  BY Extended
<1>3. Nat \subseteq P
  <2> HIDE DEF P
  <2> QED  BY <1>1, <1>2, Induction
<1>4. Cardinality(S) \in Nat
  BY FS_CardinalityType
<1>5. Small(S, Cardinality(S)) = SUBSET S
  BY FS_Subset DEF Small
<1> QED  BY <1>3, <1>4, <1>5

-----------------------------------------------------------------------------
(* What the sum is *)

\* any element of s may be taken out of its sum
Decomposes(g, f, s) == g[s] \in Int /\ \A x \in s : g[s] = f[x] + g[s \ {x}]

\* if it may be for smaller sets, it may be for s: two are taken out in either order
LEMMA OneMore ==
  ASSUME NEW S, IsFiniteSet(S), NEW f, \A x \in S : f[x] \in Int,
         NEW g, Iterates(g, f, SUBSET S),
         NEW s \in SUBSET S, s # {},
         \A t \in SUBSET S : Cardinality(t) < Cardinality(s) => Decomposes(g, f, t)
  PROVE  Decomposes(g, f, s)
<1>1. PICK x \in s : g[s] = f[x] + g[s \ {x}]
  <2>1. g[s] = f[Pick(s)] + g[s \ {Pick(s)}]
    BY DEF Iterates
  <2> QED  BY <2>1, Picked
<1>2. ASSUME NEW y \in s
      PROVE  Decomposes(g, f, s \ {y})
  <2>1. s \ {y} \in SUBSET S /\ Cardinality(s) \in Nat /\ Cardinality(s \ {y}) = Cardinality(s) - 1
    BY Taken
  <2>2. Cardinality(s \ {y}) < Cardinality(s)
    BY <2>1
  <2> QED  BY <2>1, <2>2
<1>3. \A y \in s : g[s \ {y}] \in Int /\ f[y] \in Int
  BY <1>2 DEF Decomposes
<1>4. ASSUME NEW y \in s, y # x
      PROVE  g[s] = f[y] + g[s \ {y}]
  <2> DEFINE r == g[(s \ {x}) \ {y}]
  <2>1. g[s \ {x}] = f[y] + r
    BY <1>2, <1>4 DEF Decomposes
  <2>2. g[s \ {y}] = f[x] + r
    <3>1. (s \ {y}) \ {x} = (s \ {x}) \ {y}
      OBVIOUS
    <3> QED  BY <1>2, <1>4, <3>1 DEF Decomposes
  <2>3. r \in Int
    <3> DEFINE t == s \ {x}
    <3>1. t \in SUBSET S /\ y \in t /\ Cardinality(s) \in Nat /\ Cardinality(t) = Cardinality(s) - 1
      BY <1>4, Taken
    <3> HIDE DEF t
    <3>2. t \ {y} \in SUBSET S /\ Cardinality(t \ {y}) = Cardinality(t) - 1
      BY <3>1, Taken
    <3>3. Cardinality(t \ {y}) < Cardinality(s)
      BY <3>1, <3>2
    <3>4. g[t \ {y}] \in Int
      BY <3>2, <3>3 DEF Decomposes
    <3> QED  BY <3>4 DEF t
  <2> HIDE DEF r
  <2> QED  BY <1>1, <1>3, <2>1, <2>2, <2>3
<1>5. g[s] \in Int
  <2> DEFINE a == f[x]
             b == g[s \ {x}]
  <2>1. a \in Int /\ b \in Int /\ g[s] = a + b
    BY <1>1, <1>3
  <2> HIDE DEF a, b
  <2> QED  BY <2>1
<1>6. \A y \in s : g[s] = f[y] + g[s \ {y}]
  BY <1>1, <1>4
<1> QED  BY <1>5, <1>6 DEF Decomposes

\* the library's sums have the properties of sums
LEMMA IterationSums ==
  ASSUME NEW S, IsFiniteSet(S), NEW f, \A x \in S : f[x] \in Int,
         NEW g, Iterates(g, f, SUBSET S)
  PROVE  IsSum(g, f, S)
<1> DEFINE P == {n \in Nat : \A s \in SUBSET S : Cardinality(s) <= n => Decomposes(g, f, s)}
<1>1. g[{}] = 0 /\ DOMAIN g = SUBSET S
  BY DEF Iterates
<1>2. 0 \in P
  <2>1. \A s \in SUBSET S : Cardinality(s) <= 0 => s = {}
    BY NoneLeft, FS_Subset
  <2>2. Decomposes(g, f, {})
    BY <1>1 DEF Decomposes
  <2> QED  BY <2>1, <2>2
<1>3. ASSUME NEW n \in Nat, n \in P
      PROVE  n + 1 \in P
  <2>1. ASSUME NEW s \in SUBSET S, Cardinality(s) <= n + 1
        PROVE  Decomposes(g, f, s)
    <3>1. CASE s = {}
      BY <1>1, <3>1 DEF Decomposes
    <3>2. CASE s # {}
      <4>1. ASSUME NEW t \in SUBSET S, Cardinality(t) < Cardinality(s)
            PROVE  Decomposes(g, f, t)
        <5>1. Cardinality(t) \in Nat /\ Cardinality(s) \in Nat
          BY NoneLeft
        <5>2. Cardinality(t) <= n
          BY <2>1, <4>1, <5>1
        <5> QED  BY <1>3, <5>2
      <4> QED  BY <3>2, <4>1, OneMore
    <3> QED  BY <3>1, <3>2
  <2> QED  BY <2>1
<1>4. Nat \subseteq P
  <2> HIDE DEF P
  <2> QED  BY <1>2, <1>3, Induction
<1>5. \A s \in SUBSET S : Decomposes(g, f, s)
  BY <1>4, FS_Subset, FS_CardinalityType
<1>6. g \in [SUBSET S -> Int]
  BY <1>1, <1>5 DEF Iterates, Decomposes
<1> QED  BY <1>1, <1>5, <1>6 DEF IsSum, Decomposes

(***************************************************************************)
(* The sum of f over a finite set, as the library defines it, is 0 for the *)
(* empty set, and any element may be taken out of it first.                *)
(***************************************************************************)
LEMMA SumExists ==
  ASSUME NEW S, IsFiniteSet(S), NEW f, \A x \in S : f[x] \in Int
  PROVE  \E F : IsSum(F, f, S) /\ SumOf(f, S) = F[S]
<1> DEFINE iter == CHOOSE g : Iterates(g, f, SUBSET S)
<1>1. Iterates(iter, f, SUBSET S)
  BY IterationExists
<1>2. IsSum(iter, f, S)
  BY <1>1, IterationSums
<1>3. SumOf(f, S) = iter[S]
  BY DEF SumOf, MapThenSumSet, MapThenFoldSet, Iterates, Pick
<1> QED  BY <1>2, <1>3

\* sums over a set on which two functions agree
LEMMA SumSame ==
  ASSUME NEW S, IsFiniteSet(S), NEW f, NEW g, NEW F, NEW G,
         IsSum(F, f, S), IsSum(G, g, S),
         NEW T \in SUBSET S, \A x \in T : f[x] = g[x]
  PROVE  F[T] = G[T]
<1> DEFINE P == {n \in Nat : \A s \in SUBSET T : Cardinality(s) <= n => F[s] = G[s]}
<1>1. 0 \in P
  <2>1. \A s \in SUBSET T : Cardinality(s) <= 0 => s = {}
    BY NoneLeft, FS_Subset
  <2> QED  BY <2>1 DEF IsSum
<1>2. ASSUME NEW n \in Nat, n \in P
      PROVE  n + 1 \in P
  <2>1. ASSUME NEW s \in SUBSET T, Cardinality(s) <= n + 1
        PROVE  F[s] = G[s]
    <3>1. CASE s = {}
      BY <3>1 DEF IsSum
    <3>2. CASE s # {}
      <4>1. PICK x \in s : TRUE
        BY <3>2
      <4>2. s \in SUBSET S /\ s \ {x} \in SUBSET T
        OBVIOUS
      <4>3. Cardinality(s \ {x}) <= n
        BY <2>1, <4>2, Taken
      <4>4. F[s \ {x}] = G[s \ {x}]
        BY <1>2, <4>2, <4>3
      <4> QED  BY <4>2, <4>4 DEF IsSum
    <3> QED  BY <3>1, <3>2
  <2> QED  BY <2>1
<1>3. Nat \subseteq P
  <2> HIDE DEF P
  <2> QED  BY <1>1, <1>2, Induction
<1> QED  BY <1>3, FS_Subset, FS_CardinalityType

(***************************************************************************)
(* The sum of integers is an integer.                                      *)
(***************************************************************************)
LEMMA SumType ==
  ASSUME NEW S, IsFiniteSet(S), NEW f, \A x \in S : f[x] \in Int
  PROVE  SumOf(f, S) \in Int
<1>1. PICK F : IsSum(F, f, S) /\ SumOf(f, S) = F[S]
  BY SumExists
<1> QED  BY <1>1 DEF IsSum

(***************************************************************************)
(* The sum of zeros is zero.                                               *)
(***************************************************************************)
LEMMA SumZero ==
  ASSUME NEW S, IsFiniteSet(S), NEW f, \A x \in S : f[x] = 0
  PROVE  SumOf(f, S) = 0
<1>1. PICK F : IsSum(F, f, S) /\ SumOf(f, S) = F[S]
  BY SumExists
<1> DEFINE G == [s \in SUBSET S |-> 0]
<1>2. IsSum(G, f, S)
  BY DEF IsSum
<1>3. F[S] = G[S]
  <2> HIDE DEF G
  <2> QED  BY <1>1, <1>2, SumSame
<1> QED  BY <1>1, <1>3

(***************************************************************************)
(* A sum in which one summand changes changes by as much.                  *)
(***************************************************************************)
LEMMA SumChanged ==
  ASSUME NEW S, IsFiniteSet(S), NEW f, \A x \in S : f[x] \in Int,
         NEW g, NEW y \in S, g[y] \in Int, \A x \in S \ {y} : g[x] = f[x]
  PROVE  SumOf(g, S) = SumOf(f, S) + g[y] - f[y]
<1>1. PICK F : IsSum(F, f, S) /\ SumOf(f, S) = F[S]
  BY SumExists
<1>2. \A x \in S : g[x] \in Int
  OBVIOUS
<1>3. PICK G : IsSum(G, g, S) /\ SumOf(g, S) = G[S]
  BY <1>2, SumExists
<1>4. F[S \ {y}] = G[S \ {y}]
  BY <1>1, <1>3, SumSame
<1>5. F[S] = f[y] + F[S \ {y}] /\ G[S] = g[y] + G[S \ {y}]
  BY <1>1, <1>3 DEF IsSum
<1>6. F[S \ {y}] \in Int
  BY <1>1 DEF IsSum
<1> QED  BY <1>1, <1>3, <1>4, <1>5, <1>6
=============================================================================
