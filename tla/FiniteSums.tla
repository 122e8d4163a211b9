----------------------------- MODULE FiniteSums -----------------------------
(***************************************************************************)
(* Least and greatest numbers of a set, induction over the subsets of a    *)
(* finite set, and sums over finite sets (SumFunctionOnSet): what the      *)
(* proofs about retained bytes, delays and analyses need of them.          *)
(***************************************************************************)
EXTENDS Integers, Functions, FiniteSets, WellFoundedInduction, FiniteSetTheorems, TLAPS

(* A set of natural numbers that is not empty has a least element, and one *)
(* that is bounded a greatest.                                             *)
LEMMA LeastElement ==
    ASSUME NEW T, T \subseteq Nat, T # {}
    PROVE  \E n \in T : \A m \in T : n <= m
<1> DEFINE R == OpToRel(<, Nat)
<1>1. IsWellFoundedOn(R, Nat)
  BY NatLessThanWellFounded
<1>2. \A i, j \in Nat : i < j => <<i, j>> \in R
  BY DEF OpToRel
<1> HIDE DEF R
<1>3. PICK n \in T : \A m \in T : ~ (<<m, n>> \in R)
  BY <1>1, WFMin
<1>4. \A m \in T : ~ (m < n)
  BY <1>2, <1>3
<1> QED BY <1>4

LEMMA GreatestElement ==
    ASSUME NEW bound \in Nat, NEW T, T \subseteq 0 .. bound, T # {}
    PROVE  \E n \in T : \A m \in T : m <= n
<1> DEFINE Rest == {bound - n : n \in T}
<1>1. Rest \subseteq Nat /\ Rest # {}
  <2>1. \A n \in T : bound - n \in Nat
    OBVIOUS
  <2>2. PICK n \in T : TRUE
    OBVIOUS
  <2>3. bound - n \in Rest
    OBVIOUS
  <2> QED BY <2>1, <2>3
<1>2. PICK least \in Rest : \A m \in Rest : least <= m
  BY <1>1, LeastElement
<1>3. PICK n \in T : least = bound - n
  BY <1>2
<1>4. \A m \in T : bound - n <= bound - m
  BY <1>2, <1>3
<1> QED BY <1>3, <1>4

-----------------------------------------------------------------------------
(* Sums over finite sets.                                                  *)

(* What holds of a finite set when it holds of its proper subsets holds of *)
(* every subset of a finite set.                                           *)
LEMMA SubsetInduction ==
    ASSUME NEW S, IsFiniteSet(S), NEW Good,
           \A T \in SUBSET S : (\A U \in SUBSET T : U # T => U \in Good) => T \in Good
    PROVE  SUBSET S \subseteq Good
<1> SUFFICES ASSUME NEW B \in SUBSET S, B \notin Good PROVE FALSE
  OBVIOUS
<1> DEFINE Bad == { T \in SUBSET S : T \notin Good }
           Sizes == { Cardinality(T) : T \in Bad }
<1>1. \A T \in SUBSET S : IsFiniteSet(T) /\ Cardinality(T) \in Nat
  BY FS_Subset, FS_CardinalityType
<1>2. Sizes \subseteq Nat /\ Sizes # {}
  BY <1>1
<1>3. PICK n \in Sizes : \A m \in Sizes : n <= m
  BY <1>2, LeastElement
<1>4. PICK T \in Bad : n = Cardinality(T)
  BY <1>3
<1>5. PICK U \in SUBSET T : U # T /\ U \notin Good
  BY <1>4
<1>6. Cardinality(U) < Cardinality(T)
  BY <1>1, <1>4, <1>5, FS_Subset
<1>7. Cardinality(U) \in Sizes
  BY <1>4, <1>5
<1> QED BY <1>1, <1>3, <1>4, <1>5, <1>6, <1>7

(* The recursive function behind SumFunctionOnSet: what one unfolding of   *)
(* it makes of a function g on the subsets of S.                           *)
AnyOf(T) == CHOOSE x \in T : TRUE

SumStep(f, S, g) ==
    [T \in SUBSET S |-> IF T = {} THEN 0 ELSE f[AnyOf(T)] + g[T \ {AnyOf(T)}]]

LEMMA SumIsFixpoint ==
    ASSUME NEW f, NEW S
    PROVE  SumFunctionOnSet(f, S) = (CHOOSE g : g = SumStep(f, S, g))[S]
BY DEF SumFunctionOnSet, FoldFunctionOnSet, MapThenFoldSet, SumStep, AnyOf

(* The defining equation of the sum, which the recursive function has.     *)
Unfolds(f, T) ==
    SumFunctionOnSet(f, T) =
        IF T = {} THEN 0 ELSE f[AnyOf(T)] + SumFunctionOnSet(f, T \ {AnyOf(T)})

LEMMA SumUnfolds ==
    ASSUME NEW f, NEW S, IsFiniteSet(S)
    PROVE  Unfolds(f, S)
<1> DEFINE Good == { T \in SUBSET S : Unfolds(f, T) }
<1>1. ASSUME NEW T \in SUBSET S, \A U \in SUBSET T : U # T => U \in Good
      PROVE  Unfolds(f, T)
  <2> DEFINE Value(U) == IF U = {} THEN 0
                         ELSE f[AnyOf(U)] + SumFunctionOnSet(f, U \ {AnyOf(U)})
             h == [U \in SUBSET T |-> Value(U)]
  <2>1. \A U \in SUBSET T : U # {} => AnyOf(U) \in U
    BY DEF AnyOf
  <2>2. \A U \in SUBSET T : U # T => h[U] = SumFunctionOnSet(f, U)
    BY <1>1 DEF Unfolds
  <2>3. \A U \in SUBSET T : U # {} => /\ U \ {AnyOf(U)} \in SUBSET T
                                      /\ U \ {AnyOf(U)} # T
    BY <2>1
  <2>4. h = SumStep(f, T, h)
    <3>1. \A U \in SUBSET T : h[U] = IF U = {} THEN 0 ELSE f[AnyOf(U)] + h[U \ {AnyOf(U)}]
      BY <2>2, <2>3
    <3> QED BY <3>1 DEF SumStep
  <2> DEFINE c == CHOOSE g : g = SumStep(f, T, g)
  <2>5. c = SumStep(f, T, c)
    BY <2>4
  <2> HIDE DEF c
  <2>6. c[T] = h[T]
    <3> DEFINE Same == { U \in SUBSET T : c[U] = h[U] }
    <3>1. IsFiniteSet(T)
      BY FS_Subset
    <3>2. ASSUME NEW U \in SUBSET T,
                 \A V \in SUBSET U : V # U => V \in Same
          PROVE  c[U] = h[U]
      <4>1. CASE U = {}
        BY <4>1, <2>5 DEF SumStep
      <4>2. CASE U # {}
        <5>1. U \ {AnyOf(U)} \in SUBSET U /\ U \ {AnyOf(U)} # U
          BY <4>2, <2>1
        <5>2. c[U \ {AnyOf(U)}] = h[U \ {AnyOf(U)}]
          BY <3>2, <5>1
        <5>3. c[U] = f[AnyOf(U)] + c[U \ {AnyOf(U)}]
          BY <4>2, <2>5 DEF SumStep
        <5>4. h[U] = f[AnyOf(U)] + h[U \ {AnyOf(U)}]
          BY <4>2, <2>4 DEF SumStep
        <5> QED BY <5>2, <5>3, <5>4
      <4> QED BY <4>1, <4>2
    <3>3. \A U \in SUBSET T : (\A V \in SUBSET U : V # U => V \in Same) => U \in Same
      BY <3>2
    <3> HIDE DEF Same
    <3>4. T \in Same
      BY <3>1, <3>3, SubsetInduction
    <3> QED BY <3>4 DEF Same
  <2>7. SumFunctionOnSet(f, T) = c[T]
    BY SumIsFixpoint DEF c
  <2> QED BY <2>6, <2>7 DEF Unfolds
<1> HIDE DEF Good
<1>2. \A T \in SUBSET S : (\A U \in SUBSET T : U # T => U \in Good) => T \in Good
  BY <1>1 DEF Good
<1>3. S \in Good
  BY <1>2, SubsetInduction
<1> QED BY <1>3 DEF Good

(* A sum of natural numbers is one, and it does not matter which summand   *)
(* is taken first.                                                         *)
LEMMA SumOfNaturals ==
    ASSUME NEW f, NEW S, IsFiniteSet(S), \A x \in S : f[x] \in Nat
    PROVE  /\ SumFunctionOnSet(f, S) \in Nat
           /\ \A y \in S : SumFunctionOnSet(f, S) = f[y] + SumFunctionOnSet(f, S \ {y})
<1> DEFINE Sum(T) == SumFunctionOnSet(f, T)
           Holds(T) == SumFunctionOnSet(f, T) \in Nat
                     /\ \A y \in T : Sum(T) = f[y] + Sum(T \ {y})
           Good == { T \in SUBSET S : Holds(T) }
<1>1. ASSUME NEW T \in SUBSET S, \A U \in SUBSET T : U # T => U \in Good
      PROVE  Holds(T)
  <2>1. IsFiniteSet(T)
    BY FS_Subset
  <2>2. Sum(T) = IF T = {} THEN 0 ELSE f[AnyOf(T)] + Sum(T \ {AnyOf(T)})
    BY <2>1, SumUnfolds DEF Unfolds
  <2>3. \A x \in T : f[x] \in Nat /\ Holds(T \ {x})
    BY <1>1
  <2> HIDE DEF Sum
  <2>4. CASE T = {}
    BY <2>2, <2>4 DEF Sum
  <2>5. CASE T # {}
    <3> DEFINE x == AnyOf(T)
    <3>1. x \in T
      BY <2>5 DEF AnyOf
    <3>2. Sum(T) = f[x] + Sum(T \ {x})
      BY <2>2, <2>5
    <3>3. Sum(T) \in Nat
      BY <2>3, <3>1, <3>2 DEF Sum
    <3>4. ASSUME NEW y \in T, y # x PROVE Sum(T) = f[y] + Sum(T \ {y})
      <4> DEFINE rest == (T \ {x}) \ {y}
      <4>1. rest = (T \ {y}) \ {x}
        OBVIOUS
      <4>2. Sum(T \ {x}) = f[y] + Sum(rest)
        BY <2>3, <3>1, <3>4
      <4>3. Sum(T \ {y}) = f[x] + Sum(rest)
        BY <2>3, <3>1, <3>4, <4>1
      <4>4. f[x] \in Nat /\ f[y] \in Nat
        BY <2>3, <3>1
      <4>5. Sum(rest) \in Nat
        <5>1. rest \in SUBSET T /\ rest # T
          BY <3>1
        <5> QED BY <1>1, <5>1 DEF Sum
      <4> HIDE DEF rest, x
      <4> QED BY <3>2, <4>2, <4>3, <4>4, <4>5
    <3> QED BY <3>2, <3>3, <3>4 DEF Sum
  <2> QED BY <2>4, <2>5
<1> HIDE DEF Good
<1>2. \A T \in SUBSET S : (\A U \in SUBSET T : U # T => U \in Good) => T \in Good
  BY <1>1 DEF Good
<1>3. S \in Good
  BY <1>2, SubsetInduction
<1> QED BY <1>3 DEF Good

LEMMA SumOfNone ==
    ASSUME NEW f
    PROVE  SumFunctionOnSet(f, {}) = 0
BY SumUnfolds, FS_EmptySet DEF Unfolds

(* One more summand.                                                       *)
LEMMA SumWithOneMore ==
    ASSUME NEW f, NEW S, IsFiniteSet(S), NEW y, y \notin S,
           \A x \in S \cup {y} : f[x] \in Nat
    PROVE  SumFunctionOnSet(f, S \cup {y}) = SumFunctionOnSet(f, S) + f[y]
<1>1. IsFiniteSet(S \cup {y}) /\ (S \cup {y}) \ {y} = S
  BY FS_AddElement
<1>2. SumFunctionOnSet(f, S \cup {y}) = f[y] + SumFunctionOnSet(f, S)
  BY <1>1, SumOfNaturals
<1>3. SumFunctionOnSet(f, S) \in Nat /\ f[y] \in Nat
  BY SumOfNaturals
<1> QED BY <1>2, <1>3

(* The sum of what a function gives is nothing only where it gives nothing *)
(* anywhere.                                                               *)
LEMMA SumIsZero ==
    ASSUME NEW f, NEW S, IsFiniteSet(S), \A x \in S : f[x] \in Nat,
           SumFunctionOnSet(f, S) = 0
    PROVE  \A x \in S : f[x] = 0
<1> SUFFICES ASSUME NEW x \in S PROVE f[x] = 0
  OBVIOUS
<1>1. IsFiniteSet(S \ {x})
  BY FS_RemoveElement
<1>2. SumFunctionOnSet(f, S \ {x}) \in Nat
  BY <1>1, SumOfNaturals
<1>3. SumFunctionOnSet(f, S) = f[x] + SumFunctionOnSet(f, S \ {x})
  BY SumOfNaturals
<1> QED BY <1>2, <1>3

LEMMA SumOfZeros ==
    ASSUME NEW f, NEW S, IsFiniteSet(S), \A x \in S : f[x] = 0
    PROVE  SumFunctionOnSet(f, S) = 0
<1> DEFINE Good == { T \in SUBSET S : SumFunctionOnSet(f, T) = 0 }
<1>1. ASSUME NEW T \in SUBSET S, \A U \in SUBSET T : U # T => U \in Good
      PROVE  SumFunctionOnSet(f, T) = 0
  <2>1. CASE T = {}
    BY <2>1, SumOfNone
  <2>2. ASSUME NEW y \in T PROVE SumFunctionOnSet(f, T) = 0
    <3>1. IsFiniteSet(T) /\ \A x \in T : f[x] \in Nat
      BY FS_Subset
    <3>2. SumFunctionOnSet(f, T) = f[y] + SumFunctionOnSet(f, T \ {y})
      BY <3>1, SumOfNaturals
    <3>3. SumFunctionOnSet(f, T \ {y}) = 0
      BY <1>1
    <3> QED BY <3>2, <3>3
  <2> QED BY <2>1, <2>2
<1> HIDE DEF Good
<1>2. \A T \in SUBSET S : (\A U \in SUBSET T : U # T => U \in Good) => T \in Good
  BY <1>1 DEF Good
<1>3. S \in Good
  BY <1>2, SubsetInduction
<1> QED BY <1>3 DEF Good

(* The sum over two sets without a common element, and over a part.        *)
LEMMA SumOfDisjoint ==
    ASSUME NEW f, NEW S, IsFiniteSet(S), NEW T, IsFiniteSet(T), S \cap T = {},
           \A x \in S \cup T : f[x] \in Nat
    PROVE  SumFunctionOnSet(f, S \cup T) = SumFunctionOnSet(f, S) + SumFunctionOnSet(f, T)
<1> DEFINE Sum(U) == SumFunctionOnSet(f, U)
           Good == { U \in SUBSET T : Sum(S \cup U) = Sum(S) + Sum(U) }
<1>1. ASSUME NEW U \in SUBSET T, \A V \in SUBSET U : V # U => V \in Good
      PROVE  Sum(S \cup U) = Sum(S) + Sum(U)
  <2>1. CASE U = {}
    <3>1. S \cup U = S
      BY <2>1
    <3>2. Sum(U) = 0 /\ Sum(S) \in Nat
      <4>1. \A x \in S : f[x] \in Nat
        OBVIOUS
      <4> QED BY <2>1, <4>1, SumOfNone, SumOfNaturals
    <3>3. Sum(S \cup U) = Sum(S)
      BY <3>1
    <3> HIDE DEF Sum
    <3> QED BY <3>2, <3>3
  <2>2. ASSUME NEW y \in U PROVE Sum(S \cup U) = Sum(S) + Sum(U)
    <3> DEFINE V == U \ {y}
    <3>1. Sum(S \cup V) = Sum(S) + Sum(V)
      BY <1>1
    <3>2. /\ IsFiniteSet(U) /\ IsFiniteSet(V) /\ IsFiniteSet(S \cup V)
      <4>1. IsFiniteSet(U)
        BY FS_Subset
      <4>2. IsFiniteSet(V)
        BY <4>1, FS_RemoveElement
      <4> QED BY <4>1, <4>2, FS_Union
    <3>3. /\ V \cup {y} = U /\ (S \cup V) \cup {y} = S \cup U
          /\ y \notin V /\ y \notin S \cup V
      OBVIOUS
    <3>4. f[y] \in Nat /\ (\A x \in V : f[x] \in Nat) /\ \A x \in S \cup V : f[x] \in Nat
      OBVIOUS
    <3> HIDE DEF V
    <3>5. Sum(U) = Sum(V) + f[y]
      <4>1. \A x \in V \cup {y} : f[x] \in Nat
        BY <3>4
      <4>2. Sum(V \cup {y}) = Sum(V) + f[y]
        BY <3>2, <3>3, <4>1, SumWithOneMore
      <4> QED BY <3>3, <4>2
    <3>6. Sum(S \cup U) = Sum(S \cup V) + f[y]
      <4> DEFINE W == S \cup V
      <4>1. IsFiniteSet(W) /\ y \notin W /\ W \cup {y} = S \cup U /\ \A x \in W \cup {y} : f[x] \in Nat
        BY <3>2, <3>3, <3>4
      <4> HIDE DEF W
      <4>2. Sum(W \cup {y}) = Sum(W) + f[y]
        BY <4>1, SumWithOneMore
      <4>3. Sum(S \cup U) = Sum(W) + f[y]
        BY <4>1, <4>2
      <4> QED BY <4>3 DEF W
    <3>7. Sum(S) \in Nat /\ Sum(V) \in Nat
      <4>1. \A x \in S : f[x] \in Nat
        OBVIOUS
      <4> QED BY <3>2, <3>4, <4>1, SumOfNaturals
    <3> HIDE DEF Sum
    <3> QED BY <3>1, <3>4, <3>5, <3>6, <3>7
  <2> QED BY <2>1, <2>2
<1> HIDE DEF Good
<1>2. \A U \in SUBSET T : (\A V \in SUBSET U : V # U => V \in Good) => U \in Good
  BY <1>1 DEF Good
<1>3. T \in Good
  BY <1>2, SubsetInduction
<1> QED BY <1>3 DEF Good

LEMMA SumOfPart ==
    ASSUME NEW f, NEW T, IsFiniteSet(T), NEW S \in SUBSET T, \A x \in T : f[x] \in Nat
    PROVE  SumFunctionOnSet(f, S) <= SumFunctionOnSet(f, T)
<1> DEFINE U == T \ S
<1>1. IsFiniteSet(S) /\ IsFiniteSet(U) /\ S \cap U = {} /\ S \cup U = T
  BY FS_Subset
<1>2. (\A x \in S : f[x] \in Nat) /\ (\A x \in U : f[x] \in Nat) /\ \A x \in S \cup U : f[x] \in Nat
  OBVIOUS
<1> HIDE DEF U
<1>3. SumFunctionOnSet(f, S \cup U) = SumFunctionOnSet(f, S) + SumFunctionOnSet(f, U)
  BY <1>1, <1>2, SumOfDisjoint
<1>4. SumFunctionOnSet(f, S) \in Nat /\ SumFunctionOnSet(f, U) \in Nat
  BY <1>1, <1>2, SumOfNaturals
<1>5. SumFunctionOnSet(f, T) = SumFunctionOnSet(f, S) + SumFunctionOnSet(f, U)
  BY <1>1, <1>3
<1> QED BY <1>4, <1>5
=============================================================================
