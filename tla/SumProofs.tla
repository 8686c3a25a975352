------------------------------ MODULE SumProofs ------------------------------
(***************************************************************************)
(* SumFunctionOnSet of the module Functions, by which the balances are     *)
(* compared with the rows they are the sums of: it is a fold, which takes  *)
(* the elements of the set in an order that CHOOSE fixes.  Here it is      *)
(* shown to be the sum over a finite set, whatever the order: nothing for  *)
(* the empty set, and one value more for one element more.                 *)
(*                                                                         *)
(* The proofs are by induction over the subsets of a finite set, in the    *)
(* form of a least counterexample.                                         *)
(***************************************************************************)
EXTENDS Integers, Functions, FiniteSetTheorems, WellFoundedInduction, TLAPS

\* A set of subsets of a finite set has one that none of the others is a part of.
LEMMA LeastSubset ==
  ASSUME NEW S, IsFiniteSet(S), NEW T \in SUBSET (SUBSET S), T # {}
  PROVE  \E s \in T : \A t \in T : t \subseteq s => t = s
  <1> DEFINE R == StrictSubsetOrdering(S)
  <1>1. IsWellFoundedOn(R, FiniteSubsetsOf(S))
    BY FS_StrictSubsetOrderingWellFounded
  <1>2. T \subseteq FiniteSubsetsOf(S)
    BY FS_Subset DEF FiniteSubsetsOf
  <1>3. PICK s \in T : \A t \in T : ~ (<<t, s>> \in R)
    <2> HIDE DEF R
    <2> QED BY <1>1, <1>2, WFMin
  <1>4. ASSUME NEW t \in T, t \subseteq s, t # s PROVE FALSE
    BY <1>3, <1>4 DEF StrictSubsetOrdering
  <1> QED BY <1>4

------------------------------------------------------------------------------
(***************************************************************************)
(* The fold is one function on all subsets; that such a function exists,   *)
(* and is one only, is what makes its defining equation usable.            *)
(***************************************************************************)
Pick(s) == CHOOSE x \in s : TRUE

Fold(v, f, s) == IF s = {} THEN 0 ELSE v[Pick(s)] + f[s \ {Pick(s)}]

IsFoldOf(v, S, f) == f = [s \in SUBSET S |-> Fold(v, f, s)]

LEMMA PickIn == \A s : s # {} => Pick(s) \in s
  BY DEF Pick

\* A part of the set has a part of the function.
LEMMA FoldOfPart ==
  ASSUME NEW v, NEW S, NEW f, IsFoldOf(v, S, f), NEW T \in SUBSET S
  PROVE  IsFoldOf(v, T, [s \in SUBSET T |-> f[s]])
  <1> DEFINE g == [s \in SUBSET T |-> f[s]]
  <1>1. ASSUME NEW s \in SUBSET T
        PROVE  g[s] = Fold(v, g, s)
    <2>1. f[s] = Fold(v, f, s) BY DEF IsFoldOf
    <2>2. s \ {Pick(s)} \in SUBSET T OBVIOUS
    <2> QED BY <2>1, <2>2 DEF Fold
  <1>2. g = [s \in SUBSET T |-> g[s]] OBVIOUS
  <1>3. g = [s \in SUBSET T |-> Fold(v, g, s)]
    <2> HIDE DEF g
    <2> QED BY <1>1, <1>2
  <1> QED BY <1>3 DEF IsFoldOf

\* Two such functions are equal: there is no least set they differ on.
LEMMA FoldIsUnique ==
  ASSUME NEW v, NEW S, IsFiniteSet(S), NEW f, NEW g, IsFoldOf(v, S, f), IsFoldOf(v, S, g)
  PROVE  f = g
  <1> DEFINE T == {s \in SUBSET S : f[s] # g[s]}
  <1>1. ASSUME T # {} PROVE FALSE
    <2>1. PICK s \in T : \A t \in T : t \subseteq s => t = s
      <3>1. T \in SUBSET (SUBSET S) OBVIOUS
      <3> HIDE DEF T
      <3> QED BY <1>1, <3>1, LeastSubset
    <2>2. s \in SUBSET S /\ f[s] # g[s] BY <2>1
    <2>3. f[s] = Fold(v, f, s) /\ g[s] = Fold(v, g, s) BY <2>2 DEF IsFoldOf
    <2>4. s # {} BY <2>2, <2>3 DEF Fold
    <2>5. s \ {Pick(s)} \notin T BY <2>1, <2>4, PickIn
    <2>6. f[s \ {Pick(s)}] = g[s \ {Pick(s)}] BY <2>2, <2>5
    <2> QED BY <2>2, <2>3, <2>6 DEF Fold
  <1>2. \A s \in SUBSET S : f[s] = g[s] BY <1>1
  <1>3. f = [s \in SUBSET S |-> f[s]] /\ g = [s \in SUBSET S |-> g[s]] BY DEF IsFoldOf
  <1> QED BY <1>2, <1>3

TheFold(v, S) == CHOOSE f : IsFoldOf(v, S, f)

\* There is such a function: there is no least set without one.
LEMMA FoldExists ==
  ASSUME NEW v, NEW S, IsFiniteSet(S)
  PROVE  IsFoldOf(v, S, TheFold(v, S))
  <1> DEFINE Has(s) == \E f : IsFoldOf(v, s, f)
             T == {s \in SUBSET S : ~ Has(s)}
  <1>1. ASSUME T # {} PROVE FALSE
    <2>1. PICK t \in T : \A s \in T : s \subseteq t => s = t
      <3>1. T \in SUBSET (SUBSET S) OBVIOUS
      <3> HIDE DEF T
      <3> QED BY <1>1, <3>1, LeastSubset
    <2>2. t \in SUBSET S /\ ~ Has(t) BY <2>1
    <2> DEFINE G(s) == TheFold(v, s)
               f == [s \in SUBSET t |-> IF s = t THEN Fold(v, [u \in SUBSET t |-> G(u)[u]], t)
                                        ELSE G(s)[s]]
    <2>3. ASSUME NEW s \in SUBSET t, s # t
          PROVE  IsFoldOf(v, s, G(s))
      <3>1. Has(s) BY <2>1, <2>2, <2>3
      <3> QED BY <3>1 DEF TheFold
    <2>4. ASSUME NEW s \in SUBSET t, s # t, NEW u \in SUBSET s
          PROVE  G(s)[u] = G(u)[u]
      <3> DEFINE g == [w \in SUBSET u |-> G(s)[w]]
      <3>1. IsFoldOf(v, u, g) BY <2>3, <2>4, FoldOfPart
      <3>2. IsFoldOf(v, u, G(u)) BY <2>3, <2>4
      <3>3. IsFiniteSet(u) BY <2>2, <2>4, FS_Subset
      <3>4. g = G(u)
        <4> HIDE DEF g
        <4> QED BY <3>1, <3>2, <3>3, FoldIsUnique
      <3>5. g[u] = G(s)[u] OBVIOUS
      <3> QED BY <3>4, <3>5
    <2>5. ASSUME NEW s \in SUBSET t
          PROVE  f[s] = Fold(v, f, s)
      <3> DEFINE u == s \ {Pick(s)}
      <3>1. s # {} => u \in SUBSET s /\ u # s /\ u \in SUBSET t /\ u # t BY PickIn
      <3>2. s # {} => f[u] = G(u)[u] BY <3>1
      <3>3. CASE s = t
        <4>1. f[s] = Fold(v, [w \in SUBSET t |-> G(w)[w]], t) BY <3>3
        <4> QED BY <3>1, <3>2, <3>3, <4>1 DEF Fold
      <3>4. CASE s # t
        <4>1. f[s] = G(s)[s] BY <3>4
        <4>2. G(s)[s] = Fold(v, G(s), s) BY <2>3, <3>4 DEF IsFoldOf
        <4>3. s # {} => G(s)[u] = G(u)[u] BY <2>4, <3>1, <3>4
        <4> QED BY <3>2, <4>1, <4>2, <4>3 DEF Fold
      <3> QED BY <3>3, <3>4
    <2>6. f = [s \in SUBSET t |-> Fold(v, f, s)]
      <3>1. f = [s \in SUBSET t |-> f[s]] OBVIOUS
      <3> HIDE DEF f
      <3> QED BY <2>5, <3>1
    <2>7. Has(t)
      <3> HIDE DEF f
      <3> QED BY <2>6 DEF IsFoldOf
    <2> QED BY <2>2, <2>7
  <1>2. Has(S) BY <1>1
  <1> QED BY <1>2 DEF TheFold

\* SumFunctionOnSet is the value of this function for the whole set.
LEMMA SumIsFold == \A v, S : SumFunctionOnSet(v, S) = TheFold(v, S)[S]
  BY DEF SumFunctionOnSet, FoldFunctionOnSet, MapThenFoldSet, TheFold, IsFoldOf, Fold, Pick

------------------------------------------------------------------------------
\* The sum over the empty set.
LEMMA SumEmpty == \A v : SumFunctionOnSet(v, {}) = 0
  <1> SUFFICES ASSUME NEW v PROVE SumFunctionOnSet(v, {}) = 0
    OBVIOUS
  <1>1. IsFoldOf(v, {}, TheFold(v, {})) BY FoldExists, FS_EmptySet
  <1> QED BY <1>1, SumIsFold DEF IsFoldOf, Fold

\* The element that CHOOSE takes first.
LEMMA SumPick ==
  ASSUME NEW v, NEW S, IsFiniteSet(S), S # {}
  PROVE  SumFunctionOnSet(v, S) = v[Pick(S)] + SumFunctionOnSet(v, S \ {Pick(S)})
  <1> DEFINE U == S \ {Pick(S)}
             f == TheFold(v, S)
             g == [s \in SUBSET U |-> f[s]]
  <1>1. IsFoldOf(v, S, f) BY FoldExists
  <1>2. f[S] = v[Pick(S)] + f[U] BY <1>1 DEF IsFoldOf, Fold
  <1>3. IsFoldOf(v, U, g) BY <1>1, FoldOfPart
  <1>4. IsFiniteSet(U) BY FS_Subset
  <1>5. IsFoldOf(v, U, TheFold(v, U)) BY <1>4, FoldExists
  <1>6. g = TheFold(v, U)
    <2> HIDE DEF g, U
    <2> QED BY <1>3, <1>4, <1>5, FoldIsUnique
  <1>7. g[U] = f[U] OBVIOUS
  <1> QED BY <1>2, <1>6, <1>7, SumIsFold

(***************************************************************************)
(* A sum of integers is an integer.                                        *)
(***************************************************************************)
LEMMA SumType ==
  ASSUME NEW S, IsFiniteSet(S), NEW v, \A x \in S : v[x] \in Int
  PROVE  SumFunctionOnSet(v, S) \in Int
  <1> DEFINE T == {s \in SUBSET S : SumFunctionOnSet(v, s) \notin Int}
  <1>1. ASSUME T # {} PROVE FALSE
    <2>1. PICK s \in T : \A t \in T : t \subseteq s => t = s
      <3>1. T \in SUBSET (SUBSET S) OBVIOUS
      <3> HIDE DEF T
      <3> QED BY <1>1, <3>1, LeastSubset
    <2>2. s \in SUBSET S /\ SumFunctionOnSet(v, s) \notin Int BY <2>1
    <2>3. s # {} BY <2>2, SumEmpty
    <2>4. Pick(s) \in s BY <2>3, PickIn
    <2>5. s \ {Pick(s)} \notin T BY <2>1, <2>4
    <2>6. SumFunctionOnSet(v, s \ {Pick(s)}) \in Int BY <2>2, <2>5
    <2>7. IsFiniteSet(s) BY <2>2, FS_Subset
    <2>8. SumFunctionOnSet(v, s) = v[Pick(s)] + SumFunctionOnSet(v, s \ {Pick(s)})
      BY <2>3, <2>7, SumPick
    <2> QED BY <2>2, <2>4, <2>6, <2>8
  <1> QED BY <1>1

(***************************************************************************)
(* Any element can be taken first: the sum does not depend on CHOOSE.      *)
(***************************************************************************)
LEMMA SumRemove ==
  ASSUME NEW S, IsFiniteSet(S), NEW v, \A x \in S : v[x] \in Int, NEW x \in S
  PROVE  SumFunctionOnSet(v, S) = v[x] + SumFunctionOnSet(v, S \ {x})
  <1> DEFINE Sum(s) == SumFunctionOnSet(v, s)
             T == {s \in SUBSET S : \E y \in s : Sum(s) # v[y] + Sum(s \ {y})}
  <1>0. \A s \in SUBSET S : IsFiniteSet(s) BY FS_Subset
  <1>1. ASSUME T # {} PROVE FALSE
    <2>1. PICK s \in T : \A t \in T : t \subseteq s => t = s
      <3>1. T \in SUBSET (SUBSET S) OBVIOUS
      <3> HIDE DEF T
      <3> QED BY <1>1, <3>1, LeastSubset
    <2>2. PICK y \in s : Sum(s) # v[y] + Sum(s \ {y}) BY <2>1
    <2> DEFINE p == Pick(s)
    <2>3. s \in SUBSET S /\ p \in s BY <2>1, <2>2, PickIn
    <2>4. Sum(s) = v[p] + Sum(s \ {p}) BY <1>0, <2>3, SumPick
    <2>5. p # y BY <2>2, <2>4
    <2>6. s \ {p} \notin T /\ s \ {y} \notin T BY <2>1, <2>2, <2>3
    <2> DEFINE r == (s \ {p}) \ {y}
    <2>7. Sum(s \ {p}) = v[y] + Sum(r) BY <2>2, <2>3, <2>5, <2>6
    <2>8. Sum(s \ {y}) = v[p] + Sum(r)
      <3>1. (s \ {y}) \ {p} = r OBVIOUS
      <3> QED BY <2>2, <2>3, <2>5, <2>6, <3>1
    <2>9. Sum(r) \in Int
      <3>1. r \in SUBSET S BY <2>3
      <3>2. \A z \in r : v[z] \in Int BY <3>1
      <3> HIDE DEF r
      <3> QED BY <1>0, <3>1, <3>2, SumType
    <2>10. v[p] \in Int /\ v[y] \in Int BY <2>2, <2>3
    <2> HIDE DEF Sum, r, p
    <2> QED BY <2>2, <2>4, <2>7, <2>8, <2>9, <2>10
  <1>2. S \notin T BY <1>1
  <1> QED BY <1>2

\* One element more.
LEMMA SumInsert ==
  ASSUME NEW S, IsFiniteSet(S), NEW v, NEW x, x \notin S,
         \A y \in S : v[y] \in Int, v[x] \in Int
  PROVE  SumFunctionOnSet(v, S \cup {x}) = SumFunctionOnSet(v, S) + v[x]
  <1> DEFINE R == S \cup {x}
  <1>1. IsFiniteSet(R) BY FS_AddElement
  <1>2. R \ {x} = S OBVIOUS
  <1>3. SumFunctionOnSet(v, S) \in Int BY SumType
  <1>4. SumFunctionOnSet(v, R) = v[x] + SumFunctionOnSet(v, R \ {x})
    <2>1. \A y \in R : v[y] \in Int OBVIOUS
    <2>2. x \in R OBVIOUS
    <2> HIDE DEF R
    <2> QED BY <1>1, <2>1, <2>2, SumRemove
  <1>5. v[x] \in Int OBVIOUS
  <1>6. SumFunctionOnSet(v, R) = v[x] + SumFunctionOnSet(v, S) BY <1>2, <1>4, Zenon
  <1> QED BY <1>3, <1>5, <1>6

\* What the values are outside of the set does not matter.
LEMMA SumAgree ==
  ASSUME NEW S, IsFiniteSet(S), NEW v, NEW w, \A x \in S : v[x] = w[x]
  PROVE  SumFunctionOnSet(v, S) = SumFunctionOnSet(w, S)
  <1> DEFINE T == {s \in SUBSET S : SumFunctionOnSet(v, s) # SumFunctionOnSet(w, s)}
  <1>1. ASSUME T # {} PROVE FALSE
    <2>1. PICK s \in T : \A t \in T : t \subseteq s => t = s
      <3>1. T \in SUBSET (SUBSET S) OBVIOUS
      <3> HIDE DEF T
      <3> QED BY <1>1, <3>1, LeastSubset
    <2>2. s \in SUBSET S /\ SumFunctionOnSet(v, s) # SumFunctionOnSet(w, s) BY <2>1
    <2>3. s # {} BY <2>2, SumEmpty
    <2>4. Pick(s) \in s BY <2>3, PickIn
    <2>5. s \ {Pick(s)} \notin T BY <2>1, <2>4
    <2>6. SumFunctionOnSet(v, s \ {Pick(s)}) = SumFunctionOnSet(w, s \ {Pick(s)})
      BY <2>2, <2>5
    <2>7. IsFiniteSet(s) BY <2>2, FS_Subset
    <2> QED BY <2>2, <2>3, <2>4, <2>6, <2>7, SumPick
  <1> QED BY <1>1

\* A part of a sum of points is not more than the sum.
LEMMA SumOfPart ==
  ASSUME NEW S, IsFiniteSet(S), NEW v, \A x \in S : v[x] \in Nat, NEW P \in SUBSET S
  PROVE  SumFunctionOnSet(v, P) <= SumFunctionOnSet(v, S)
  <1> DEFINE Sum(s) == SumFunctionOnSet(v, s)
             T == {s \in SUBSET S : P \subseteq s /\ ~ (Sum(P) <= Sum(s))}
  <1>0. ASSUME NEW s \in SUBSET S
        PROVE  IsFiniteSet(s) /\ Sum(s) \in Int
    <2>1. IsFiniteSet(s) BY FS_Subset
    <2>2. \A x \in s : v[x] \in Int OBVIOUS
    <2> QED BY <2>1, <2>2, SumType
  <1>1. ASSUME T # {} PROVE FALSE
    <2>1. PICK s \in T : \A t \in T : t \subseteq s => t = s
      <3>1. T \in SUBSET (SUBSET S) OBVIOUS
      <3> HIDE DEF T
      <3> QED BY <1>1, <3>1, LeastSubset
    <2>2. s \in SUBSET S /\ P \subseteq s /\ ~ (Sum(P) <= Sum(s)) BY <2>1
    <2>3. Sum(P) \in Int /\ Sum(s) \in Int BY <1>0, <2>2
    <2>4. P # s
      <3> HIDE DEF Sum
      <3> QED BY <2>2, <2>3
    <2>5. PICK x \in s : x \notin P BY <2>2, <2>4
    <2>6. s \ {x} \notin T BY <2>1, <2>5
    <2>7. Sum(P) <= Sum(s \ {x}) BY <2>2, <2>5, <2>6
    <2>8. Sum(s) = v[x] + Sum(s \ {x})
      <3>1. IsFiniteSet(s) BY <1>0, <2>2
      <3>2. \A y \in s : v[y] \in Int BY <2>2
      <3> QED BY <2>5, <3>1, <3>2, SumRemove
    <2>9. Sum(s \ {x}) \in Int BY <1>0, <2>2
    <2>10. v[x] \in Nat BY <2>2, <2>5
    <2> HIDE DEF Sum
    <2> QED BY <2>2, <2>3, <2>7, <2>8, <2>9, <2>10
  <1>2. S \notin T BY <1>1
  <1> QED BY <1>2
==============================================================================
