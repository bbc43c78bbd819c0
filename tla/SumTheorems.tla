------------------------------ MODULE SumTheorems ------------------------------
(***************************************************************************)
(* Sums over finite sets, as SumFunctionOnSet adds them up: the telemetry  *)
(* of a run and the reports over many runs are made of them.  The folds of *)
(* the library are recursive functions on sets; that they are defined, and *)
(* what they add up to, is shown here by induction on the sets that have   *)
(* the property, which needs no operator as a parameter.                   *)
(***************************************************************************)
EXTENDS Functions, FiniteSetTheorems, WellFoundedInduction, TLAPS

(* A set of subsets of a finite set that holds each subset all of whose     *)
(* proper subsets it holds, holds them all.                                 *)
LEMMA SubsetInduction ==
  ASSUME NEW S, IsFiniteSet(S), NEW T,
         \A s \in SUBSET S : (\A t \in SUBSET s : t # s => t \in T) => s \in T
  PROVE  \A s \in SUBSET S : s \in T
<1> DEFINE Bad == (SUBSET S) \ T
           Order == StrictSubsetOrdering(S)
<1> SUFFICES ASSUME Bad # {} PROVE FALSE
  OBVIOUS
<1>1. Bad \subseteq FiniteSubsetsOf(S)
  BY FS_Subset DEF FiniteSubsetsOf
<1>2. IsWellFoundedOn(Order, FiniteSubsetsOf(S))
  BY FS_StrictSubsetOrderingWellFounded
<1>3. PICK s \in Bad : \A t \in Bad : ~(<<t, s>> \in Order)
  <2> HIDE DEF Bad, Order
  <2>1. QED
    BY <1>1, <1>2, WFMin
<1>4. \A t \in SUBSET s : t # s => t \in T
  BY <1>3 DEF StrictSubsetOrdering
<1>5. QED
  BY <1>3, <1>4

-------------------------------------------------------------------------------
(* The recursion is well defined *)

Some(s) == CHOOSE x \in s : TRUE

(* g adds up f over every subset of S. *)
Adds(g, f, S) ==
  g = [s \in SUBSET S |-> IF s = {} THEN 0 ELSE f[Some(s)] + g[s \ {Some(s)}]]

TheSum(f, S) == (CHOOSE g : Adds(g, f, S))[S]

LEMMA SumIsFold == ASSUME NEW f, NEW S PROVE SumFunctionOnSet(f, S) = TheSum(f, S)
BY DEF SumFunctionOnSet, FoldFunctionOnSet, MapThenFoldSet, TheSum, Adds, Some

LEMMA SomeIsMember == ASSUME NEW s, s # {} PROVE Some(s) \in s
BY DEF Some

(* Two functions that add up f agree where both are defined. *)
LEMMA AddsUnique ==
  ASSUME NEW S, IsFiniteSet(S), NEW f, NEW g, NEW h, NEW U, S \subseteq U,
         Adds(g, f, U), Adds(h, f, S)
  PROVE  \A s \in SUBSET S : g[s] = h[s]
<1> DEFINE T == {s \in SUBSET S : g[s] = h[s]}
<1>1. ASSUME NEW s \in SUBSET S, \A t \in SUBSET s : t # s => t \in T PROVE s \in T
  <2>1. CASE s = {}
    BY <2>1 DEF Adds
  <2>2. CASE s # {}
    <3>1. Some(s) \in s
      BY <2>2, SomeIsMember
    <3>2. g[s \ {Some(s)}] = h[s \ {Some(s)}]
      BY <1>1, <3>1
    <3>3. g[s] = f[Some(s)] + g[s \ {Some(s)}]
      BY <2>2 DEF Adds
    <3>4. h[s] = f[Some(s)] + h[s \ {Some(s)}]
      BY <2>2 DEF Adds
    <3>5. QED
      BY <3>2, <3>3, <3>4
  <2>3. QED
    BY <2>1, <2>2
<1>2. \A s \in SUBSET S : s \in T
  <2> HIDE DEF T
  <2>1. QED
    BY <1>1, SubsetInduction
<1>3. QED
  BY <1>2

(* Such a function exists. *)
LEMMA AddsExists ==
  ASSUME NEW S, IsFiniteSet(S), NEW f
  PROVE  \A s \in SUBSET S : \E g : Adds(g, f, s)
<1> DEFINE T == {s \in SUBSET S : \E g : Adds(g, f, s)}
<1>1. ASSUME NEW s \in SUBSET S, \A t \in SUBSET s : t # s => t \in T PROVE s \in T
  <2> DEFINE sum(t) == IF t = {} THEN 0
                       ELSE f[Some(t)] + TheSum(f, t \ {Some(t)})
             h == [t \in SUBSET s |-> sum(t)]
  <2>1. ASSUME NEW t \in SUBSET s, t # s PROVE Adds(CHOOSE g : Adds(g, f, t), f, t)
    BY <1>1, <2>1
  <2>2. ASSUME NEW t \in SUBSET s, t # s PROVE TheSum(f, t) = sum(t)
    <3> DEFINE g == CHOOSE g : Adds(g, f, t)
    <3>1. Adds(g, f, t)
      BY <2>1, <2>2
    <3>2. g[t] = IF t = {} THEN 0 ELSE f[Some(t)] + g[t \ {Some(t)}]
      <4> HIDE DEF g
      <4>1. QED
        BY <3>1 DEF Adds
    <3>3. ASSUME t # {} PROVE g[t \ {Some(t)}] = TheSum(f, t \ {Some(t)})
      <4> DEFINE u == t \ {Some(t)}
                 k == CHOOSE k : Adds(k, f, u)
      <4>1. u \in SUBSET s /\ u # s /\ u \subseteq t
        BY <3>3, SomeIsMember
      <4>2. Adds(k, f, u)
        BY <2>1, <4>1
      <4>3. IsFiniteSet(u)
        BY <4>1, FS_Subset
      <4>4. TheSum(f, u) = k[u]
        BY DEF TheSum
      <4> HIDE DEF g, k, u
      <4>5. g[u] = k[u]
        BY <3>1, <4>1, <4>2, <4>3, AddsUnique
      <4>6. QED
        BY <4>4, <4>5 DEF u
    <3>4. TheSum(f, t) = g[t]
      BY DEF TheSum
    <3>5. QED
      BY <3>2, <3>3, <3>4
  <2>3. \A t \in SUBSET s : t # {} => t \ {Some(t)} \in SUBSET s /\ t \ {Some(t)} # s
    BY SomeIsMember
  <2>4. \A t \in SUBSET s : t # {} => h[t \ {Some(t)}] = TheSum(f, t \ {Some(t)})
    <3> HIDE DEF sum
    <3>1. QED
      BY <2>2, <2>3
  <2>5. Adds(h, f, s)
    <3>1. \A t \in SUBSET s : h[t] = IF t = {} THEN 0 ELSE f[Some(t)] + h[t \ {Some(t)}]
      BY <2>4
    <3>2. h = [t \in SUBSET s |-> h[t]]
      OBVIOUS
    <3> HIDE DEF h
    <3>3. QED
      BY <3>1, <3>2 DEF Adds
  <2>6. QED
    BY <2>5
<1>2. \A s \in SUBSET S : s \in T
  <2> HIDE DEF T
  <2>1. QED
    BY <1>1, SubsetInduction
<1>3. QED
  BY <1>2
-------------------------------------------------------------------------------
(* What sums add up to *)

(* Nothing adds up to nothing. *)
LEMMA SumEmpty == ASSUME NEW f PROVE SumFunctionOnSet(f, {}) = 0
<1>1. PICK g : Adds(g, f, {})
  BY AddsExists, FS_EmptySet
<1>2. TheSum(f, {}) = (CHOOSE h : Adds(h, f, {}))[{}] /\ Adds(CHOOSE h : Adds(h, f, {}), f, {})
  BY <1>1 DEF TheSum
<1> DEFINE c == CHOOSE h : Adds(h, f, {})
<1>3. c[{}] = 0
  <2>1. Adds(c, f, {})
    BY <1>2
  <2> HIDE DEF c
  <2>2. QED
    BY <2>1 DEF Adds
<1>4. QED
  BY <1>2, <1>3, SumIsFold

(* The sum is that of some element and the rest. *)
LEMMA SumSome ==
  ASSUME NEW S, IsFiniteSet(S), S # {}, NEW f
  PROVE  SumFunctionOnSet(f, S) = f[Some(S)] + SumFunctionOnSet(f, S \ {Some(S)})
<1> DEFINE R == S \ {Some(S)}
           c == CHOOSE g : Adds(g, f, S)
           d == CHOOSE g : Adds(g, f, R)
<1>1. Some(S) \in S /\ R \subseteq S /\ IsFiniteSet(R)
  BY SomeIsMember, FS_RemoveElement
<1>2. Adds(c, f, S) /\ Adds(d, f, R)
  <2>1. (\E g : Adds(g, f, S)) /\ (\E g : Adds(g, f, R))
    BY <1>1, AddsExists
  <2>2. QED
    BY <2>1
<1>3. TheSum(f, S) = c[S] /\ TheSum(f, R) = d[R]
  BY DEF TheSum
<1> HIDE DEF c, d
<1>4. c[S] = f[Some(S)] + c[R]
  BY <1>1, <1>2 DEF Adds
<1>5. c[R] = d[R]
  BY <1>1, <1>2, AddsUnique
<1>6. QED
  BY <1>3, <1>4, <1>5, SumIsFold

(* One number is its own sum. *)
LEMMA SumOfOne == ASSUME NEW x, NEW f, f[x] \in Int PROVE SumFunctionOnSet(f, {x}) = f[x]
<1>1. Some({x}) = x /\ IsFiniteSet({x})
  BY SomeIsMember, FS_Singleton
<1>2. SumFunctionOnSet(f, {x}) = f[x] + SumFunctionOnSet(f, {x} \ {x})
  BY <1>1, SumSome
<1>3. {x} \ {x} = {}
  OBVIOUS
<1>4. QED
  BY <1>2, <1>3, SumEmpty

(* Naturals add up to a natural. *)
LEMMA SumIsNatural ==
  ASSUME NEW S, IsFiniteSet(S), NEW f, \A x \in S : f[x] \in Nat
  PROVE  SumFunctionOnSet(f, S) \in Nat
<1> DEFINE T == {s \in SUBSET S : SumFunctionOnSet(f, s) \in Nat}
<1>1. ASSUME NEW s \in SUBSET S, \A t \in SUBSET s : t # s => t \in T PROVE s \in T
  <2>1. CASE s = {}
    BY <2>1, SumEmpty
  <2>2. CASE s # {}
    <3>1. Some(s) \in s /\ IsFiniteSet(s)
      BY <2>2, SomeIsMember, FS_Subset
    <3>2. SumFunctionOnSet(f, s \ {Some(s)}) \in Nat
      BY <1>1, <3>1
    <3>3. SumFunctionOnSet(f, s) = f[Some(s)] + SumFunctionOnSet(f, s \ {Some(s)})
      BY <2>2, <3>1, SumSome
    <3>4. QED
      BY <3>1, <3>2, <3>3
  <2>3. QED
    BY <2>1, <2>2
<1>2. S \in T
  <2> HIDE DEF T
  <2>1. QED
    BY <1>1, SubsetInduction
<1>3. QED
  BY <1>2

(* Integers add up to an integer. *)
LEMMA SumIsInteger ==
  ASSUME NEW S, IsFiniteSet(S), NEW f, \A x \in S : f[x] \in Int
  PROVE  SumFunctionOnSet(f, S) \in Int
<1> DEFINE T == {s \in SUBSET S : SumFunctionOnSet(f, s) \in Int}
<1>1. ASSUME NEW s \in SUBSET S, \A t \in SUBSET s : t # s => t \in T PROVE s \in T
  <2>1. CASE s = {}
    BY <2>1, SumEmpty
  <2>2. CASE s # {}
    <3>1. Some(s) \in s /\ IsFiniteSet(s)
      BY <2>2, SomeIsMember, FS_Subset
    <3>2. SumFunctionOnSet(f, s \ {Some(s)}) \in Int
      BY <1>1, <3>1
    <3>3. SumFunctionOnSet(f, s) = f[Some(s)] + SumFunctionOnSet(f, s \ {Some(s)})
      BY <2>2, <3>1, SumSome
    <3>4. QED
      BY <3>1, <3>2, <3>3
  <2>3. QED
    BY <2>1, <2>2
<1>2. S \in T
  <2> HIDE DEF T
  <2>1. QED
    BY <1>1, SubsetInduction
<1>3. QED
  BY <1>2

(* It does not matter which element is added last. *)
LEMMA SumRemove ==
  ASSUME NEW S, IsFiniteSet(S), NEW f, \A x \in S : f[x] \in Nat, NEW y \in S
  PROVE  SumFunctionOnSet(f, S) = f[y] + SumFunctionOnSet(f, S \ {y})
<1> DEFINE sum(s) == SumFunctionOnSet(f, s)
           T == {s \in SUBSET S : \A x \in s : sum(s) = f[x] + sum(s \ {x})}
<1>1. ASSUME NEW s \in SUBSET S, \A t \in SUBSET s : t # s => t \in T PROVE s \in T
  <2>1. SUFFICES ASSUME NEW x \in s, x # Some(s) PROVE sum(s) = f[x] + sum(s \ {x})
    <3>1. s # {} => sum(s) = f[Some(s)] + sum(s \ {Some(s)})
      BY FS_Subset, SumSome
    <3> HIDE DEF sum
    <3>2. QED
      BY <3>1
  <2>2. Some(s) \in s /\ IsFiniteSet(s)
    BY SomeIsMember, FS_Subset
  <2> DEFINE c == Some(s)
             rest == (s \ {c}) \ {x}
  <2>3. sum(s) = f[c] + sum(s \ {c})
    BY <2>2, SumSome
  <2>4. s \ {c} \in T /\ s \ {x} \in T /\ rest = (s \ {x}) \ {c}
    BY <1>1, <2>2
  <2>5. sum(rest) \in Nat
    BY <2>2, FS_RemoveElement, SumIsNatural
  <2> HIDE DEF sum, c, rest
  <2>6. sum(s \ {c}) = f[x] + sum(rest)
    BY <2>1, <2>4 DEF rest, c
  <2>7. sum(s \ {x}) = f[c] + sum(rest)
    <3>1. c \in s \ {x}
      BY <2>1, <2>2 DEF c
    <3>2. QED
      BY <2>4, <3>1
  <2>8. f[x] \in Nat /\ f[c] \in Nat
    BY <2>2 DEF c
  <2>9. QED
    BY <2>3, <2>5, <2>6, <2>7, <2>8
<1>2. S \in T
  <2> HIDE DEF T
  <2>1. QED
    BY <1>1, SubsetInduction
<1>3. QED
  BY <1>2

(* More numbers, and larger ones, add up to no less. *)
LEMMA SumMonotone ==
  ASSUME NEW S, IsFiniteSet(S), NEW R \in SUBSET S, NEW f, NEW g,
         \A x \in R : f[x] \in Nat /\ f[x] <= g[x],
         \A x \in S : g[x] \in Nat
  PROVE  SumFunctionOnSet(f, R) <= SumFunctionOnSet(g, S)
<1> DEFINE low(s) == SumFunctionOnSet(f, s \cap R)
           high(s) == SumFunctionOnSet(g, s)
           T == {s \in SUBSET S : low(s) <= high(s)}
<1>1. ASSUME NEW s \in SUBSET S, \A t \in SUBSET s : t # s => t \in T PROVE s \in T
  <2>1. CASE s = {}
    <3>1. s \cap R = {}
      BY <2>1
    <3>2. QED
      BY <2>1, <3>1, SumEmpty
  <2>2. CASE s # {}
    <3> DEFINE c == Some(s)
               t == s \ {c}
    <3>1. c \in s /\ IsFiniteSet(s) /\ IsFiniteSet(t) /\ IsFiniteSet(s \cap R)
          /\ IsFiniteSet(t \cap R)
      BY <2>2, SomeIsMember, FS_Subset
    <3>2. low(t) <= high(t)
      BY <1>1, <3>1
    <3>3. low(t) \in Nat /\ high(t) \in Nat
      BY <3>1, SumIsNatural
    <3>4. high(s) = g[c] + high(t)
      BY <3>1, SumRemove
    <3>5. low(s) = IF c \in R THEN f[c] + low(t) ELSE low(t)
      <4>1. CASE c \in R
        <5>1. c \in s \cap R /\ (s \cap R) \ {c} = t \cap R
          BY <3>1, <4>1
        <5>2. QED
          BY <3>1, <4>1, <5>1, SumRemove
      <4>2. CASE c \notin R
        <5>1. s \cap R = t \cap R
          BY <4>2
        <5>2. QED
          BY <4>2, <5>1
      <4>3. QED
        BY <4>1, <4>2
    <3>6. g[c] \in Nat /\ (c \in R => f[c] \in Nat /\ f[c] <= g[c])
      BY <3>1
    <3> HIDE DEF low, high, c, t
    <3>7. low(s) <= high(s)
      BY <3>2, <3>3, <3>4, <3>5, <3>6
    <3>8. QED
      BY <3>7
  <2>3. QED
    BY <2>1, <2>2
<1>2. S \in T
  <2> HIDE DEF T
  <2>1. QED
    BY <1>1, SubsetInduction
<1>3. S \cap R = R
  OBVIOUS
<1>4. QED
  BY <1>2, <1>3

(* What is added up is all that matters. *)
LEMMA SumCongruence ==
  ASSUME NEW S, IsFiniteSet(S), NEW f, NEW g, \A x \in S : f[x] \in Nat /\ f[x] = g[x]
  PROVE  SumFunctionOnSet(f, S) = SumFunctionOnSet(g, S)
<1>1. SumFunctionOnSet(f, S) <= SumFunctionOnSet(g, S)
  BY SumMonotone
<1>2. SumFunctionOnSet(g, S) <= SumFunctionOnSet(f, S)
  BY SumMonotone
<1>3. SumFunctionOnSet(f, S) \in Nat /\ SumFunctionOnSet(g, S) \in Nat
  BY SumIsNatural
<1>4. QED
  BY <1>1, <1>2, <1>3

(* Where one number is smaller and none is larger, so is the sum. *)
LEMMA SumStrict ==
  ASSUME NEW S, IsFiniteSet(S), NEW f, NEW g,
         \A x \in S : f[x] \in Nat /\ g[x] \in Nat /\ f[x] <= g[x],
         NEW y \in S, f[y] < g[y]
  PROVE  SumFunctionOnSet(f, S) < SumFunctionOnSet(g, S)
<1>1. IsFiniteSet(S \ {y})
  BY FS_RemoveElement
<1>2. SumFunctionOnSet(f, S \ {y}) <= SumFunctionOnSet(g, S \ {y})
  BY <1>1, SumMonotone
<1>3. SumFunctionOnSet(f, S \ {y}) \in Nat /\ SumFunctionOnSet(g, S \ {y}) \in Nat
  BY <1>1, SumIsNatural
<1>4. SumFunctionOnSet(f, S) = f[y] + SumFunctionOnSet(f, S \ {y})
  BY SumRemove
<1>5. SumFunctionOnSet(g, S) = g[y] + SumFunctionOnSet(g, S \ {y})
  BY SumRemove
<1>6. QED
  BY <1>2, <1>3, <1>4, <1>5

(* The same number, added once for each member. *)
LEMMA SumConstant ==
  ASSUME NEW S, IsFiniteSet(S), NEW c \in Nat, NEW f, \A x \in S : f[x] = c
  PROVE  SumFunctionOnSet(f, S) = c * Cardinality(S)
<1> DEFINE T == {s \in SUBSET S : SumFunctionOnSet(f, s) = c * Cardinality(s)}
<1>1. ASSUME NEW s \in SUBSET S, \A t \in SUBSET s : t # s => t \in T PROVE s \in T
  <2>1. CASE s = {}
    <3>1. Cardinality(s) = 0
      BY <2>1, FS_EmptySet
    <3>2. QED
      BY <2>1, <3>1, SumEmpty
  <2>2. CASE s # {}
    <3> DEFINE t == s \ {Some(s)}
    <3>1. Some(s) \in s /\ IsFiniteSet(s)
      BY <2>2, SomeIsMember, FS_Subset
    <3>2. SumFunctionOnSet(f, t) = c * Cardinality(t)
      BY <1>1, <3>1
    <3>3. SumFunctionOnSet(f, s) = c + SumFunctionOnSet(f, t)
      BY <2>2, <3>1, SumSome
    <3>4. Cardinality(t) = Cardinality(s) - 1 /\ Cardinality(s) \in Nat /\ Cardinality(t) \in Nat
      BY <3>1, FS_RemoveElement, FS_CardinalityType
    <3> HIDE DEF t
    <3>5. Cardinality(s) = Cardinality(t) + 1
      BY <3>4
    <3>6. c * Cardinality(s) = c * Cardinality(t) + c
      BY <3>4, <3>5
    <3>7. c * Cardinality(t) \in Nat
      BY <3>4
    <3>8. SumFunctionOnSet(f, s) = c * Cardinality(s)
      BY <3>2, <3>3, <3>6, <3>7
    <3>9. QED
      BY <3>8
  <2>3. QED
    BY <2>1, <2>2
<1>2. S \in T
  <2> HIDE DEF T
  <2>1. QED
    BY <1>1, SubsetInduction
<1>3. QED
  BY <1>2
================================================================================
