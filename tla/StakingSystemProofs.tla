-------------------------- MODULE StakingSystemProofs --------------------------
(***************************************************************************)
(* Theorems of the staking protocol, for all sets of accounts and all      *)
(* values of its parameters, and the lemmas that they and the books rest   *)
(* on, in three parts.                                                     *)
(*                                                                         *)
(* Sums of natural numbers over a finite set.  SumFunctionOnSet is a fold, *)
(* defined by recursion over the subsets of the set.  A sum of natural     *)
(* numbers is also the number of units it counts; that the two agree is an *)
(* induction over the subsets (SetInduction), after which most facts about *)
(* sums are facts about cardinalities.                                     *)
(*                                                                         *)
(* The calls and the entry points, contract by contract.  Staking: what    *)
(* each call does to the stake of a provider, to the total and to the      *)
(* custody of tokens.  ServiceProviderFactory: the types, the number of    *)
(* services it counts, and the difference between the stake of a provider  *)
(* in Staking and its direct stake.  DelegateManager, claims and slashes   *)
(* included: the types, and the difference between the stake of a provider *)
(* in Staking and what the two other contracts record of it.               *)
(*                                                                         *)
(* The system.  The inductive invariant is Inv.  TypeOK alone is not       *)
(* inductive: without ServicesCounted, a deregistration could take the     *)
(* number of endpoints of a provider below zero.  RequestCovered needs     *)
(* RequestTimed: a removal drops only requests that UndelegateIsPending    *)
(* calls pending, so a request for an amount must have an expiry block.    *)
(***************************************************************************)
EXTENDS StakingSystem, FiniteSetTheorems, TLAPS

\* Induction over the subsets of a finite set, for a property given by the
\* set of the subsets that have it.
LEMMA SetInduction ==
    ASSUME NEW S, IsFiniteSet(S), NEW Good,
           \A T \in SUBSET S : (\A x \in T : T \ {x} \in Good) => T \in Good
    PROVE  \A T \in SUBSET S : T \in Good
<1> DEFINE Bad == {T \in SUBSET S : T \notin Good}
<1> SUFFICES ASSUME Bad # {} PROVE FALSE
  OBVIOUS
<1>1. IsWellFoundedOn(StrictSubsetOrdering(S), SUBSET S)
  <2>1. FiniteSubsetsOf(S) = SUBSET S
    BY FS_FiniteSubsetsOfFinite
  <2>2. IsWellFoundedOn(StrictSubsetOrdering(S), FiniteSubsetsOf(S))
    BY FS_StrictSubsetOrderingWellFounded
  <2>3. QED
    BY <2>1, <2>2, Zenon
<1>2. PICK T \in Bad : \A U \in Bad : <<U, T>> \notin StrictSubsetOrdering(S)
  <2>1. Bad \subseteq SUBSET S
    OBVIOUS
  <2> HIDE DEF Bad
  <2>2. QED
    BY <1>1, <2>1, WFMin
<1>3. PICK x \in T : T \ {x} \notin Good
  BY <1>2
<1>4. T \ {x} \in Bad
  BY <1>2, <1>3
<1>5. <<T \ {x}, T>> \in StrictSubsetOrdering(S)
  BY <1>2, <1>3 DEF StrictSubsetOrdering
<1>6. QED
  BY <1>2, <1>4, <1>5

-----------------------------------------------------------------------------
(* Units.                                                                  *)

\* One unit for every one that f counts at an element of S.
Units(f, S) == {u \in S \X Nat : u[2] < f[u[1]]}

\* The units of one element are as many as its value.
LEMMA UnitsOfOne ==
    ASSUME NEW f, NEW x, f[x] \in Nat
    PROVE  IsFiniteSet(Units(f, {x})) /\ Cardinality(Units(f, {x})) = f[x]
<1>1. Units(f, {x}) = {x} \X (0 .. f[x] - 1)
  BY DEF Units
<1>2. IsFiniteSet({x}) /\ Cardinality({x}) = 1
  BY FS_Singleton
<1>3. IsFiniteSet(0 .. f[x] - 1) /\ Cardinality(0 .. f[x] - 1) = f[x]
  <2>1. \A n \in Nat : IsFiniteSet(0 .. n - 1) /\ Cardinality(0 .. n - 1) = n
    BY FS_Interval
  <2>2. QED
    BY <2>1
<1>4. /\ IsFiniteSet({x} \X (0 .. f[x] - 1))
      /\ Cardinality({x} \X (0 .. f[x] - 1)) = 1 * f[x]
  <2> DEFINE T == 0 .. f[x] - 1
  <2>1. IsFiniteSet(T) /\ Cardinality(T) = f[x]
    BY <1>3
  <2> HIDE DEF T
  <2>2. IsFiniteSet({x} \X T) /\ Cardinality({x} \X T) = 1 * f[x]
    BY <1>2, <2>1, FS_Product
  <2>3. QED
    BY <2>2 DEF T
<1>5. 1 * f[x] = f[x]
  OBVIOUS
<1>6. QED
  BY <1>1, <1>4, <1>5, Zenon

\* The units of two disjoint sets are disjoint and together those of the union.
LEMMA UnitsOfUnion ==
    ASSUME NEW f, NEW S, NEW T, S \cap T = {},
           IsFiniteSet(Units(f, S)), IsFiniteSet(Units(f, T))
    PROVE  /\ IsFiniteSet(Units(f, S \cup T))
           /\ Cardinality(Units(f, S \cup T))
                = Cardinality(Units(f, S)) + Cardinality(Units(f, T))
<1>1. Units(f, S \cup T) = Units(f, S) \cup Units(f, T)
  BY DEF Units
<1>2. Units(f, S) \cap Units(f, T) = {}
  BY DEF Units
<1>3. Cardinality(Units(f, S)) \in Nat /\ Cardinality(Units(f, T)) \in Nat
  BY FS_CardinalityType
<1>4. /\ IsFiniteSet(Units(f, S) \cup Units(f, T))
      /\ Cardinality(Units(f, S) \cup Units(f, T))
           = Cardinality(Units(f, S)) + Cardinality(Units(f, T)) - Cardinality({})
  BY <1>2, FS_Union
<1>5. Cardinality({}) = 0
  BY FS_EmptySet
<1>6. \A m, n \in Nat : m + n - 0 = m + n
  OBVIOUS
<1>7. QED
  BY <1>1, <1>3, <1>4, <1>5, <1>6, Zenon

\* The units over a finite set are finitely many.
LEMMA UnitsFinite ==
    ASSUME NEW S, IsFiniteSet(S), NEW f, \A x \in S : f[x] \in Nat
    PROVE  IsFiniteSet(Units(f, S))
<1> DEFINE Good == {T \in SUBSET S : IsFiniteSet(Units(f, T))}
<1>1. ASSUME NEW T \in SUBSET S, \A x \in T : T \ {x} \in Good
      PROVE  T \in Good
  <2>1. CASE T = {}
    <3>1. Units(f, {}) = {}
      BY DEF Units
    <3>2. QED
      BY <2>1, <3>1, FS_EmptySet
  <2>2. CASE T # {}
    <3>1. PICK x : x \in T
      BY <2>2
    <3>2. IsFiniteSet(Units(f, T \ {x})) /\ IsFiniteSet(Units(f, {x}))
      BY <1>1, <3>1, UnitsOfOne
    <3>3. (T \ {x}) \cap {x} = {} /\ (T \ {x}) \cup {x} = T
      BY <3>1
    <3>4. QED
      BY <3>2, <3>3, UnitsOfUnion
  <2>3. QED
    BY <2>1, <2>2
<1> HIDE DEF Good
<1>2. \A T \in SUBSET S : T \in Good
  BY <1>1, SetInduction, Zenon
<1>3. QED
  BY <1>2 DEF Good

-----------------------------------------------------------------------------
(* Sums.                                                                   *)

\* The step of the recursion by which the fold is defined.
SumStep(f, g, s) ==
    IF s = {} THEN 0 ELSE f[CHOOSE x \in s : TRUE] + g[s \ {CHOOSE x \in s : TRUE}]

\* The recursion has a solution, the number of units, and no other.
LEMMA SumRecursion ==
    ASSUME NEW S, IsFiniteSet(S), NEW f, \A x \in S : f[x] \in Nat
    PROVE  /\ \E g : g = [s \in SUBSET S |-> SumStep(f, g, s)]
           /\ \A g : g = [s \in SUBSET S |-> SumStep(f, g, s)]
                        => g[S] = Cardinality(Units(f, S))
<1> DEFINE count == [s \in SUBSET S |-> Cardinality(Units(f, s))]
           Choice(s) == CHOOSE x \in s : TRUE
<1>1. ASSUME NEW s \in SUBSET S
      PROVE  /\ s = {} => Cardinality(Units(f, s)) = 0
             /\ s # {} => /\ Choice(s) \in s
                          /\ Cardinality(Units(f, s))
                               = f[Choice(s)] + Cardinality(Units(f, s \ {Choice(s)}))
  <2>1. CASE s = {}
    <3>1. Units(f, {}) = {}
      BY DEF Units
    <3>2. QED
      BY <2>1, <3>1, FS_EmptySet
  <2>2. CASE s # {}
    <3>1. Choice(s) \in s
      BY <2>2
    <3> HIDE DEF Choice
    <3>2. IsFiniteSet(s \ {Choice(s)}) /\ \A x \in s \ {Choice(s)} : f[x] \in Nat
      <4>1. s \ {Choice(s)} \in SUBSET S
        OBVIOUS
      <4>2. QED
        BY <4>1, FS_Subset
    <3>3. /\ IsFiniteSet(Units(f, s \ {Choice(s)}))
          /\ Cardinality(Units(f, s \ {Choice(s)})) \in Nat
      BY <3>2, UnitsFinite, FS_CardinalityType
    <3>4. /\ f[Choice(s)] \in Nat
          /\ IsFiniteSet(Units(f, {Choice(s)}))
          /\ Cardinality(Units(f, {Choice(s)})) = f[Choice(s)]
      BY <3>1, UnitsOfOne
    <3>5. {Choice(s)} \cap (s \ {Choice(s)}) = {} /\ {Choice(s)} \cup (s \ {Choice(s)}) = s
      BY <3>1
    <3>6. Cardinality(Units(f, {Choice(s)} \cup (s \ {Choice(s)})))
            = Cardinality(Units(f, {Choice(s)})) + Cardinality(Units(f, s \ {Choice(s)}))
      BY <3>3, <3>4, <3>5, UnitsOfUnion
    <3>7. QED
      BY <2>2, <3>1, <3>4, <3>5, <3>6
  <2>3. QED
    BY <2>1, <2>2
<1>2. count = [s \in SUBSET S |-> SumStep(f, count, s)]
  <2>1. ASSUME NEW s \in SUBSET S
        PROVE  Cardinality(Units(f, s)) = SumStep(f, count, s)
    BY <1>1 DEF SumStep
  <2>2. QED
    BY <2>1
<1>3. ASSUME NEW g, g = [s \in SUBSET S |-> SumStep(f, g, s)]
      PROVE  g[S] = Cardinality(Units(f, S))
  <2> DEFINE Good == {T \in SUBSET S : g[T] = Cardinality(Units(f, T))}
  <2>1. ASSUME NEW T \in SUBSET S, \A x \in T : T \ {x} \in Good
        PROVE  T \in Good
    <3>1. g[T] = SumStep(f, g, T)
      BY <1>3
    <3>2. CASE T = {}
      BY <1>1, <3>1, <3>2 DEF SumStep
    <3>3. CASE T # {}
      <4>1. g[T \ {Choice(T)}] = Cardinality(Units(f, T \ {Choice(T)}))
        BY <1>1, <2>1, <3>3
      <4>2. QED
        BY <1>1, <3>1, <3>3, <4>1 DEF SumStep
    <3>4. QED
      BY <3>2, <3>3
  <2> HIDE DEF Good
  <2>2. \A T \in SUBSET S : T \in Good
    BY <2>1, SetInduction, Zenon
  <2>3. QED
    BY <2>2 DEF Good
<1>4. QED
  BY <1>2, <1>3

\* A sum is the number of its units.
LEMMA SumIsCount ==
    ASSUME NEW S, IsFiniteSet(S), NEW f, \A x \in S : f[x] \in Nat
    PROVE  /\ SumFunctionOnSet(f, S) = Cardinality(Units(f, S))
           /\ SumFunctionOnSet(f, S) \in Nat
<1> DEFINE Solves(g) == g = [s \in SUBSET S |-> SumStep(f, g, s)]
           iter == CHOOSE g : Solves(g)
<1>1. SumFunctionOnSet(f, S) = iter[S]
  BY DEF SumFunctionOnSet, FoldFunctionOnSet, MapThenFoldSet, SumStep
<1>2. (\E g : Solves(g)) /\ \A g : Solves(g) => g[S] = Cardinality(Units(f, S))
  BY SumRecursion
<1> HIDE DEF Solves
<1>3. Solves(iter)
  BY <1>2
<1>4. Cardinality(Units(f, S)) \in Nat
  BY UnitsFinite, FS_CardinalityType
<1>5. QED
  BY <1>1, <1>2, <1>3, <1>4

\* Nothing sums to zero.
LEMMA SumEmpty == ASSUME NEW f PROVE SumFunctionOnSet(f, {}) = 0
<1>1. Units(f, {}) = {}
  BY DEF Units
<1>2. IsFiniteSet({}) /\ Cardinality({}) = 0
  BY FS_EmptySet
<1>3. QED
  BY <1>1, <1>2, SumIsCount

\* A sum depends on the values at the elements of the set.
LEMMA SumSame ==
    ASSUME NEW S, IsFiniteSet(S), NEW f, NEW g,
           \A x \in S : f[x] \in Nat /\ g[x] = f[x]
    PROVE  SumFunctionOnSet(g, S) = SumFunctionOnSet(f, S)
<1>1. Units(g, S) = Units(f, S)
  BY DEF Units
<1>2. \A x \in S : f[x] \in Nat /\ g[x] \in Nat
  OBVIOUS
<1>3. QED
  BY <1>1, <1>2, SumIsCount

\* Values of zero may be left out.
LEMMA SumSupport ==
    ASSUME NEW S, IsFiniteSet(S), NEW T \in SUBSET S, NEW f,
           \A x \in S : f[x] \in Nat, \A x \in S \ T : f[x] = 0
    PROVE  SumFunctionOnSet(f, T) = SumFunctionOnSet(f, S)
<1>1. Units(f, T) = Units(f, S)
  BY DEF Units
<1>2. IsFiniteSet(T) /\ \A x \in T : f[x] \in Nat
  BY FS_Subset
<1>3. QED
  BY <1>1, <1>2, SumIsCount

\* Zeros sum to zero.
LEMMA SumZero ==
    ASSUME NEW S, IsFiniteSet(S), NEW f, \A x \in S : f[x] = 0
    PROVE  SumFunctionOnSet(f, S) = 0
<1>1. SumFunctionOnSet(f, {}) = SumFunctionOnSet(f, S)
  <2>1. {} \in SUBSET S /\ \A x \in S : f[x] \in Nat
    OBVIOUS
  <2>2. QED
    BY <2>1, SumSupport
<1>2. QED
  BY <1>1, SumEmpty

\* A sum is that of one element and that of the rest.
LEMMA SumSplit ==
    ASSUME NEW S, IsFiniteSet(S), NEW f, \A x \in S : f[x] \in Nat, NEW x \in S
    PROVE  /\ IsFiniteSet(S \ {x})
           /\ SumFunctionOnSet(f, S \ {x}) \in Nat
           /\ SumFunctionOnSet(f, S) = f[x] + SumFunctionOnSet(f, S \ {x})
<1>1. IsFiniteSet(S \ {x})
  BY FS_RemoveElement
<1>2. /\ IsFiniteSet(Units(f, S \ {x}))
      /\ SumFunctionOnSet(f, S \ {x}) \in Nat
      /\ SumFunctionOnSet(f, S \ {x}) = Cardinality(Units(f, S \ {x}))
  BY <1>1, UnitsFinite, SumIsCount
<1>3. IsFiniteSet(Units(f, {x})) /\ Cardinality(Units(f, {x})) = f[x]
  BY UnitsOfOne
<1>4. {x} \cap (S \ {x}) = {} /\ {x} \cup (S \ {x}) = S
  OBVIOUS
<1>5. Cardinality(Units(f, {x} \cup (S \ {x})))
        = Cardinality(Units(f, {x})) + Cardinality(Units(f, S \ {x}))
  BY <1>2, <1>3, <1>4, UnitsOfUnion
<1>6. SumFunctionOnSet(f, S) = Cardinality(Units(f, S))
  BY SumIsCount
<1>7. QED
  BY <1>1, <1>2, <1>3, <1>4, <1>5, <1>6

\* No element exceeds the sum.
LEMMA SumBounds ==
    ASSUME NEW S, IsFiniteSet(S), NEW f, \A x \in S : f[x] \in Nat, NEW x \in S
    PROVE  f[x] <= SumFunctionOnSet(f, S)
<1>1. /\ SumFunctionOnSet(f, S \ {x}) \in Nat
      /\ SumFunctionOnSet(f, S) = f[x] + SumFunctionOnSet(f, S \ {x})
  BY SumSplit
<1>2. f[x] \in Nat
  OBVIOUS
<1>3. QED
  BY <1>1, <1>2

\* When one value changes, the sum changes by as much.
LEMMA SumChange ==
    ASSUME NEW S, IsFiniteSet(S), NEW x \in S, NEW f, NEW g,
           \A y \in S : f[y] \in Nat /\ g[y] \in Nat,
           \A y \in S \ {x} : g[y] = f[y]
    PROVE  SumFunctionOnSet(g, S) - g[x] = SumFunctionOnSet(f, S) - f[x]
<1>1. SumFunctionOnSet(f, S) = f[x] + SumFunctionOnSet(f, S \ {x})
  BY SumSplit
<1>2. SumFunctionOnSet(g, S) = g[x] + SumFunctionOnSet(g, S \ {x})
  BY SumSplit
<1>3. IsFiniteSet(S \ {x}) /\ SumFunctionOnSet(f, S \ {x}) \in Nat
  BY SumSplit
<1>4. SumFunctionOnSet(g, S \ {x}) = SumFunctionOnSet(f, S \ {x})
  BY <1>3, SumSame
<1>5. QED
  BY <1>1, <1>2, <1>3, <1>4

\* The sum of sums.
LEMMA SumCombine ==
    ASSUME NEW S, IsFiniteSet(S), NEW f, NEW g, NEW h,
           \A x \in S : f[x] \in Nat /\ g[x] \in Nat /\ h[x] = f[x] + g[x]
    PROVE  SumFunctionOnSet(h, S) = SumFunctionOnSet(f, S) + SumFunctionOnSet(g, S)
<1> DEFINE Good == {T \in SUBSET S : SumFunctionOnSet(h, T)
                          = SumFunctionOnSet(f, T) + SumFunctionOnSet(g, T)}
<1>1. ASSUME NEW T \in SUBSET S, \A x \in T : T \ {x} \in Good
      PROVE  T \in Good
  <2>1. CASE T = {}
    BY <2>1, SumEmpty
  <2>2. CASE T # {}
    <3>1. PICK x : x \in T
      BY <2>2
    <3>2. IsFiniteSet(T) /\ \A y \in T : f[y] \in Nat /\ g[y] \in Nat /\ h[y] \in Nat
      BY FS_Subset
    <3>3. /\ SumFunctionOnSet(f, T) = f[x] + SumFunctionOnSet(f, T \ {x})
          /\ SumFunctionOnSet(f, T \ {x}) \in Nat
      BY <3>1, <3>2, SumSplit
    <3>4. /\ SumFunctionOnSet(g, T) = g[x] + SumFunctionOnSet(g, T \ {x})
          /\ SumFunctionOnSet(g, T \ {x}) \in Nat
      BY <3>1, <3>2, SumSplit
    <3>5. SumFunctionOnSet(h, T) = h[x] + SumFunctionOnSet(h, T \ {x})
      BY <3>1, <3>2, SumSplit
    <3>6. SumFunctionOnSet(h, T \ {x})
            = SumFunctionOnSet(f, T \ {x}) + SumFunctionOnSet(g, T \ {x})
      BY <1>1, <3>1
    <3>7. h[x] = f[x] + g[x] /\ f[x] \in Nat /\ g[x] \in Nat
      BY <3>1
    <3>8. SumFunctionOnSet(h, T) = SumFunctionOnSet(f, T) + SumFunctionOnSet(g, T)
      BY <3>3, <3>4, <3>5, <3>6, <3>7
    <3>9. QED
      BY <3>8
  <2>3. QED
    BY <2>1, <2>2
<1> HIDE DEF Good
<1>2. \A T \in SUBSET S : T \in Good
  BY <1>1, SetInduction, Zenon
<1>3. QED
  BY <1>2 DEF Good

\* Values at most those of another function sum to at most its sum.
LEMMA SumMonotone ==
    ASSUME NEW S, IsFiniteSet(S), NEW f, NEW g,
           \A x \in S : f[x] \in Nat /\ g[x] \in Nat /\ f[x] <= g[x]
    PROVE  SumFunctionOnSet(f, S) <= SumFunctionOnSet(g, S)
<1>1. Units(f, S) \in SUBSET Units(g, S)
  BY DEF Units
<1>2. IsFiniteSet(Units(g, S))
  BY UnitsFinite
<1>3. Cardinality(Units(f, S)) <= Cardinality(Units(g, S))
  BY <1>1, <1>2, FS_Subset
<1>4. /\ SumFunctionOnSet(f, S) = Cardinality(Units(f, S))
      /\ SumFunctionOnSet(g, S) = Cardinality(Units(g, S))
  BY SumIsCount
<1>5. QED
  BY <1>3, <1>4

\* Sums by column and sums by row have the same sum.
LEMMA SumSwap ==
    ASSUME NEW S, IsFiniteSet(S), NEW T, IsFiniteSet(T), NEW f,
           \A x \in S, y \in T : f[x][y] \in Nat
    PROVE  SumFunctionOnSet([y \in T |-> SumFunctionOnSet([x \in S |-> f[x][y]], S)], T)
             = SumFunctionOnSet([x \in S |-> SumFunctionOnSet(f[x], T)], S)
<1> DEFINE Column(U) == [y \in T |-> SumFunctionOnSet([x \in S |-> f[x][y]], U)]
           row       == [x \in S |-> SumFunctionOnSet(f[x], T)]
           Good      == {U \in SUBSET S :
                            SumFunctionOnSet(Column(U), T) = SumFunctionOnSet(row, U)}
<1>1. \A x \in S : row[x] \in Nat
  <2>1. ASSUME NEW x \in S PROVE SumFunctionOnSet(f[x], T) \in Nat
    BY SumIsCount
  <2>2. QED
    BY <2>1
<1>2. ASSUME NEW U \in SUBSET S, \A x \in U : U \ {x} \in Good
      PROVE  U \in Good
  <2>1. CASE U = {}
    <3>1. \A y \in T : Column(U)[y] = 0
      BY <2>1, SumEmpty
    <3>2. SumFunctionOnSet(Column(U), T) = 0
      <4> HIDE DEF Column
      <4>1. QED
        BY <3>1, SumZero
    <3>3. QED
      BY <2>1, <3>2, SumEmpty
  <2>2. CASE U # {}
    <3>1. PICK x : x \in U
      BY <2>2
    <3>2. IsFiniteSet(U)
      BY FS_Subset
    <3>3. ASSUME NEW y \in T
          PROVE  /\ Column(U \ {x})[y] \in Nat /\ f[x][y] \in Nat
                 /\ Column(U)[y] = f[x][y] + Column(U \ {x})[y]
      <4> DEFINE g == [z \in S |-> f[z][y]]
      <4>1. \A z \in U : g[z] \in Nat
        OBVIOUS
      <4>2. g[x] = f[x][y] /\ f[x][y] \in Nat
        BY <3>1
      <4> HIDE DEF g
      <4>3. /\ SumFunctionOnSet(g, U \ {x}) \in Nat
            /\ SumFunctionOnSet(g, U) = g[x] + SumFunctionOnSet(g, U \ {x})
        BY <3>1, <3>2, <4>1, SumSplit
      <4>4. QED
        BY <4>2, <4>3 DEF g
    <3>4. SumFunctionOnSet(Column(U), T)
            = SumFunctionOnSet(f[x], T) + SumFunctionOnSet(Column(U \ {x}), T)
      <4> HIDE DEF Column
      <4>1. QED
        BY <3>3, SumCombine
    <3>5. SumFunctionOnSet(Column(U \ {x}), T) = SumFunctionOnSet(row, U \ {x})
      BY <1>2, <3>1
    <3>6. SumFunctionOnSet(row, U) = row[x] + SumFunctionOnSet(row, U \ {x})
      <4>1. \A z \in U : row[z] \in Nat
        BY <1>1
      <4> HIDE DEF row
      <4>2. QED
        BY <3>1, <3>2, <4>1, SumSplit
    <3>7. row[x] = SumFunctionOnSet(f[x], T)
      BY <3>1
    <3> HIDE DEF Column, row
    <3>8. SumFunctionOnSet(Column(U), T) = SumFunctionOnSet(row, U)
      BY <3>4, <3>5, <3>6, <3>7
    <3>9. QED
      BY <3>8
  <2>3. QED
    BY <2>1, <2>2
<1> HIDE DEF Good
<1>3. \A U \in SUBSET S : U \in Good
  BY <1>2, SetInduction, Zenon
<1>4. QED
  BY <1>3 DEF Good

\* A sum of products with one factor is the product with the sum.
LEMMA SumScaled ==
    ASSUME NEW S, IsFiniteSet(S), NEW f, NEW g, NEW k \in Nat,
           \A x \in S : f[x] \in Nat /\ g[x] = k * f[x]
    PROVE  SumFunctionOnSet(g, S) = k * SumFunctionOnSet(f, S)
<1> DEFINE Good == {T \in SUBSET S :
                       SumFunctionOnSet(g, T) = k * SumFunctionOnSet(f, T)}
<1>1. ASSUME NEW T \in SUBSET S, \A x \in T : T \ {x} \in Good
      PROVE  T \in Good
  <2>1. CASE T = {}
    BY <2>1, SumEmpty
  <2>2. CASE T # {}
    <3>1. PICK x : x \in T
      BY <2>2
    <3>2. IsFiniteSet(T) /\ \A y \in T : f[y] \in Nat /\ g[y] \in Nat
      BY FS_Subset
    <3>3. /\ SumFunctionOnSet(f, T) = f[x] + SumFunctionOnSet(f, T \ {x})
          /\ SumFunctionOnSet(f, T \ {x}) \in Nat
      BY <3>1, <3>2, SumSplit
    <3>4. SumFunctionOnSet(g, T) = g[x] + SumFunctionOnSet(g, T \ {x})
      BY <3>1, <3>2, SumSplit
    <3>5. SumFunctionOnSet(g, T \ {x}) = k * SumFunctionOnSet(f, T \ {x})
      BY <1>1, <3>1
    <3>6. g[x] = k * f[x] /\ f[x] \in Nat
      BY <3>1
    <3>7. \A a, b \in Nat : k * a + k * b = k * (a + b)
      OBVIOUS
    <3>8. SumFunctionOnSet(g, T) = k * SumFunctionOnSet(f, T)
      BY <3>3, <3>4, <3>5, <3>6, <3>7
    <3>9. QED
      BY <3>8
  <2>3. QED
    BY <2>1, <2>2
<1> HIDE DEF Good
<1>2. \A T \in SUBSET S : T \in Good
  BY <1>1, SetInduction, Zenon
<1>3. QED
  BY <1>2 DEF Good

\* Products of naturals, which the reward and slash formulas are made of.
LEMMA ProductNat == \A x, y \in Nat : x * y \in Nat
OBVIOUS

\* Positive factors have a positive product.
LEMMA ProductPos == \A x, y \in Nat \ {0} : x * y \in Nat \ {0}
OBVIOUS

\* Integer division of naturals.
LEMMA QuotientNat == \A x \in Nat, y \in Nat \ {0} : x \div y \in Nat
OBVIOUS

\* A quotient is the largest number of times that the divisor fits.
LEMMA QuotientBelow ==
    \A x \in Nat, y \in Nat \ {0} : (x \div y) * y <= x /\ x < (x \div y + 1) * y
OBVIOUS

\* A common factor may be cancelled or put in.
LEMMA FactorCancels ==
    \A x, y \in Nat, z \in Nat \ {0} : x * z <= y * z => x <= y
OBVIOUS

LEMMA FactorKeeps == \A x, y, z \in Nat : x <= y => x * z <= y * z
OBVIOUS

-----------------------------------------------------------------------------
(* Histories.                                                              *)

\* Checkpointing: what was recorded last is what a later lookup returns.
LEMMA CheckpointFacts ==
    ASSUME now \in 1..MaxBlock, NEW h \in [Blocks -> Nat], NEW v \in Nat
    PROVE  /\ Checkpoint(h, v) \in [Blocks -> Nat]
           /\ Checkpoint(h, v)[MaxBlock] = v
BY BlockAssumption DEF Checkpoint, Blocks

\* Every lookup in a history returns a natural number.
LEMMA StakeNat ==
    ASSUME StakingTypeOK
    PROVE  /\ TotalStaked \in Nat
           /\ \A sp \in ServiceProviders : TotalStakedFor(sp) \in Nat
           /\ \A b \in Blocks : TotalStakedAt(b) \in Nat
           /\ \A sp \in ServiceProviders, b \in Blocks : TotalStakedForAt(sp, b) \in Nat
BY BlockAssumption DEF StakingTypeOK, TotalStaked, TotalStakedAt, TotalStakedFor,
                       TotalStakedForAt, Blocks

\* The call leaves sp with this stake and the contract with this total.
StakeBecomes(sp, stake, total) ==
    /\ \A p \in ServiceProviders :
          TotalStakedFor(p)' = IF p = sp THEN stake ELSE TotalStakedFor(p)
    /\ TotalStaked' = total

\* Both histories keep their type and end at the values recorded.
LEMMA RecordStakeFacts ==
    ASSUME StakingTypeOK, NEW sp \in ServiceProviders,
           NEW stake \in Nat, NEW total \in Nat,
           RecordStake(sp, stake, total)
    PROVE  /\ stakedHistory' \in [ServiceProviders -> [Blocks -> Nat]]
           /\ totalStakedHistory' \in [Blocks -> Nat]
           /\ StakeBecomes(sp, stake, total)
<1>1. /\ Checkpoint(stakedHistory[sp], stake) \in [Blocks -> Nat]
      /\ Checkpoint(stakedHistory[sp], stake)[MaxBlock] = stake
      /\ Checkpoint(totalStakedHistory, total) \in [Blocks -> Nat]
      /\ Checkpoint(totalStakedHistory, total)[MaxBlock] = total
  BY CheckpointFacts DEF StakingTypeOK
<1>2. /\ stakedHistory' =
             [stakedHistory EXCEPT ![sp] = Checkpoint(stakedHistory[sp], stake)]
      /\ totalStakedHistory' = Checkpoint(totalStakedHistory, total)
  BY DEF RecordStake
<1>3. QED
  BY <1>1, <1>2 DEF StakingTypeOK, StakeBecomes, TotalStakedFor, TotalStakedForAt,
                    TotalStaked, TotalStakedAt

\* An increase adds to the stake of sp and to the total.
LEMMA IncreaseFacts ==
    ASSUME StakingTypeOK, NEW sp \in ServiceProviders, NEW amount \in Nat,
           IncreaseStakeBalance(sp, amount)
    PROVE  /\ stakedHistory' \in [ServiceProviders -> [Blocks -> Nat]]
           /\ totalStakedHistory' \in [Blocks -> Nat]
           /\ StakeBecomes(sp, TotalStakedFor(sp) + amount, TotalStaked + amount)
<1>1. /\ TotalStakedFor(sp) + amount \in Nat
      /\ TotalStaked + amount \in Nat
  BY StakeNat
<1>2. RecordStake(sp, TotalStakedFor(sp) + amount, TotalStaked + amount)
  BY DEF IncreaseStakeBalance
<1>3. QED
  BY <1>1, <1>2, RecordStakeFacts

\* A decrease is bounded by the stake it takes from.
LEMMA DecreaseFacts ==
    ASSUME StakingTypeOK, NEW sp \in ServiceProviders, NEW amount \in Nat,
           DecreaseStakeBalance(sp, amount)
    PROVE  /\ stakedHistory' \in [ServiceProviders -> [Blocks -> Nat]]
           /\ totalStakedHistory' \in [Blocks -> Nat]
           /\ amount <= TotalStakedFor(sp)
           /\ StakeBecomes(sp, TotalStakedFor(sp) - amount, TotalStaked - amount)
<1>1. /\ TotalStakedFor(sp) - amount \in Nat
      /\ TotalStaked - amount \in Nat
  BY StakeNat DEF DecreaseStakeBalance
<1>2. RecordStake(sp, TotalStakedFor(sp) - amount, TotalStaked - amount)
  BY DEF DecreaseStakeBalance
<1>3. QED
  BY <1>1, <1>2, RecordStakeFacts DEF DecreaseStakeBalance

-----------------------------------------------------------------------------
(* Calls.                                                                  *)

\* stakeFor and delegateStakeFor: stake, total and custody grow by the amount.
LEMMA StakeForFacts ==
    ASSUME StakingTypeOK, UNCHANGED now, NEW sp \in ServiceProviders,
           NEW from \in Accounts, NEW amount \in Nat,
           StakeFor(sp, from, amount)
    PROVE  /\ StakingTypeOK'
           /\ StakeBecomes(sp, TotalStakedFor(sp) + amount, TotalStaked + amount)
           /\ vault' = vault + amount
BY IncreaseFacts DEF StakeFor, StakingTypeOK

\* unstakeFor and undelegateStakeFor: they shrink by it.
LEMMA UnstakeForFacts ==
    ASSUME StakingTypeOK, UNCHANGED now, NEW sp \in ServiceProviders,
           NEW to \in Accounts, NEW amount \in Nat,
           UnstakeFor(sp, to, amount)
    PROVE  /\ StakingTypeOK'
           /\ amount <= TotalStakedFor(sp)
           /\ StakeBecomes(sp, TotalStakedFor(sp) - amount, TotalStaked - amount)
           /\ vault' = vault - amount
BY DecreaseFacts DEF UnstakeFor, StakingTypeOK

\* slash: they shrink by what is burned.
LEMMA BurnForFacts ==
    ASSUME StakingTypeOK, UNCHANGED now, NEW sp \in ServiceProviders,
           NEW amount \in Nat, BurnFor(sp, amount)
    PROVE  /\ StakingTypeOK'
           /\ amount <= TotalStakedFor(sp)
           /\ StakeBecomes(sp, TotalStakedFor(sp) - amount, TotalStaked - amount)
           /\ vault' = vault - amount
BY DecreaseFacts DEF BurnFor, StakingTypeOK

\* stakeRewards: they grow by what was minted.
LEMMA StakeRewardsFacts ==
    ASSUME StakingTypeOK, UNCHANGED now, NEW sp \in ServiceProviders,
           NEW amount \in Nat, StakeRewards(sp, amount)
    PROVE  /\ StakingTypeOK'
           /\ StakeBecomes(sp, TotalStakedFor(sp) + amount, TotalStaked + amount)
           /\ vault' = vault + amount
<1>1. /\ stakedHistory' \in [ServiceProviders -> [Blocks -> Nat]]
      /\ totalStakedHistory' \in [Blocks -> Nat]
      /\ StakeBecomes(sp, TotalStakedFor(sp) + amount, TotalStaked + amount)
  BY IncreaseFacts DEF StakeRewards
<1>2. lastClaimed' \in [ServiceProviders -> Blocks]
  BY DEF StakeRewards, StakingTypeOK, Blocks
<1>3. /\ wallet' \in [Accounts -> Nat]
      /\ vault' = vault + amount
      /\ vault' \in Nat
      /\ now' \in 1..MaxBlock
  BY DEF StakeRewards, StakingTypeOK
<1>4. QED
  BY <1>1, <1>2, <1>3 DEF StakingTypeOK

\* updateClaimHistory: they stay.
LEMMA UpdateClaimHistoryFacts ==
    ASSUME StakingTypeOK, UNCHANGED now, NEW sp \in ServiceProviders,
           UpdateClaimHistory(sp)
    PROVE  /\ StakingTypeOK'
           /\ StakeBecomes(sp, TotalStakedFor(sp), TotalStaked)
           /\ vault' = vault
<1>1. lastClaimed' \in [ServiceProviders -> Blocks]
  BY DEF UpdateClaimHistory, StakingTypeOK, Blocks
<1>2. QED
  BY <1>1 DEF UpdateClaimHistory, StakingTypeOK, StakeBecomes, TotalStakedFor,
              TotalStakedForAt, TotalStaked, TotalStakedAt

-----------------------------------------------------------------------------
(* The ServiceProviderFactory.                                             *)

\* numberOfEndpoints counts the registered services of a provider: without
\* it, deregister could take a provider below zero endpoints.
ServicesCounted ==
    /\ IsFiniteSet(services)
    /\ \A sp \in ServiceProviders : numberOfEndpoints[sp] = Cardinality(ServicesOf(sp))

\* Every provider's direct stake moves with its stake in Staking.
DirectStakeMoves ==
    \A sp \in ServiceProviders :
        TotalStakedFor(sp)' - deployerStake'[sp] = TotalStakedFor(sp) - deployerStake[sp]

\* The tokens in custody move with the total staked.
CustodyMoves == vault' - TotalStaked' = vault - TotalStaked

ServiceTypeOK ==
    /\ services \subseteq Service
    /\ numberOfEndpoints \in [ServiceProviders -> Nat]
    /\ minAccountStake \in [ServiceProviders -> Nat]
    /\ maxAccountStake \in [ServiceProviders -> Nat]

CutTypeOK ==
    /\ deployerCut \in [ServiceProviders -> 0..DeployerCutBase]
    /\ cutRequest \in [ServiceProviders -> [cut : 0..DeployerCutBase, expiry : Nat]]

-----------------------------------------------------------------------------
(* Services.                                                               *)

\* A new service of one provider is counted for that provider.
LEMMA AddServiceFacts ==
    ASSUME ProviderTypeOK, ServicesCounted, NEW s \in Service, AddService(s)
    PROVE  ServiceTypeOK' /\ ServicesCounted'
<1>1. s.owner \in ServiceProviders /\ s.type \in ServiceTypes
  BY DEF Service
<1>2. ServiceTypeOK'
  BY <1>1, ProviderAssumption DEF ServiceTypeOK, ProviderTypeOK, AddService
<1>3. IsFiniteSet(services')
  BY FS_AddElement DEF ServicesCounted, AddService
<1>4. s \notin services
  BY DEF AddService
<1>5. ASSUME NEW sp \in ServiceProviders
      PROVE  numberOfEndpoints'[sp] = Cardinality(ServicesOf(sp)')
  <2>1. IsFiniteSet(ServicesOf(sp))
    BY FS_Subset DEF ServicesCounted, ServicesOf
  <2>2. CASE sp = s.owner
    <3>1. ServicesOf(sp)' = ServicesOf(sp) \cup {s} /\ s \notin ServicesOf(sp)
      BY <2>2, <1>4 DEF ServicesOf, AddService
    <3>2. Cardinality(ServicesOf(sp)') = Cardinality(ServicesOf(sp)) + 1
      BY <2>1, <3>1, FS_AddElement
    <3>3. QED
      BY <3>2, <2>2 DEF ServicesCounted, AddService, ProviderTypeOK
  <2>3. CASE sp # s.owner
    <3>1. ServicesOf(sp)' = ServicesOf(sp)
      BY <2>3 DEF ServicesOf, AddService
    <3>2. QED
      BY <3>1, <2>3 DEF ServicesCounted, AddService, ProviderTypeOK
  <2>4. QED
    BY <2>2, <2>3
<1>6. QED
  BY <1>2, <1>3, <1>5 DEF ServicesCounted

\* A service that is removed was counted, so the count stays natural.
LEMMA RemoveServiceFacts ==
    ASSUME ProviderTypeOK, ServicesCounted, NEW s \in Service, RemoveService(s)
    PROVE  ServiceTypeOK' /\ ServicesCounted'
<1>1. s.owner \in ServiceProviders /\ s.type \in ServiceTypes
  BY DEF Service
<1>2. IsFiniteSet(services')
  BY FS_RemoveElement DEF ServicesCounted, RemoveService
<1>3. ASSUME NEW sp \in ServiceProviders
      PROVE  /\ numberOfEndpoints'[sp] = Cardinality(ServicesOf(sp)')
             /\ numberOfEndpoints'[sp] \in Nat
  <2>1. IsFiniteSet(ServicesOf(sp))
    BY FS_Subset DEF ServicesCounted, ServicesOf
  <2>2. CASE sp = s.owner
    <3>1. ServicesOf(sp)' = ServicesOf(sp) \ {s} /\ s \in ServicesOf(sp)
      BY <2>2 DEF ServicesOf, RemoveService
    <3>2. Cardinality(ServicesOf(sp)') = Cardinality(ServicesOf(sp)) - 1
      BY <2>1, <3>1, FS_RemoveElement
    <3>3. Cardinality(ServicesOf(sp)') \in Nat
      BY <2>1, <3>1, FS_RemoveElement, FS_CardinalityType
    <3>4. QED
      BY <3>2, <3>3, <2>2 DEF ServicesCounted, RemoveService, ProviderTypeOK
  <2>3. CASE sp # s.owner
    <3>1. ServicesOf(sp)' = ServicesOf(sp)
      BY <2>3 DEF ServicesOf, RemoveService
    <3>2. QED
      BY <3>1, <2>3 DEF ServicesCounted, RemoveService, ProviderTypeOK
  <2>4. QED
    BY <2>2, <2>3
<1>4. numberOfEndpoints' \in [ServiceProviders -> Nat]
  BY <1>3 DEF RemoveService, ProviderTypeOK
<1>5. ServiceTypeOK'
  BY <1>1, <1>4, ProviderAssumption DEF ServiceTypeOK, ProviderTypeOK, RemoveService
<1>6. QED
  BY <1>2, <1>3, <1>5 DEF ServicesCounted

\* Operations that leave the services alone.
LEMMA SameServicesFacts ==
    ASSUME ProviderTypeOK, ServicesCounted, UNCHANGED serviceVars
    PROVE  ServiceTypeOK' /\ ServicesCounted'
BY DEF ProviderTypeOK, ServicesCounted, serviceVars, ServiceTypeOK, ServicesOf

\* The flag keeps its type.
LEMMA ConfirmBoundsFacts ==
    ASSUME ProviderTypeOK, NEW sp \in ServiceProviders, ConfirmBounds(sp)
    PROVE  validBounds' \in [ServiceProviders -> BOOLEAN]
BY DEF ConfirmBounds, ProviderTypeOK

-----------------------------------------------------------------------------
(* Operations.  Each keeps the types, and moves direct stake and custody   *)
(* with the stake in Staking.                                              *)

\* Stake that sp adds is direct stake of sp.
LEMMA DirectStakeAdded ==
    ASSUME StakingTypeOK, ProviderTypeOK, UNCHANGED now,
           NEW sp \in ServiceProviders, NEW amount \in Nat,
           \/ amount = 0 /\ UNCHANGED stakingVars
           \/ StakeFor(sp, sp, amount),
           deployerStake' = [deployerStake EXCEPT ![sp] = @ + amount]
    PROVE  StakingTypeOK' /\ DirectStakeMoves /\ CustodyMoves
<1>1. CASE StakeFor(sp, sp, amount)
  <2>1. /\ StakingTypeOK'
        /\ StakeBecomes(sp, TotalStakedFor(sp) + amount, TotalStaked + amount)
        /\ vault' = vault + amount
    BY <1>1, StakeForFacts DEF Accounts
  <2>2. CustodyMoves
    BY <2>1, StakeNat DEF StakeBecomes, CustodyMoves, StakingTypeOK
  <2>3. DirectStakeMoves
    BY <2>1, StakeNat DEF StakeBecomes, DirectStakeMoves, ProviderTypeOK
  <2>4. QED
    BY <2>1, <2>2, <2>3
<1>2. CASE amount = 0 /\ UNCHANGED stakingVars
  <2>1. StakingTypeOK'
    BY <1>2 DEF StakingTypeOK, stakingVars
  <2>2. CustodyMoves
    BY <1>2 DEF stakingVars, CustodyMoves, TotalStaked, TotalStakedAt
  <2>3. deployerStake' = deployerStake
    BY <1>2 DEF ProviderTypeOK
  <2>4. DirectStakeMoves
    BY <1>2, <2>3 DEF stakingVars, DirectStakeMoves, TotalStakedFor, TotalStakedForAt
  <2>5. QED
    BY <2>1, <2>2, <2>4
<1>3. QED
  BY <1>1, <1>2

\* register.
LEMMA RegisterFacts ==
    ASSUME StakingTypeOK, ProviderTypeOK, ServicesCounted, UNCHANGED now,
           NEW s \in Service, NEW amount \in Nat, Register(s, amount)
    PROVE  /\ StakingTypeOK' /\ ProviderTypeOK' /\ ServicesCounted'
           /\ DirectStakeMoves /\ CustodyMoves
<1>1. s.owner \in ServiceProviders
  BY DEF Service
<1>2. ServiceTypeOK' /\ ServicesCounted'
  BY AddServiceFacts DEF Register
<1>3. StakingTypeOK' /\ DirectStakeMoves /\ CustodyMoves
  BY <1>1, DirectStakeAdded DEF Register
<1>4. validBounds' \in [ServiceProviders -> BOOLEAN]
  BY <1>1, ConfirmBoundsFacts DEF Register
<1>5. deployerStake' \in [ServiceProviders -> Nat]
  BY <1>1 DEF Register, ProviderTypeOK
<1>6. ProviderTypeOK'
  BY <1>2, <1>4, <1>5 DEF Register, ProviderTypeOK, ServiceTypeOK, cutVars
<1>7. QED
  BY <1>2, <1>3, <1>6

\* deregister of one of several services.
LEMMA DeregisterOneFacts ==
    ASSUME StakingTypeOK, ProviderTypeOK, ServicesCounted, UNCHANGED now,
           NEW s \in Service, DeregisterOne(s)
    PROVE  /\ StakingTypeOK' /\ ProviderTypeOK' /\ ServicesCounted'
           /\ DirectStakeMoves /\ CustodyMoves
<1>1. s.owner \in ServiceProviders
  BY DEF Service
<1>2. ServiceTypeOK' /\ ServicesCounted'
  BY RemoveServiceFacts DEF DeregisterOne
<1>3. StakingTypeOK' /\ DirectStakeMoves /\ CustodyMoves
  BY DEF DeregisterOne, stakingVars, StakingTypeOK, DirectStakeMoves, CustodyMoves,
         TotalStaked, TotalStakedAt, TotalStakedFor, TotalStakedForAt
<1>4. ProviderTypeOK'
  BY <1>1, <1>2 DEF DeregisterOne, ConfirmBounds, ProviderTypeOK, ServiceTypeOK, cutVars
<1>5. QED
  BY <1>2, <1>3, <1>4

\* deregister of the last service.
LEMMA DeregisterLastFacts ==
    ASSUME StakingTypeOK, ProviderTypeOK, ServicesCounted, UNCHANGED now,
           NEW s \in Service, DeregisterLast(s)
    PROVE  /\ StakingTypeOK' /\ ProviderTypeOK' /\ ServicesCounted'
           /\ DirectStakeMoves /\ CustodyMoves
<1>1. s.owner \in ServiceProviders
  BY DEF Service
<1>2. ServiceTypeOK' /\ ServicesCounted'
  BY RemoveServiceFacts DEF DeregisterLast
<1>3. StakingTypeOK' /\ DirectStakeMoves /\ CustodyMoves
  BY DEF DeregisterLast, stakingVars, StakingTypeOK, DirectStakeMoves, CustodyMoves,
         TotalStaked, TotalStakedAt, TotalStakedFor, TotalStakedForAt
<1>4. now + DecreaseStakeLockup \in Nat
  BY ProviderAssumption DEF StakingTypeOK
<1>5. ProviderTypeOK'
  BY <1>1, <1>2, <1>4 DEF DeregisterLast, ProviderTypeOK, ServiceTypeOK, cutVars
<1>6. QED
  BY <1>2, <1>3, <1>5

\* increaseStake.
LEMMA IncreaseStakeFacts ==
    ASSUME StakingTypeOK, ProviderTypeOK, ServicesCounted, UNCHANGED now,
           NEW sp \in ServiceProviders, NEW amount \in Nat, IncreaseStake(sp, amount)
    PROVE  /\ StakingTypeOK' /\ ProviderTypeOK' /\ ServicesCounted'
           /\ DirectStakeMoves /\ CustodyMoves
<1>1. ServiceTypeOK' /\ ServicesCounted'
  BY SameServicesFacts DEF IncreaseStake
<1>2. StakingTypeOK' /\ DirectStakeMoves /\ CustodyMoves
  BY DirectStakeAdded DEF IncreaseStake
<1>3. validBounds' \in [ServiceProviders -> BOOLEAN]
  BY ConfirmBoundsFacts DEF IncreaseStake
<1>4. deployerStake' \in [ServiceProviders -> Nat]
  BY DEF IncreaseStake, ProviderTypeOK
<1>5. ProviderTypeOK'
  BY <1>1, <1>3, <1>4 DEF IncreaseStake, ProviderTypeOK, ServiceTypeOK, cutVars
<1>6. QED
  BY <1>1, <1>2, <1>5

\* decreaseStake.
LEMMA DecreaseStakeFacts ==
    ASSUME StakingTypeOK, ProviderTypeOK, ServicesCounted, UNCHANGED now,
           NEW sp \in ServiceProviders, DecreaseStake(sp)
    PROVE  /\ StakingTypeOK' /\ ProviderTypeOK' /\ ServicesCounted'
           /\ DirectStakeMoves /\ CustodyMoves
<1> DEFINE amount == decreaseRequest[sp].amount
<1>1. amount \in Nat /\ amount <= deployerStake[sp]
  BY DEF DecreaseStake, ProviderTypeOK
<1>2. ServiceTypeOK' /\ ServicesCounted'
  BY SameServicesFacts DEF DecreaseStake
<1>3. UnstakeFor(sp, sp, amount)
  BY DEF DecreaseStake
<1>4. /\ StakingTypeOK'
      /\ StakeBecomes(sp, TotalStakedFor(sp) - amount, TotalStaked - amount)
      /\ vault' = vault - amount
  BY <1>1, <1>3, UnstakeForFacts DEF Accounts
<1>5. deployerStake' = [deployerStake EXCEPT ![sp] = @ - amount]
  BY DEF DecreaseStake
<1> HIDE DEF amount
<1>6. CustodyMoves
  BY <1>1, <1>4, StakeNat DEF StakeBecomes, CustodyMoves, StakingTypeOK
<1>7. DirectStakeMoves
  BY <1>1, <1>4, <1>5, StakeNat DEF StakeBecomes, DirectStakeMoves, ProviderTypeOK
<1>8. validBounds' \in [ServiceProviders -> BOOLEAN]
  BY ConfirmBoundsFacts DEF DecreaseStake
<1>9. deployerStake' \in [ServiceProviders -> Nat]
  BY <1>1, <1>5 DEF ProviderTypeOK
<1>10. decreaseRequest' \in [ServiceProviders -> [amount : Nat, expiry : Nat]]
  BY DEF DecreaseStake, ProviderTypeOK, NoDecrease
<1>11. ProviderTypeOK'
  BY <1>2, <1>8, <1>9, <1>10 DEF DecreaseStake, ProviderTypeOK, ServiceTypeOK, cutVars
<1>12. QED
  BY <1>2, <1>4, <1>6, <1>7, <1>11

\* Requests and cuts: requestDecreaseStake to updateDeployerCut.
LEMMA ProviderRequestFacts ==
    ASSUME StakingTypeOK, ProviderTypeOK, ServicesCounted, UNCHANGED now,
           NEW sp \in ServiceProviders,
           \/ \E amount \in Nat : RequestDecreaseStake(sp, amount)
           \/ CancelDecreaseStakeRequest(sp)
           \/ \E cut \in Nat : RequestUpdateDeployerCut(sp, cut)
           \/ CancelUpdateDeployerCut(sp)
           \/ UpdateDeployerCut(sp)
    PROVE  ProviderTypeOK' /\ ServicesCounted' /\ UNCHANGED deployerStake
<1>1. /\ now + DecreaseStakeLockup \in Nat
      /\ now + DeployerCutLockup \in Nat
      /\ DeployerCutBase \in Nat
  BY ProviderAssumption DEF StakingTypeOK
<1>2. CASE \E amount \in Nat : RequestDecreaseStake(sp, amount)
  <2>1. PICK amount \in Nat : RequestDecreaseStake(sp, amount)
    BY <1>2
  <2>2. ServiceTypeOK' /\ ServicesCounted'
    BY <2>1, SameServicesFacts DEF RequestDecreaseStake
  <2>3. decreaseRequest' \in [ServiceProviders -> [amount : Nat, expiry : Nat]]
    BY <1>1, <2>1 DEF RequestDecreaseStake, ProviderTypeOK
  <2>4. QED
    BY <2>1, <2>2, <2>3 DEF RequestDecreaseStake, ProviderTypeOK, ServiceTypeOK, cutVars
<1>3. CASE CancelDecreaseStakeRequest(sp)
  <2>1. ServiceTypeOK' /\ ServicesCounted'
    BY <1>3, SameServicesFacts DEF CancelDecreaseStakeRequest
  <2>2. QED
    BY <1>3, <2>1 DEF CancelDecreaseStakeRequest, ProviderTypeOK, ServiceTypeOK,
                      NoDecrease, cutVars
<1>4. CASE \E cut \in Nat : RequestUpdateDeployerCut(sp, cut)
  <2>1. PICK cut \in Nat : RequestUpdateDeployerCut(sp, cut)
    BY <1>4
  <2>2. ServiceTypeOK' /\ ServicesCounted'
    BY <2>1, SameServicesFacts DEF RequestUpdateDeployerCut
  <2>3. CutTypeOK'
    BY <1>1, <2>1 DEF RequestUpdateDeployerCut, ProviderTypeOK, CutTypeOK
  <2>4. QED
    BY <2>1, <2>2, <2>3 DEF RequestUpdateDeployerCut, ProviderTypeOK, ServiceTypeOK,
                            CutTypeOK
<1>5. CASE CancelUpdateDeployerCut(sp)
  <2>1. ServiceTypeOK' /\ ServicesCounted'
    BY <1>5, SameServicesFacts DEF CancelUpdateDeployerCut
  <2>2. CutTypeOK'
    BY <1>1, <1>5 DEF CancelUpdateDeployerCut, ProviderTypeOK, CutTypeOK, NoCut
  <2>3. QED
    BY <1>5, <2>1, <2>2 DEF CancelUpdateDeployerCut, ProviderTypeOK, ServiceTypeOK,
                            CutTypeOK
<1>6. CASE UpdateDeployerCut(sp)
  <2>1. ServiceTypeOK' /\ ServicesCounted'
    BY <1>6, SameServicesFacts DEF UpdateDeployerCut
  <2>2. CutTypeOK'
    BY <1>1, <1>6 DEF UpdateDeployerCut, ProviderTypeOK, CutTypeOK, NoCut
  <2>3. QED
    BY <1>6, <2>1, <2>2 DEF UpdateDeployerCut, ProviderTypeOK, ServiceTypeOK, CutTypeOK
<1>7. QED
  BY <1>2, <1>3, <1>4, <1>5, <1>6

\* updateServiceProviderStake, for the DelegateManager.
LEMMA UpdateServiceProviderStakeFacts ==
    ASSUME ProviderTypeOK, ServicesCounted, NEW sp \in ServiceProviders,
           NEW stake \in Nat, UpdateServiceProviderStake(sp, stake),
           decreaseRequest' \in [ServiceProviders -> [amount : Nat, expiry : Nat]]
    PROVE  /\ ProviderTypeOK' /\ ServicesCounted'
           /\ \A p \in ServiceProviders :
                 deployerStake'[p] = IF p = sp THEN stake ELSE deployerStake[p]
<1>1. ServiceTypeOK' /\ ServicesCounted'
  BY SameServicesFacts DEF UpdateServiceProviderStake
<1>2. TotalWithinBounds(sp)' \in BOOLEAN
  BY DEF TotalWithinBounds
<1>3. validBounds' \in [ServiceProviders -> BOOLEAN]
  BY <1>2 DEF UpdateServiceProviderStake, ProviderTypeOK
<1>4. QED
  BY <1>1, <1>3 DEF UpdateServiceProviderStake, ProviderTypeOK, ServiceTypeOK, cutVars

-----------------------------------------------------------------------------
(* The DelegateManager.                                                    *)

\* Direct stake and delegations of a provider move with its stake in Staking.
StakeMoves ==
    \A sp \in ServiceProviders :
        TotalStakedFor(sp)' - deployerStake'[sp] - totalDelegatedStake'[sp]
          = TotalStakedFor(sp) - deployerStake[sp] - totalDelegatedStake[sp]

\* The four contracts after an operation on the state the lemmas assume.
ContractsOK ==
    StakingTypeOK /\ ProviderTypeOK /\ ServicesCounted /\ DelegateTypeOK

-----------------------------------------------------------------------------
(* Delegations.                                                            *)

\* Parts of DelegateTypeOK.
DelegationTypeOK ==
    /\ delegateInfo \in [Delegators -> [ServiceProviders -> Nat]]
    /\ delegatorTotalStake \in [Delegators -> Nat]
    /\ totalDelegatedStake \in [ServiceProviders -> Nat]

LockTypeOK ==
    /\ totalLockedUpStake \in [ServiceProviders -> Nat]
    /\ undelegateRequest \in [Delegators ->
           [sp : ServiceProviders \cup {NoProvider}, amount : Nat, expiry : Nat]]

\* A delegation that grows.
LEMMA AddDelegationFacts ==
    ASSUME DelegateTypeOK, NEW d \in Delegators, NEW sp \in ServiceProviders,
           NEW amount \in Nat, AddDelegation(d, sp, amount)
    PROVE  DelegationTypeOK'
BY DEF DelegateTypeOK, DelegationTypeOK, AddDelegation

\* A delegation that shrinks is bounded by the totals it is part of.
LEMMA SubtractDelegationFacts ==
    ASSUME DelegateTypeOK, NEW d \in Delegators, NEW sp \in ServiceProviders,
           NEW amount \in Nat, SubtractDelegation(d, sp, amount)
    PROVE  DelegationTypeOK'
BY DEF DelegateTypeOK, DelegationTypeOK, SubtractDelegation

\* A dropped request was for a provider: its lock is released there.
LEMMA DropRequestFacts ==
    ASSUME DelegateTypeOK, NEW d \in Delegators, UndelegateIsPending(d),
           DropUndelegateRequest(d)
    PROVE  LockTypeOK'
<1>1. undelegateRequest[d].sp \in ServiceProviders
  BY DEF UndelegateIsPending, DelegateTypeOK
<1>2. totalLockedUpStake' \in [ServiceProviders -> Nat]
  BY <1>1 DEF DropUndelegateRequest, DelegateTypeOK
<1>3. NoUndelegate \in [sp : ServiceProviders \cup {NoProvider}, amount : Nat, expiry : Nat]
  BY DEF NoUndelegate
<1>4. undelegateRequest' = [undelegateRequest EXCEPT ![d] = NoUndelegate]
  BY DEF DropUndelegateRequest
<1>5. QED
  BY <1>2, <1>3, <1>4 DEF LockTypeOK, DelegateTypeOK

\* delegateStake.
LEMMA DelegateStakeFacts ==
    ASSUME ContractsOK, UNCHANGED now, NEW d \in Delegators,
           NEW sp \in ServiceProviders, NEW amount \in Nat, DelegateStake(d, sp, amount)
    PROVE  ContractsOK' /\ StakeMoves /\ CustodyMoves
<1>1. /\ StakingTypeOK'
      /\ StakeBecomes(sp, TotalStakedFor(sp) + amount, TotalStaked + amount)
      /\ vault' = vault + amount
  BY StakeForFacts DEF ContractsOK, DelegateStake, Accounts
<1>2. ProviderTypeOK' /\ ServicesCounted' /\ UNCHANGED deployerStake
  BY DEF ContractsOK, DelegateStake, ProviderTypeOK, ServicesCounted, ServicesOf, providerVars
<1>3. DelegationTypeOK'
  BY AddDelegationFacts DEF ContractsOK, DelegateStake
<1>4. DelegateTypeOK'
  BY <1>3 DEF ContractsOK, DelegateStake, DelegateTypeOK, DelegationTypeOK
<1>5. CustodyMoves
  BY <1>1, StakeNat DEF ContractsOK, StakeBecomes, CustodyMoves, StakingTypeOK
<1>6. totalDelegatedStake' = [totalDelegatedStake EXCEPT ![sp] = @ + amount]
  BY DEF DelegateStake, AddDelegation
<1>7. StakeMoves
  BY <1>1, <1>2, <1>6, StakeNat
     DEF ContractsOK, StakeBecomes, StakeMoves, ProviderTypeOK, DelegateTypeOK
<1>8. QED
  BY <1>1, <1>2, <1>4, <1>5, <1>7 DEF ContractsOK

\* undelegateStake.
LEMMA UndelegateStakeFacts ==
    ASSUME ContractsOK, UNCHANGED now, NEW d \in Delegators,
           NEW sp \in ServiceProviders, UndelegateStake(d, sp)
    PROVE  ContractsOK' /\ StakeMoves /\ CustodyMoves
<1> DEFINE amount == undelegateRequest[d].amount
<1>1. amount \in Nat
  BY DEF ContractsOK, DelegateTypeOK
<1>2. /\ UnstakeFor(sp, d, amount)
      /\ SubtractDelegation(d, sp, amount)
      /\ UndelegateIsPending(d)
      /\ DropUndelegateRequest(d)
      /\ UpdateServiceProviderStake(sp, deployerStake[sp])
      /\ delegators' = DelegatorsAfter(d, sp, delegateInfo[d][sp] - amount)
      /\ UNCHANGED <<decreaseRequest, removeRequest, spMinDelegationAmount>>
  BY DEF UndelegateStake
<1> HIDE DEF amount
<1>3. /\ StakingTypeOK'
      /\ StakeBecomes(sp, TotalStakedFor(sp) - amount, TotalStaked - amount)
      /\ vault' = vault - amount
  BY <1>1, <1>2, UnstakeForFacts DEF ContractsOK, Accounts
<1>4. deployerStake[sp] \in Nat
  BY DEF ContractsOK, ProviderTypeOK
<1>5. decreaseRequest' \in [ServiceProviders -> [amount : Nat, expiry : Nat]]
  BY <1>2 DEF ContractsOK, ProviderTypeOK
<1>6. /\ ProviderTypeOK' /\ ServicesCounted'
      /\ \A p \in ServiceProviders : deployerStake'[p] = deployerStake[p]
  BY <1>2, <1>4, <1>5, UpdateServiceProviderStakeFacts DEF ContractsOK
<1>7. DelegationTypeOK' /\ LockTypeOK'
  BY <1>1, <1>2, SubtractDelegationFacts, DropRequestFacts DEF ContractsOK
<1>8. delegators' \in [ServiceProviders -> SUBSET Delegators]
  BY <1>2 DEF ContractsOK, DelegateTypeOK, DelegatorsAfter
<1>9. DelegateTypeOK'
  BY <1>2, <1>7, <1>8 DEF ContractsOK, DelegateTypeOK, DelegationTypeOK, LockTypeOK
<1>10. CustodyMoves
  BY <1>1, <1>3, StakeNat DEF ContractsOK, StakeBecomes, CustodyMoves, StakingTypeOK
<1>11. totalDelegatedStake' = [totalDelegatedStake EXCEPT ![sp] = @ - amount]
  BY <1>2 DEF SubtractDelegation
<1>12. StakeMoves
  BY <1>1, <1>3, <1>6, <1>11, StakeNat
     DEF ContractsOK, StakeBecomes, StakeMoves, ProviderTypeOK, DelegateTypeOK
<1>13. QED
  BY <1>3, <1>6, <1>9, <1>10, <1>12 DEF ContractsOK

\* removeDelegator.
LEMMA RemoveDelegatorFacts ==
    ASSUME ContractsOK, UNCHANGED <<now, providerVars>>, NEW d \in Delegators,
           NEW sp \in ServiceProviders, RemoveDelegator(sp, d)
    PROVE  ContractsOK' /\ StakeMoves /\ CustodyMoves
<1> DEFINE amount == delegateInfo[d][sp]
<1>1. amount \in Nat
  BY DEF ContractsOK, DelegateTypeOK
<1>2. /\ UnstakeFor(sp, d, amount)
      /\ SubtractDelegation(d, sp, amount)
      /\ DropRequestOnRemoval(sp, d)
      /\ delegators' = [delegators EXCEPT ![sp] = @ \ {d}]
      /\ removeRequest' = [removeRequest EXCEPT ![sp][d] = 0]
      /\ UNCHANGED spMinDelegationAmount
  BY DEF RemoveDelegator
<1> HIDE DEF amount
<1>3. /\ StakingTypeOK'
      /\ StakeBecomes(sp, TotalStakedFor(sp) - amount, TotalStaked - amount)
      /\ vault' = vault - amount
  BY <1>1, <1>2, UnstakeForFacts DEF ContractsOK, Accounts
<1>4. ProviderTypeOK' /\ ServicesCounted' /\ UNCHANGED deployerStake
  BY DEF ContractsOK, ProviderTypeOK, ServicesCounted, ServicesOf, providerVars
<1>5. DelegationTypeOK'
  BY <1>1, <1>2, SubtractDelegationFacts DEF ContractsOK
<1>6. LockTypeOK'
  BY <1>2, DropRequestFacts DEF ContractsOK, DropRequestOnRemoval, DelegateTypeOK, LockTypeOK
<1>7. DelegateTypeOK'
  BY <1>2, <1>5, <1>6 DEF ContractsOK, DelegateTypeOK, DelegationTypeOK, LockTypeOK
<1>8. CustodyMoves
  BY <1>1, <1>3, StakeNat DEF ContractsOK, StakeBecomes, CustodyMoves, StakingTypeOK
<1>9. totalDelegatedStake' = [totalDelegatedStake EXCEPT ![sp] = @ - amount]
  BY <1>2 DEF SubtractDelegation
<1>10. StakeMoves
  BY <1>1, <1>3, <1>4, <1>9, StakeNat
     DEF ContractsOK, StakeBecomes, StakeMoves, ProviderTypeOK, DelegateTypeOK
<1>11. QED
  BY <1>3, <1>4, <1>7, <1>8, <1>10 DEF ContractsOK

\* Requests to undelegate and to remove, and the minimum of a provider.
LEMMA DelegateRequestFacts ==
    ASSUME ContractsOK, UNCHANGED <<now, stakingVars, providerVars>>,
           \/ \E d \in Delegators, sp \in ServiceProviders, amount \in Nat :
                 RequestUndelegateStake(d, sp, amount)
           \/ \E d \in Delegators : CancelUndelegateStakeRequest(d)
           \/ \E d \in Delegators, sp \in ServiceProviders :
                 RequestRemoveDelegator(sp, d) \/ CancelRemoveDelegatorRequest(sp, d)
           \/ \E sp \in ServiceProviders, amount \in Nat :
                 UpdateSPMinDelegationAmount(sp, amount)
    PROVE  DelegateTypeOK' /\ UNCHANGED totalDelegatedStake
<1>1. CASE \E d \in Delegators, sp \in ServiceProviders, amount \in Nat :
              RequestUndelegateStake(d, sp, amount)
  <2>1. PICK d \in Delegators, sp \in ServiceProviders, amount \in Nat :
                RequestUndelegateStake(d, sp, amount)
    BY <1>1
  <2>2. now + UndelegateLockup \in Nat
    BY DelegateAssumption DEF ContractsOK, StakingTypeOK
  <2>3. [sp |-> sp, amount |-> amount, expiry |-> now + UndelegateLockup]
            \in [sp : ServiceProviders \cup {NoProvider}, amount : Nat, expiry : Nat]
    BY <2>2
  <2>4. undelegateRequest' \in [Delegators ->
            [sp : ServiceProviders \cup {NoProvider}, amount : Nat, expiry : Nat]]
    BY <2>1, <2>3 DEF ContractsOK, RequestUndelegateStake, DelegateTypeOK
  <2>5. totalLockedUpStake' \in [ServiceProviders -> Nat]
    BY <2>1 DEF ContractsOK, RequestUndelegateStake, DelegateTypeOK
  <2>6. QED
    BY <2>1, <2>4, <2>5 DEF ContractsOK, RequestUndelegateStake, DelegateTypeOK
<1>2. CASE \E d \in Delegators : CancelUndelegateStakeRequest(d)
  <2>1. PICK d \in Delegators : CancelUndelegateStakeRequest(d)
    BY <1>2
  <2>2. LockTypeOK'
    BY <2>1, DropRequestFacts DEF ContractsOK, CancelUndelegateStakeRequest
  <2>3. QED
    BY <2>1, <2>2 DEF ContractsOK, CancelUndelegateStakeRequest, DelegateTypeOK, LockTypeOK
<1>3. CASE \E d \in Delegators, sp \in ServiceProviders :
              RequestRemoveDelegator(sp, d) \/ CancelRemoveDelegatorRequest(sp, d)
  <2>1. PICK d \in Delegators, sp \in ServiceProviders :
                RequestRemoveDelegator(sp, d) \/ CancelRemoveDelegatorRequest(sp, d)
    BY <1>3
  <2>2. now + RemoveDelegatorLockup \in Nat
    BY DelegateAssumption DEF ContractsOK, StakingTypeOK
  <2>3. PICK expiry \in Nat : removeRequest' = [removeRequest EXCEPT ![sp][d] = expiry]
    BY <2>1, <2>2 DEF RequestRemoveDelegator, CancelRemoveDelegatorRequest
  <2>4. removeRequest' \in [ServiceProviders -> [Delegators -> Nat]]
    BY <2>3 DEF ContractsOK, DelegateTypeOK
  <2>5. QED
    BY <2>1, <2>4
       DEF ContractsOK, RequestRemoveDelegator, CancelRemoveDelegatorRequest, DelegateTypeOK
<1>4. CASE \E sp \in ServiceProviders, amount \in Nat :
              UpdateSPMinDelegationAmount(sp, amount)
  BY <1>4 DEF ContractsOK, UpdateSPMinDelegationAmount, DelegateTypeOK
<1>5. QED
  BY <1>1, <1>2, <1>3, <1>4

-----------------------------------------------------------------------------
(* Claims.                                                                 *)

\* The reward is a natural number whenever the claim does not revert.
LEMMA RewardNat ==
    ASSUME StakingTypeOK, ClaimsTypeOK, NEW sp \in ServiceProviders,
           NEW locked \in Nat, NEW within, ClaimAllowed(sp, locked)
    PROVE  MintedReward(sp, locked, within) \in Nat
<1>1. /\ TotalStakedForAt(sp, fundedBlock) - locked \in Nat
      /\ fundingAmount \in Nat
      /\ TotalStakedAt(fundedBlock) \in Nat \ {0}
  BY StakeNat DEF ClaimsTypeOK, ClaimAllowed
<1>2. (TotalStakedForAt(sp, fundedBlock) - locked) * fundingAmount \in Nat
  BY <1>1, ProductNat
<1>3. RoundReward(sp, locked) \in Nat
  BY <1>1, <1>2, QuotientNat DEF RoundReward
<1>4. QED
  BY <1>3 DEF MintedReward

\* processClaim: stake, total and custody grow by the reward.
LEMMA ProcessClaimFacts ==
    ASSUME StakingTypeOK, ClaimsTypeOK, UNCHANGED now, NEW sp \in ServiceProviders,
           NEW locked \in Nat, NEW within, ProcessClaim(sp, locked, within)
    PROVE  LET reward == MintedReward(sp, locked, within)
           IN  /\ StakingTypeOK' /\ ClaimsTypeOK'
               /\ reward \in Nat
               /\ StakeBecomes(sp, TotalStakedFor(sp) + reward, TotalStaked + reward)
               /\ vault' = vault + reward
<1> DEFINE reward == MintedReward(sp, locked, within)
<1>1. reward \in Nat
  BY RewardNat DEF ProcessClaim
<1>2. /\ IF reward = 0
           THEN UpdateClaimHistory(sp) /\ UNCHANGED totalClaimedInRound
           ELSE /\ StakeRewards(sp, reward)
                /\ totalClaimedInRound' = totalClaimedInRound + reward
      /\ UNCHANGED <<fundedBlock, fundedAmount, fundingAmount>>
  BY DEF ProcessClaim
<1> HIDE DEF reward
<1>3. ClaimsTypeOK'
  BY <1>1, <1>2 DEF ClaimsTypeOK
<1>4. CASE reward = 0
  <2>1. /\ StakingTypeOK'
        /\ StakeBecomes(sp, TotalStakedFor(sp), TotalStaked)
        /\ vault' = vault
    BY <1>2, <1>4, UpdateClaimHistoryFacts
  <2>2. /\ TotalStakedFor(sp) + reward = TotalStakedFor(sp)
        /\ TotalStaked + reward = TotalStaked
        /\ vault + reward = vault
    BY <1>4, StakeNat DEF StakingTypeOK
  <2>3. QED
    BY <1>1, <1>3, <2>1, <2>2 DEF reward
<1>5. CASE reward # 0
  BY <1>1, <1>2, <1>3, <1>5, StakeRewardsFacts DEF reward
<1>6. QED
  BY <1>4, <1>5

\* What a delegator gets is an integer as soon as some stake is active.
LEMMA DelegateRewardInt ==
    ASSUME ContractsOK, NEW d \in Delegators, NEW sp \in ServiceProviders,
           NEW active \in Nat \ {0}, NEW reward \in Nat,
           LockedDelegation(d, sp) <= delegateInfo[d][sp]
    PROVE  DelegateReward(d, sp, active, reward) \in Int
<1>1. ActiveDelegation(d, sp) \in Nat
  BY DEF ContractsOK, DelegateTypeOK, ActiveDelegation, LockedDelegation
<1>2. deployerCut[sp] \in Nat /\ DeployerCutBase \in Nat \ {0}
  BY ProviderAssumption DEF ContractsOK, ProviderTypeOK
<1>3. ActiveDelegation(d, sp) * reward \in Nat
  BY <1>1, ProductNat
<1>4. (ActiveDelegation(d, sp) * reward) \div active \in Nat
  BY <1>3, QuotientNat
<1>5. ActiveDelegation(d, sp) * reward * deployerCut[sp] \in Nat
  BY <1>2, <1>3, ProductNat
<1>6. active * DeployerCutBase \in Nat \ {0}
  BY <1>2, ProductPos
<1>7. (ActiveDelegation(d, sp) * reward * deployerCut[sp])
         \div (active * DeployerCutBase) \in Nat
  BY <1>5, <1>6, QuotientNat
<1>8. QED
  BY <1>4, <1>7 DEF DelegateReward

\* Delegations only grow by a claim, those of listed delegators of sp, and the
\* direct stake and all delegations of sp grow by the reward.
LEMMA DistributeRewardsFacts ==
    ASSUME ContractsOK, NEW sp \in ServiceProviders, NEW active \in Int,
           NEW reward \in Nat, DistributeRewards(sp, active, reward),
           UNCHANGED <<decreaseRequest, totalLockedUpStake, delegators,
                       undelegateRequest, removeRequest, spMinDelegationAmount>>
    PROVE  /\ ProviderTypeOK' /\ ServicesCounted' /\ DelegateTypeOK'
           /\ \A d \in Delegators, p \in ServiceProviders :
                 /\ delegateInfo'[d][p] >= delegateInfo[d][p]
                 /\ d \notin delegators[p] => delegateInfo'[d][p] = delegateInfo[d][p]
           /\ \A p \in ServiceProviders :
                 deployerStake'[p] + totalDelegatedStake'[p] =
                     deployerStake[p] + totalDelegatedStake[p]
                     + (IF p = sp THEN reward ELSE 0)
<1> DEFINE gain     == DelegateRewards(sp, active, reward)
           increase == Total(gain, delegators[sp])
<1>1. /\ \A d \in delegators[sp] :
            /\ active > 0
            /\ LockedDelegation(d, sp) <= delegateInfo[d][sp]
            /\ gain[d] >= 0
      /\ increase \in 0..reward
      /\ delegateInfo' =
            [d \in Delegators |-> [delegateInfo[d] EXCEPT ![sp] = @ + gain[d]]]
      /\ delegatorTotalStake' = [d \in Delegators |-> delegatorTotalStake[d] + gain[d]]
      /\ totalDelegatedStake' = [totalDelegatedStake EXCEPT ![sp] = @ + increase]
      /\ UpdateServiceProviderStake(sp, deployerStake[sp] + (reward - increase))
  BY DEF DistributeRewards
<1>2. ASSUME NEW d \in Delegators
      PROVE  gain[d] \in Nat /\ (d \notin delegators[sp] => gain[d] = 0)
  <2>1. CASE d \in delegators[sp]
    <3>1. gain[d] = DelegateReward(d, sp, active, reward)
      BY <2>1 DEF DelegateRewards
    <3>2. active \in Nat \ {0} /\ LockedDelegation(d, sp) <= delegateInfo[d][sp]
      BY <1>1, <2>1
    <3>3. gain[d] \in Int
      BY <3>1, <3>2, DelegateRewardInt
    <3>4. gain[d] >= 0
      BY <1>1, <2>1
    <3>5. QED
      BY <2>1, <3>3, <3>4
  <2>2. CASE d \notin delegators[sp]
    BY <2>2 DEF DelegateRewards
  <2>3. QED
    BY <2>1, <2>2
<1> HIDE DEF gain, increase
<1>3. DelegationTypeOK'
  BY <1>1, <1>2 DEF ContractsOK, DelegateTypeOK, DelegationTypeOK
<1>4. DelegateTypeOK'
  BY <1>3 DEF ContractsOK, DelegateTypeOK, DelegationTypeOK
<1>5. /\ deployerStake[sp] + (reward - increase) \in Nat
      /\ decreaseRequest' \in [ServiceProviders -> [amount : Nat, expiry : Nat]]
  BY <1>1 DEF ContractsOK, ProviderTypeOK
<1>6. /\ ProviderTypeOK' /\ ServicesCounted'
      /\ \A p \in ServiceProviders :
            deployerStake'[p] =
               IF p = sp THEN deployerStake[sp] + (reward - increase) ELSE deployerStake[p]
  BY <1>1, <1>5, UpdateServiceProviderStakeFacts DEF ContractsOK
<1>7. ASSUME NEW d \in Delegators, NEW p \in ServiceProviders
      PROVE  /\ delegateInfo'[d][p] >= delegateInfo[d][p]
             /\ d \notin delegators[p] => delegateInfo'[d][p] = delegateInfo[d][p]
  BY <1>1, <1>2 DEF ContractsOK, DelegateTypeOK
<1>8. ASSUME NEW p \in ServiceProviders
      PROVE  deployerStake'[p] + totalDelegatedStake'[p] =
                 deployerStake[p] + totalDelegatedStake[p]
                 + (IF p = sp THEN reward ELSE 0)
  BY <1>1, <1>6 DEF ContractsOK, ProviderTypeOK, DelegateTypeOK
<1>9. QED
  BY <1>4, <1>6, <1>7, <1>8

\* claimRewards.
LEMMA ClaimRewardsFacts ==
    ASSUME ContractsOK, ClaimsTypeOK, UNCHANGED now, NEW sp \in ServiceProviders,
           ClaimRewards(sp)
    PROVE  /\ ContractsOK' /\ ClaimsTypeOK' /\ StakeMoves /\ CustodyMoves
           /\ \A d \in Delegators, p \in ServiceProviders :
                 /\ delegateInfo'[d][p] >= delegateInfo[d][p]
                 /\ d \notin delegators[p] => delegateInfo'[d][p] = delegateInfo[d][p]
<1> DEFINE locked  == LockedStake(sp)
           outside == StakeOutsideStaking(sp)
           reward  == MintedReward(sp, locked, validBounds[sp])
<1>1. locked \in Nat /\ outside \in Nat
  BY DEF ContractsOK, DelegateTypeOK, ProviderTypeOK, LockedStake, StakeOutsideStaking
<1>2. ProcessClaim(sp, locked, validBounds[sp])
  BY DEF ClaimRewards
<1>3. /\ StakingTypeOK' /\ ClaimsTypeOK'
      /\ reward \in Nat
      /\ StakeBecomes(sp, TotalStakedFor(sp) + reward, TotalStaked + reward)
      /\ vault' = vault + reward
  BY <1>1, <1>2, ProcessClaimFacts DEF ContractsOK
<1>4. /\ IF reward = 0
           THEN /\ UNCHANGED <<delegateInfo, delegatorTotalStake, totalDelegatedStake>>
                /\ UNCHANGED <<deployerStake, validBounds, serviceVars, cutVars>>
           ELSE DistributeRewards(sp, outside - locked, reward)
      /\ UNCHANGED <<decreaseRequest, totalLockedUpStake, delegators,
                     undelegateRequest, removeRequest, spMinDelegationAmount>>
  BY DEF ClaimRewards
<1> HIDE DEF locked, outside, reward
<1>5. CustodyMoves
  BY <1>3, StakeNat DEF ContractsOK, StakeBecomes, CustodyMoves, StakingTypeOK
<1>6. /\ ProviderTypeOK' /\ ServicesCounted' /\ DelegateTypeOK'
      /\ \A d \in Delegators, p \in ServiceProviders :
            /\ delegateInfo'[d][p] >= delegateInfo[d][p]
            /\ d \notin delegators[p] => delegateInfo'[d][p] = delegateInfo[d][p]
      /\ \A p \in ServiceProviders :
            deployerStake'[p] + totalDelegatedStake'[p] =
                deployerStake[p] + totalDelegatedStake[p]
                + (IF p = sp THEN reward ELSE 0)
  <2>1. CASE reward = 0
    <3>1. UNCHANGED providerVars /\ UNCHANGED delegateVars
      BY <1>4, <2>1 DEF providerVars, delegateVars, serviceVars, cutVars
    <3>2. ProviderTypeOK' /\ ServicesCounted' /\ DelegateTypeOK'
      BY <3>1 DEF ContractsOK, ProviderTypeOK, ServicesCounted, ServicesOf, DelegateTypeOK,
                  providerVars, delegateVars
    <3>3. \A d \in Delegators, p \in ServiceProviders :
             delegateInfo'[d][p] = delegateInfo[d][p] /\ delegateInfo[d][p] \in Nat
      BY <3>1 DEF ContractsOK, DelegateTypeOK, delegateVars
    <3>4. \A p \in ServiceProviders :
             deployerStake'[p] + totalDelegatedStake'[p] =
                 deployerStake[p] + totalDelegatedStake[p]
                 + (IF p = sp THEN reward ELSE 0)
      BY <2>1, <3>1 DEF ContractsOK, ProviderTypeOK, DelegateTypeOK, providerVars, delegateVars
    <3>5. QED
      BY <3>2, <3>3, <3>4
  <2>2. CASE reward # 0
    BY <1>1, <1>3, <1>4, <2>2, DistributeRewardsFacts
  <2>3. QED
    BY <2>1, <2>2
<1>7. StakeMoves
  <2>1. /\ deployerStake \in [ServiceProviders -> Nat]
        /\ deployerStake' \in [ServiceProviders -> Nat]
        /\ totalDelegatedStake \in [ServiceProviders -> Nat]
        /\ totalDelegatedStake' \in [ServiceProviders -> Nat]
    BY <1>6 DEF ContractsOK, ProviderTypeOK, DelegateTypeOK
  <2>2. ASSUME NEW p \in ServiceProviders
        PROVE  TotalStakedFor(p)' - deployerStake'[p] - totalDelegatedStake'[p]
                 = TotalStakedFor(p) - deployerStake[p] - totalDelegatedStake[p]
    <3>1. TotalStakedFor(p)' = TotalStakedFor(p) + (IF p = sp THEN reward ELSE 0)
      BY <1>3, StakeNat DEF ContractsOK, StakeBecomes
    <3>2. deployerStake'[p] + totalDelegatedStake'[p] =
             deployerStake[p] + totalDelegatedStake[p] + (IF p = sp THEN reward ELSE 0)
      BY <1>6
    <3>3. /\ TotalStakedFor(p) \in Nat
          /\ deployerStake[p] \in Nat /\ deployerStake'[p] \in Nat
          /\ totalDelegatedStake[p] \in Nat /\ totalDelegatedStake'[p] \in Nat
      BY <2>1, StakeNat DEF ContractsOK
    <3>4. QED
      BY <1>3, <3>1, <3>2, <3>3
  <2>3. QED
    BY <2>2 DEF StakeMoves
<1>8. QED
  BY <1>3, <1>5, <1>6, <1>7 DEF ContractsOK

-----------------------------------------------------------------------------
(* Slash.                                                                  *)

\* A slash takes from a delegation at most all of it, and nothing from those
\* that are not listed.
LEMMA DelegationLossFacts ==
    ASSUME ContractsOK, NEW sp \in ServiceProviders, NEW amount \in Nat,
           amount > 0, amount <= TotalStakedFor(sp), NEW d \in Delegators
    PROVE  LET loss == DelegationLosses(sp, amount)
           IN  /\ loss[d] \in Int
               /\ delegateInfo[d][sp] - loss[d] \in Nat
               /\ d \notin delegators[sp] => loss[d] = 0
<1> DEFINE before == TotalStakedFor(sp)
           left   == ((before - amount) * delegateInfo[d][sp]) \div before
<1>1. /\ before \in Nat \ {0}
      /\ before - amount \in Nat
      /\ delegateInfo[d][sp] \in Nat
  BY StakeNat DEF ContractsOK, DelegateTypeOK
<1>2. (before - amount) * delegateInfo[d][sp] \in Nat
  BY <1>1, ProductNat
<1>3. left \in Nat
  BY <1>1, <1>2, QuotientNat
<1>4. DelegationLosses(sp, amount)[d] =
         IF d \in delegators[sp] THEN delegateInfo[d][sp] - left ELSE 0
  BY DEF DelegationLosses, DelegationLoss
<1>5. QED
  BY <1>1, <1>3, <1>4

\* slash.
LEMMA SlashFacts ==
    ASSUME ContractsOK, UNCHANGED now, NEW sp \in ServiceProviders,
           NEW amount \in Nat, Slash(sp, amount)
    PROVE  /\ ContractsOK' /\ StakeMoves /\ CustodyMoves
           /\ \A d \in Delegators, p \in ServiceProviders :
                 p # sp \/ d \notin delegators[p] => delegateInfo'[d][p] = delegateInfo[d][p]
<1> DEFINE loss     == DelegationLosses(sp, amount)
           decrease == Total(loss, delegators[sp])
           stake    == deployerStake[sp] - (amount - decrease)
<1>1. /\ decreaseRequest' =
            [decreaseRequest EXCEPT ![sp] = IF @.amount > 0 THEN NoDecrease ELSE @]
      /\ BurnFor(sp, amount)
      /\ SlashDelegations(sp, loss)
      /\ totalDelegatedStake' = [totalDelegatedStake EXCEPT ![sp] = @ - decrease]
      /\ UpdateServiceProviderStake(sp, stake)
      /\ UNCHANGED <<delegators, removeRequest, spMinDelegationAmount>>
  BY DEF Slash
<1>2. /\ decrease \in 0..totalDelegatedStake[sp]
      /\ decrease <= amount
      /\ amount - decrease <= deployerStake[sp]
      /\ \A d \in delegators[sp] : loss[d] <= delegatorTotalStake[d]
      /\ \A s \in ServiceProviders : ReleasedBySlash(sp, s) \in 0..totalLockedUpStake[s]
  BY DEF Slash, SlashAllowed
<1>3. /\ StakingTypeOK'
      /\ amount > 0 /\ amount <= TotalStakedFor(sp)
      /\ StakeBecomes(sp, TotalStakedFor(sp) - amount, TotalStaked - amount)
      /\ vault' = vault - amount
  BY <1>1, BurnForFacts DEF ContractsOK, BurnFor
<1>4. \A d \in Delegators :
         /\ loss[d] \in Int
         /\ delegateInfo[d][sp] - loss[d] \in Nat
         /\ d \notin delegators[sp] => loss[d] = 0
  BY <1>3, DelegationLossFacts
<1> HIDE DEF loss, decrease
<1>5. /\ delegateInfo' =
            [d \in Delegators |-> [delegateInfo[d] EXCEPT ![sp] = @ - loss[d]]]
      /\ delegatorTotalStake' = [d \in Delegators |-> delegatorTotalStake[d] - loss[d]]
      /\ totalLockedUpStake' =
            [s \in ServiceProviders |-> totalLockedUpStake[s] - ReleasedBySlash(sp, s)]
      /\ undelegateRequest' =
            [d \in Delegators |->
                IF d \in DroppedRequests(sp) THEN NoUndelegate ELSE undelegateRequest[d]]
  BY <1>1 DEF SlashDelegations
<1>6. DelegateTypeOK'
  <2>1. delegateInfo' \in [Delegators -> [ServiceProviders -> Nat]]
    BY <1>4, <1>5 DEF ContractsOK, DelegateTypeOK
  <2>2. delegatorTotalStake' \in [Delegators -> Nat]
    <3>1. ASSUME NEW d \in Delegators
          PROVE  delegatorTotalStake[d] - loss[d] \in Nat
      <4>1. delegatorTotalStake[d] \in Nat /\ loss[d] \in Int
        BY <1>4 DEF ContractsOK, DelegateTypeOK
      <4>2. loss[d] <= delegatorTotalStake[d]
        BY <1>4, <1>2, <4>1
      <4>3. QED
        BY <4>1, <4>2
    <3>2. QED
      BY <1>5, <3>1
  <2>3. totalLockedUpStake' \in [ServiceProviders -> Nat]
    BY <1>5, <1>2 DEF ContractsOK, DelegateTypeOK
  <2>4. totalDelegatedStake' \in [ServiceProviders -> Nat]
    BY <1>1, <1>2 DEF ContractsOK, DelegateTypeOK
  <2>5. NoUndelegate \in
            [sp : ServiceProviders \cup {NoProvider}, amount : Nat, expiry : Nat]
    BY DEF NoUndelegate
  <2>6. undelegateRequest' \in [Delegators ->
            [sp : ServiceProviders \cup {NoProvider}, amount : Nat, expiry : Nat]]
    BY <1>5, <2>5 DEF ContractsOK, DelegateTypeOK
  <2>7. QED
    BY <1>1, <2>1, <2>2, <2>3, <2>4, <2>6 DEF ContractsOK, DelegateTypeOK
<1>7. stake \in Nat
  BY <1>2 DEF ContractsOK, ProviderTypeOK, DelegateTypeOK
<1>8. decreaseRequest' \in [ServiceProviders -> [amount : Nat, expiry : Nat]]
  BY <1>1 DEF ContractsOK, ProviderTypeOK, NoDecrease
<1>9. /\ ProviderTypeOK' /\ ServicesCounted'
      /\ \A p \in ServiceProviders :
            deployerStake'[p] = IF p = sp THEN stake ELSE deployerStake[p]
  BY <1>1, <1>7, <1>8, UpdateServiceProviderStakeFacts DEF ContractsOK
<1>10. CustodyMoves
  BY <1>3, StakeNat DEF ContractsOK, StakeBecomes, CustodyMoves, StakingTypeOK
<1>11. StakeMoves
  <2>1. /\ decrease \in Int
        /\ \A p \in ServiceProviders :
              /\ TotalStakedFor(p) \in Nat
              /\ deployerStake[p] \in Nat
              /\ totalDelegatedStake[p] \in Nat
              /\ totalDelegatedStake'[p] =
                    IF p = sp THEN totalDelegatedStake[p] - decrease ELSE totalDelegatedStake[p]
    BY <1>1, <1>2, StakeNat DEF ContractsOK, ProviderTypeOK, DelegateTypeOK
  <2>2. ASSUME NEW p \in ServiceProviders
        PROVE  TotalStakedFor(p)' - deployerStake'[p] - totalDelegatedStake'[p]
                 = TotalStakedFor(p) - deployerStake[p] - totalDelegatedStake[p]
    <3>1. TotalStakedFor(p)' = IF p = sp THEN TotalStakedFor(p) - amount ELSE TotalStakedFor(p)
      BY <1>3 DEF StakeBecomes
    <3>2. CASE p = sp
      BY <1>9, <2>1, <3>1, <3>2
    <3>3. CASE p # sp
      BY <1>9, <2>1, <3>1, <3>3
    <3>4. QED
      BY <3>2, <3>3
  <2>3. QED
    BY <2>2 DEF StakeMoves
<1>12. ASSUME NEW d \in Delegators, NEW p \in ServiceProviders,
              p # sp \/ d \notin delegators[p]
       PROVE  delegateInfo'[d][p] = delegateInfo[d][p]
  BY <1>4, <1>5, <1>12 DEF ContractsOK, DelegateTypeOK
<1>13. QED
  BY <1>3, <1>6, <1>9, <1>10, <1>11, <1>12 DEF ContractsOK

\* A request to undelegate some amount has an expiry block.
RequestTimed ==
    \A d \in Delegators :
        undelegateRequest[d].amount # 0 => undelegateRequest[d].expiry # 0

SystemOK == TypeOK /\ ServicesCounted

Inv ==
    /\ SystemOK
    /\ StakeSplit
    /\ vault = TotalStaked
    /\ DelegatorsListed
    /\ RequestTimed
    /\ RequestCovered

-----------------------------------------------------------------------------
(* The initial state.                                                      *)

\* Nothing is staked, registered or requested at the start.
LEMMA InitInv == Init => Inv
<1> SUFFICES ASSUME Init PROVE Inv
  OBVIOUS
<1> USE DEF Init, StakingInit, ClaimsInit, ProviderInit, DelegateInit
<1>1. StakingTypeOK
  BY BlockAssumption, WalletAssumption DEF StakingTypeOK, Blocks
<1>2. ClaimsTypeOK
  BY BlockAssumption, RoundAssumption DEF ClaimsTypeOK, Blocks
<1>3. ProviderTypeOK
  BY ProviderAssumption DEF ProviderTypeOK, NoDecrease, NoCut
<1>4. DelegateTypeOK
  BY DEF DelegateTypeOK, NoUndelegate
<1>5. ServicesCounted
  BY FS_EmptySet DEF ServicesCounted, ServicesOf
<1>6. StakeSplit /\ vault = TotalStaked
  BY BlockAssumption DEF StakeSplit, TotalStakedFor, TotalStakedForAt, TotalStaked,
                         TotalStakedAt, Blocks
<1>7. DelegatorsListed
  BY DEF DelegatorsListed
<1>8. RequestTimed /\ RequestCovered
  BY DEF RequestTimed, RequestCovered, LockedDelegation, NoUndelegate
<1>9. QED
  BY <1>1, <1>2, <1>3, <1>4, <1>5, <1>6, <1>7, <1>8 DEF Inv, SystemOK, TypeOK

-----------------------------------------------------------------------------
(* Types and books.                                                        *)

\* Operations that leave the stake and its books alone.
LEMMA BooksKept ==
    ASSUME UNCHANGED <<stakingVars, deployerStake, totalDelegatedStake>>
    PROVE  StakeMoves /\ CustodyMoves
BY DEF stakingVars, StakeMoves, CustodyMoves, TotalStakedFor, TotalStakedForAt,
       TotalStaked, TotalStakedAt

\* Operations of other contracts than the two that know delegations.
LEMMA DelegationsKept ==
    ASSUME DelegateTypeOK, UNCHANGED delegateVars
    PROVE  DelegateTypeOK' /\ UNCHANGED totalDelegatedStake
BY DEF DelegateTypeOK, delegateVars

\* The same for the ClaimsManager, the ServiceProviderFactory and Staking.
LEMMA ClaimsKept ==
    ASSUME ClaimsTypeOK, UNCHANGED claimsVars
    PROVE  ClaimsTypeOK'
BY DEF ClaimsTypeOK, claimsVars

\* So does the provider registry, with its endpoint counts.
LEMMA ProvidersKept ==
    ASSUME ProviderTypeOK, ServicesCounted, UNCHANGED providerVars
    PROVE  ProviderTypeOK' /\ ServicesCounted' /\ UNCHANGED deployerStake
BY DEF ProviderTypeOK, ServicesCounted, ServicesOf, providerVars

\* So does the staking contract, within a block.
LEMMA StakingKept ==
    ASSUME StakingTypeOK, UNCHANGED <<now, stakingVars>>
    PROVE  StakingTypeOK'
BY DEF StakingTypeOK, stakingVars

\* What the direct stake gains the stake gains, if no delegation moves.
LEMMA DirectMovesBooks ==
    ASSUME StakingTypeOK, ProviderTypeOK, DelegateTypeOK, StakingTypeOK', ProviderTypeOK',
           DirectStakeMoves, UNCHANGED totalDelegatedStake
    PROVE  StakeMoves
<1>1. ASSUME NEW sp \in ServiceProviders
      PROVE  TotalStakedFor(sp)' - deployerStake'[sp] - totalDelegatedStake'[sp]
               = TotalStakedFor(sp) - deployerStake[sp] - totalDelegatedStake[sp]
  BY DEF DirectStakeMoves
<1>2. QED
  BY <1>1 DEF StakeMoves

\* Every transaction keeps the types and moves the three books together.
LEMMA StepFacts ==
    ASSUME SystemOK, Next
    PROVE  SystemOK' /\ StakeMoves /\ CustodyMoves
<1> USE DEF SystemOK, TypeOK, ContractsOK, chainVars
<1>1. CASE NextBlock
  <2>1. UNCHANGED <<stakingVars, claimsVars, providerVars, delegateVars>>
    BY <1>1 DEF NextBlock
  <2>2. now' \in 1..MaxBlock
    BY <1>1, BlockAssumption DEF NextBlock, Tick, StakingTypeOK
  <2>3. StakingTypeOK'
    BY <2>1, <2>2 DEF StakingTypeOK, stakingVars
  <2>4. QED
    BY <2>1, <2>3, ClaimsKept, ProvidersKept, DelegationsKept, BooksKept
<1>2. CASE InitiateRound
  <2>1. now \in Blocks
    BY DEF StakingTypeOK, Blocks
  <2>2. ClaimsTypeOK'
    BY <1>2, <2>1 DEF InitiateRound, StartRound, ClaimsTypeOK
  <2>3. QED
    BY <1>2, <2>2, StakingKept, ProvidersKept, DelegationsKept, BooksKept DEF InitiateRound
<1>3. CASE \E amount \in FundingAmounts : UpdateFundingAmount(amount)
  <2>1. ClaimsTypeOK'
    BY <1>3, RoundAssumption DEF UpdateFundingAmount, SetFundingAmount, ClaimsTypeOK, roundVars
  <2>2. QED
    BY <1>3, <2>1, StakingKept, ProvidersKept, DelegationsKept, BooksKept
       DEF UpdateFundingAmount
<1>4. CASE \E s \in Service : ServiceTx(s)
  <2>1. PICK s \in Service : ServiceTx(s)
    BY <1>4
  <2>2. UNCHANGED <<now, claimsVars, delegateVars>>
    BY <2>1 DEF ServiceTx
  <2>3. /\ StakingTypeOK' /\ ProviderTypeOK' /\ ServicesCounted'
        /\ DirectStakeMoves /\ CustodyMoves
    BY <2>1, <2>2, RegisterFacts, DeregisterOneFacts, DeregisterLastFacts, AmountAssumption
       DEF ServiceTx
  <2>4. QED
    BY <2>2, <2>3, ClaimsKept, DelegationsKept, DirectMovesBooks
<1>5. CASE \E sp \in ServiceProviders : ProviderStakeTx(sp)
  <2>1. PICK sp \in ServiceProviders : ProviderStakeTx(sp)
    BY <1>5
  <2>2. UNCHANGED <<now, claimsVars, delegateVars>>
    BY <2>1 DEF ProviderStakeTx
  <2>3. /\ StakingTypeOK' /\ ProviderTypeOK' /\ ServicesCounted'
        /\ DirectStakeMoves /\ CustodyMoves
    BY <2>1, <2>2, IncreaseStakeFacts, DecreaseStakeFacts, AmountAssumption
       DEF ProviderStakeTx
  <2>4. QED
    BY <2>2, <2>3, ClaimsKept, DelegationsKept, DirectMovesBooks
<1>6. CASE \E sp \in ServiceProviders : ProviderRequestTx(sp)
  <2>1. PICK sp \in ServiceProviders : ProviderRequestTx(sp)
    BY <1>6
  <2>2. UNCHANGED <<now, stakingVars, claimsVars, delegateVars>>
    BY <2>1 DEF ProviderRequestTx
  <2>3. ProviderTypeOK' /\ ServicesCounted' /\ UNCHANGED deployerStake
    BY <2>1, <2>2, ProviderRequestFacts, AmountAssumption, ProviderAssumption
       DEF ProviderRequestTx
  <2>4. QED
    BY <2>2, <2>3, StakingKept, ClaimsKept, DelegationsKept, BooksKept
<1>7. CASE \E sp \in ServiceProviders : RemovalRequestTx(sp)
  <2>1. PICK sp \in ServiceProviders : RemovalRequestTx(sp)
    BY <1>7
  <2>2. UNCHANGED <<now, stakingVars, claimsVars, providerVars>>
    BY <2>1 DEF RemovalRequestTx
  <2>3. DelegateTypeOK' /\ UNCHANGED totalDelegatedStake
    BY <2>1, <2>2, DelegateRequestFacts, AmountAssumption DEF RemovalRequestTx
  <2>4. QED
    BY <2>2, <2>3, StakingKept, ClaimsKept, ProvidersKept, BooksKept
<1>8. CASE \E d \in Delegators : DelegatorRequestTx(d)
  <2>1. PICK d \in Delegators : DelegatorRequestTx(d)
    BY <1>8
  <2>2. UNCHANGED <<now, stakingVars, claimsVars, providerVars>>
    BY <2>1 DEF DelegatorRequestTx
  <2>3. DelegateTypeOK' /\ UNCHANGED totalDelegatedStake
    BY <2>1, <2>2, DelegateRequestFacts, AmountAssumption DEF DelegatorRequestTx
  <2>4. QED
    BY <2>2, <2>3, StakingKept, ClaimsKept, ProvidersKept, BooksKept
<1>9. CASE \E sp \in ServiceProviders : ClaimTx(sp)
  BY <1>9, ClaimRewardsFacts DEF ClaimTx
<1>10. CASE \E sp \in ServiceProviders : SlashTx(sp)
  BY <1>10, SlashFacts, ClaimsKept, AmountAssumption DEF SlashTx
<1>11. CASE \E d \in Delegators, sp \in ServiceProviders : DelegateTx(d, sp)
  BY <1>11, DelegateStakeFacts, ClaimsKept, AmountAssumption DEF DelegateTx
<1>12. CASE \E d \in Delegators, sp \in ServiceProviders : UndelegateTx(d, sp)
  BY <1>12, UndelegateStakeFacts, ClaimsKept DEF UndelegateTx
<1>13. CASE \E d \in Delegators, sp \in ServiceProviders : RemovalTx(sp, d)
  BY <1>13, RemoveDelegatorFacts, ClaimsKept DEF RemovalTx
<1>14. CASE \E from, to \in Accounts : TransferTx(from, to)
  <2>1. PICK from, to \in Accounts : TransferTx(from, to)
    BY <1>14
  <2>2. PICK amount \in TransferAmounts :
               /\ amount <= wallet[from]
               /\ wallet' = [wallet EXCEPT ![from] = @ - amount, ![to] = @ + amount]
    BY <2>1 DEF TransferTx
  <2>3. UNCHANGED <<chainVars, vault, stakedHistory, totalStakedHistory, lastClaimed,
                    claimsVars, providerVars, delegateVars>>
    BY <2>1 DEF TransferTx
  <2>4. wallet' \in [Accounts -> Nat]
    BY <2>1, <2>2, AmountAssumption DEF TransferTx, StakingTypeOK
  <2>5. StakingTypeOK'
    BY <2>3, <2>4 DEF StakingTypeOK
  <2>6. StakeMoves /\ CustodyMoves
    BY <2>3, ProvidersKept, DelegationsKept
       DEF StakeMoves, CustodyMoves, TotalStakedFor, TotalStakedForAt, TotalStaked, TotalStakedAt
  <2>7. QED
    BY <2>3, <2>5, <2>6, ClaimsKept, ProvidersKept, DelegationsKept
<1>15. QED
  BY <1>1, <1>2, <1>3, <1>4, <1>5, <1>6, <1>7, <1>8, <1>9, <1>10, <1>11, <1>12, <1>13, <1>14
     DEF Next, AccountNext, GovernanceTx

-----------------------------------------------------------------------------
(* Lists of delegators and requests.                                       *)

\* Whoever has stake at a provider stays in its list: only a withdrawal to
\* zero and a removal, which is one, take a delegator off.
LEMMA ListedStep ==
    ASSUME SystemOK, DelegatorsListed, Next
    PROVE  DelegatorsListed'
<1> USE DEF SystemOK, TypeOK, ContractsOK, chainVars
<1> SUFFICES ASSUME NEW d \in Delegators, NEW p \in ServiceProviders,
                    delegateInfo'[d][p] > 0
             PROVE  d \in delegators'[p]
  BY DEF DelegatorsListed
<1>1. delegateInfo[d][p] \in Nat /\ (delegateInfo[d][p] > 0 => d \in delegators[p])
  BY DEF DelegateTypeOK, DelegatorsListed
<1>2. CASE UNCHANGED <<delegateInfo, delegators>>
  BY <1>1, <1>2
<1>3. CASE \E e \in Delegators : DelegatorRequestTx(e)
  BY <1>2, <1>3 DEF DelegatorRequestTx, RequestUndelegateStake, CancelUndelegateStakeRequest
<1>4. CASE \E sp \in ServiceProviders : RemovalRequestTx(sp)
  BY <1>2, <1>4 DEF RemovalRequestTx, RequestRemoveDelegator, CancelRemoveDelegatorRequest,
                    UpdateSPMinDelegationAmount
<1>5. CASE \E sp \in ServiceProviders : ClaimTx(sp)
  <2>1. PICK sp \in ServiceProviders : ClaimTx(sp)
    BY <1>5
  <2>2. d \notin delegators[p] => delegateInfo'[d][p] = delegateInfo[d][p]
    BY <2>1, ClaimRewardsFacts DEF ClaimTx
  <2>3. UNCHANGED delegators
    BY <2>1 DEF ClaimTx, ClaimRewards
  <2>4. QED
    BY <1>1, <2>2, <2>3
<1>6. CASE \E sp \in ServiceProviders : SlashTx(sp)
  <2>1. PICK sp \in ServiceProviders, amount \in SlashAmounts :
                Slash(sp, amount) /\ UNCHANGED now
    BY <1>6 DEF SlashTx
  <2>2. d \notin delegators[p] => delegateInfo'[d][p] = delegateInfo[d][p]
    BY <2>1, SlashFacts, AmountAssumption
  <2>3. UNCHANGED delegators
    BY <2>1 DEF Slash
  <2>4. QED
    BY <1>1, <2>2, <2>3
<1>7. CASE \E e \in Delegators, sp \in ServiceProviders : DelegateTx(e, sp)
  <2>1. PICK e \in Delegators, sp \in ServiceProviders, amount \in DelegateAmounts :
                DelegateStake(e, sp, amount)
    BY <1>7 DEF DelegateTx
  <2>2. /\ delegators' = [delegators EXCEPT ![sp] = @ \cup {e}]
        /\ delegateInfo' = [delegateInfo EXCEPT ![e][sp] = @ + amount]
    BY <2>1 DEF DelegateStake, AddDelegation
  <2>3. QED
    BY <1>1, <2>2 DEF DelegateTypeOK
<1>8. CASE \E e \in Delegators, sp \in ServiceProviders : UndelegateTx(e, sp)
  <2>1. PICK e \in Delegators, sp \in ServiceProviders : UndelegateStake(e, sp)
    BY <1>8 DEF UndelegateTx
  <2> DEFINE amount == undelegateRequest[e].amount
  <2>2. /\ delegators' = DelegatorsAfter(e, sp, delegateInfo[e][sp] - amount)
        /\ delegateInfo' = [delegateInfo EXCEPT ![e][sp] = @ - amount]
        /\ amount \in Nat
    BY <2>1 DEF UndelegateStake, SubtractDelegation, DelegateTypeOK
  <2> HIDE DEF amount
  <2>3. CASE e = d /\ sp = p
    BY <1>1, <2>2, <2>3 DEF DelegatorsAfter, DelegateTypeOK
  <2>4. CASE ~(e = d /\ sp = p)
    BY <1>1, <2>2, <2>4 DEF DelegatorsAfter, DelegateTypeOK
  <2>5. QED
    BY <2>3, <2>4
<1>9. CASE \E e \in Delegators, sp \in ServiceProviders : RemovalTx(sp, e)
  <2>1. PICK e \in Delegators, sp \in ServiceProviders : RemoveDelegator(sp, e)
    BY <1>9 DEF RemovalTx
  <2>2. /\ delegators' = [delegators EXCEPT ![sp] = @ \ {e}]
        /\ delegateInfo' = [delegateInfo EXCEPT ![e][sp] = @ - delegateInfo[e][sp]]
    BY <2>1 DEF RemoveDelegator, SubtractDelegation
  <2>3. CASE e = d /\ sp = p
    BY <1>1, <2>2, <2>3 DEF DelegateTypeOK
  <2>4. CASE ~(e = d /\ sp = p)
    BY <1>1, <2>2, <2>4 DEF DelegateTypeOK
  <2>5. QED
    BY <2>3, <2>4
<1>10. CASE UNCHANGED delegateVars
  BY <1>2, <1>10 DEF delegateVars
<1>11. QED
  BY <1>3, <1>4, <1>5, <1>6, <1>7, <1>8, <1>9, <1>10
     DEF Next, AccountNext, GovernanceTx, NextBlock, TransferTx, InitiateRound,
         UpdateFundingAmount, ServiceTx, ProviderStakeTx, ProviderRequestTx

\* A request to undelegate is made within the delegation; a withdrawal, a
\* removal and a slash that lower the delegation end it.
LEMMA RequestStep ==
    ASSUME SystemOK, DelegatorsListed, RequestTimed, RequestCovered, Next
    PROVE  RequestTimed' /\ RequestCovered'
<1> USE DEF SystemOK, TypeOK, ContractsOK, chainVars
<1> DEFINE Sound(d) ==
       /\ undelegateRequest[d].amount # 0 => undelegateRequest[d].expiry # 0
       /\ \A p \in ServiceProviders : LockedDelegation(d, p) <= delegateInfo[d][p]
<1> SUFFICES ASSUME NEW d \in Delegators
             PROVE  Sound(d)'
  BY DEF RequestTimed, RequestCovered
<1>1. /\ Sound(d)
      /\ undelegateRequest[d].amount \in Nat
      /\ \A p \in ServiceProviders : delegateInfo[d][p] \in Nat
  BY DEF RequestTimed, RequestCovered, DelegateTypeOK
<1>2. ASSUME undelegateRequest'[d] = undelegateRequest[d],
             \A p \in ServiceProviders : /\ delegateInfo'[d][p] \in Nat
                                         /\ delegateInfo'[d][p] >= delegateInfo[d][p]
      PROVE  Sound(d)'
  BY <1>1, <1>2 DEF LockedDelegation
<1>3. ASSUME undelegateRequest'[d] = NoUndelegate,
             \A p \in ServiceProviders : delegateInfo'[d][p] \in Nat
      PROVE  Sound(d)'
  BY <1>3 DEF LockedDelegation, NoUndelegate
<1>4. \A p \in ServiceProviders : delegateInfo'[d][p] \in Nat
  BY StepFacts DEF DelegateTypeOK
<1>5. CASE UNCHANGED <<delegateInfo, undelegateRequest>>
  BY <1>1, <1>2, <1>4, <1>5
<1>6. CASE \E e \in Delegators : DelegatorRequestTx(e)
  <2>1. PICK e \in Delegators : DelegatorRequestTx(e)
    BY <1>6
  <2>2. CASE CancelUndelegateStakeRequest(e)
    <3>1. /\ undelegateRequest' = [undelegateRequest EXCEPT ![e] = NoUndelegate]
          /\ UNCHANGED delegateInfo
      BY <2>2 DEF CancelUndelegateStakeRequest, DropUndelegateRequest
    <3>2. QED
      BY <1>1, <1>2, <1>3, <1>4, <3>1 DEF DelegateTypeOK
  <2>3. CASE \E sp \in ServiceProviders, amount \in DelegateAmounts :
                RequestUndelegateStake(e, sp, amount)
    <3>1. PICK sp \in ServiceProviders, amount \in DelegateAmounts :
                  RequestUndelegateStake(e, sp, amount)
      BY <2>3
    <3>2. /\ amount \in Nat
          /\ now + UndelegateLockup \in Nat \ {0}
      BY AmountAssumption, DelegateAssumption DEF StakingTypeOK
    <3>3. /\ amount <= delegateInfo[e][sp]
          /\ undelegateRequest' = [undelegateRequest EXCEPT ![e] =
                 [sp |-> sp, amount |-> amount, expiry |-> now + UndelegateLockup]]
          /\ UNCHANGED delegateInfo
      BY <3>1 DEF RequestUndelegateStake
    <3>4. CASE e = d
      BY <1>1, <3>2, <3>3, <3>4 DEF DelegateTypeOK, LockedDelegation
    <3>5. CASE e # d
      BY <1>1, <1>2, <3>3, <3>5 DEF DelegateTypeOK
    <3>6. QED
      BY <3>4, <3>5
  <2>4. QED
    BY <2>1, <2>2, <2>3 DEF DelegatorRequestTx
<1>7. CASE \E sp \in ServiceProviders : RemovalRequestTx(sp)
  BY <1>5, <1>7 DEF RemovalRequestTx, RequestRemoveDelegator, CancelRemoveDelegatorRequest,
                    UpdateSPMinDelegationAmount
<1>8. CASE \E sp \in ServiceProviders : ClaimTx(sp)
  <2>1. PICK sp \in ServiceProviders : ClaimTx(sp)
    BY <1>8
  <2>2. \A p \in ServiceProviders : delegateInfo'[d][p] >= delegateInfo[d][p]
    BY <2>1, ClaimRewardsFacts DEF ClaimTx
  <2>3. UNCHANGED undelegateRequest
    BY <2>1 DEF ClaimTx, ClaimRewards
  <2>4. QED
    BY <1>2, <1>4, <2>2, <2>3
<1>9. CASE \E sp \in ServiceProviders : SlashTx(sp)
  <2>1. PICK sp \in ServiceProviders, amount \in SlashAmounts :
                Slash(sp, amount) /\ UNCHANGED now
    BY <1>9 DEF SlashTx
  <2>2. undelegateRequest' =
           [e \in Delegators |->
               IF e \in DroppedRequests(sp) THEN NoUndelegate ELSE undelegateRequest[e]]
    BY <2>1 DEF Slash, SlashDelegations
  <2>3. CASE d \in DroppedRequests(sp)
    BY <1>3, <1>4, <2>2, <2>3
  <2>4. CASE d \notin DroppedRequests(sp) /\ d \in delegators[sp]
    <3>1. undelegateRequest'[d] = undelegateRequest[d] /\ undelegateRequest[d].amount = 0
      BY <2>2, <2>4 DEF DroppedRequests
    <3>2. QED
      BY <1>4, <3>1 DEF LockedDelegation
  <2>5. CASE d \notin delegators[sp]
    <3>1. undelegateRequest'[d] = undelegateRequest[d]
      BY <2>2, <2>5 DEF DroppedRequests
    <3>2. \A p \in ServiceProviders : delegateInfo'[d][p] = delegateInfo[d][p]
      BY <2>1, <2>5, SlashFacts, AmountAssumption
    <3>3. QED
      BY <1>1, <1>2, <3>1, <3>2
  <2>6. QED
    BY <2>3, <2>4, <2>5
<1>10. CASE \E e \in Delegators, sp \in ServiceProviders : DelegateTx(e, sp)
  <2>1. PICK e \in Delegators, sp \in ServiceProviders, amount \in DelegateAmounts :
                DelegateStake(e, sp, amount)
    BY <1>10 DEF DelegateTx
  <2>2. /\ UNCHANGED undelegateRequest
        /\ delegateInfo' = [delegateInfo EXCEPT ![e][sp] = @ + amount]
        /\ amount \in Nat
    BY <2>1, AmountAssumption DEF DelegateStake, AddDelegation
  <2>3. \A p \in ServiceProviders : delegateInfo'[d][p] >= delegateInfo[d][p]
    BY <1>1, <2>2 DEF DelegateTypeOK
  <2>4. QED
    BY <1>2, <1>4, <2>2, <2>3
<1>11. CASE \E e \in Delegators, sp \in ServiceProviders : UndelegateTx(e, sp)
  <2>1. PICK e \in Delegators, sp \in ServiceProviders : UndelegateStake(e, sp)
    BY <1>11 DEF UndelegateTx
  <2> DEFINE amount == undelegateRequest[e].amount
  <2>2. /\ undelegateRequest' = [undelegateRequest EXCEPT ![e] = NoUndelegate]
        /\ delegateInfo' = [delegateInfo EXCEPT ![e][sp] = @ - amount]
    BY <2>1 DEF UndelegateStake, SubtractDelegation, DropUndelegateRequest
  <2> HIDE DEF amount
  <2>3. CASE e = d
    BY <1>3, <1>4, <2>2, <2>3 DEF DelegateTypeOK
  <2>4. CASE e # d
    BY <1>1, <1>2, <2>2, <2>4 DEF DelegateTypeOK
  <2>5. QED
    BY <2>3, <2>4
<1>12. CASE \E e \in Delegators, sp \in ServiceProviders : RemovalTx(sp, e)
  <2>1. PICK e \in Delegators, sp \in ServiceProviders : RemoveDelegator(sp, e)
    BY <1>12 DEF RemovalTx
  <2>2. /\ delegateInfo' = [delegateInfo EXCEPT ![e][sp] = @ - delegateInfo[e][sp]]
        /\ DropRequestOnRemoval(sp, e)
    BY <2>1 DEF RemoveDelegator, SubtractDelegation
  <2>3. CASE UndelegateIsPending(e) /\ undelegateRequest[e].sp = sp
    <3>1. undelegateRequest' = [undelegateRequest EXCEPT ![e] = NoUndelegate]
      BY <2>2, <2>3 DEF DropRequestOnRemoval, DropUndelegateRequest
    <3>2. CASE e = d
      BY <1>3, <1>4, <3>1, <3>2 DEF DelegateTypeOK
    <3>3. CASE e # d
      BY <1>1, <1>2, <2>2, <3>1, <3>3 DEF DelegateTypeOK
    <3>4. QED
      BY <3>2, <3>3
  <2>4. CASE ~(UndelegateIsPending(e) /\ undelegateRequest[e].sp = sp)
    <3>1. UNCHANGED undelegateRequest
      BY <2>2, <2>4 DEF DropRequestOnRemoval
    <3>2. CASE e = d
      <4>1. NoProvider # sp
        BY DelegateAssumption DEF Accounts
      <4>2. undelegateRequest[d].sp = sp => undelegateRequest[d].amount = 0
        BY <1>1, <2>4, <3>2, <4>1 DEF UndelegateIsPending
      <4>3. \A p \in ServiceProviders \ {sp} : delegateInfo'[d][p] = delegateInfo[d][p]
        BY <2>2, <3>2 DEF DelegateTypeOK
      <4>4. QED
        BY <1>1, <1>4, <3>1, <4>2, <4>3 DEF LockedDelegation
    <3>3. CASE e # d
      BY <1>1, <1>2, <2>2, <3>1, <3>3 DEF DelegateTypeOK
    <3>4. QED
      BY <3>2, <3>3
  <2>5. QED
    BY <2>3, <2>4
<1>13. CASE UNCHANGED delegateVars
  BY <1>5, <1>13 DEF delegateVars
<1>14. QED
  BY <1>6, <1>7, <1>8, <1>9, <1>10, <1>11, <1>12, <1>13
     DEF Next, AccountNext, GovernanceTx, NextBlock, TransferTx, InitiateRound,
         UpdateFundingAmount, ServiceTx, ProviderStakeTx, ProviderRequestTx

-----------------------------------------------------------------------------
(* Theorems.                                                               *)

\* Every transaction, and a step that changes nothing, keeps the invariant.
LEMMA StepInv == Inv /\ [Next]_vars => Inv'
<1> SUFFICES ASSUME Inv, [Next]_vars
             PROVE  Inv'
  OBVIOUS
<1>1. CASE Next
  <2>1. SystemOK' /\ StakeMoves /\ CustodyMoves
    BY <1>1, StepFacts DEF Inv
  <2>2. StakeSplit'
    <3>1. ASSUME NEW sp \in ServiceProviders
          PROVE  TotalStakedFor(sp)' = deployerStake'[sp] + totalDelegatedStake'[sp]
      <4>1. /\ TotalStakedFor(sp)' \in Nat
            /\ deployerStake'[sp] \in Nat /\ deployerStake[sp] \in Nat
            /\ totalDelegatedStake'[sp] \in Nat /\ totalDelegatedStake[sp] \in Nat
        <5>1. StakingTypeOK' => \A q \in ServiceProviders : TotalStakedFor(q)' \in Nat
          BY BlockAssumption DEF StakingTypeOK, TotalStakedFor, TotalStakedForAt, Blocks
        <5>2. QED
          BY <2>1, <5>1 DEF Inv, SystemOK, TypeOK, ProviderTypeOK, DelegateTypeOK
      <4>2. TotalStakedFor(sp) = deployerStake[sp] + totalDelegatedStake[sp]
        BY DEF Inv, StakeSplit
      <4>3. TotalStakedFor(sp)' - deployerStake'[sp] - totalDelegatedStake'[sp]
               = TotalStakedFor(sp) - deployerStake[sp] - totalDelegatedStake[sp]
        BY <2>1 DEF StakeMoves
      <4>4. QED
        BY <4>1, <4>2, <4>3
    <3>2. QED
      BY <3>1 DEF StakeSplit
  <2>3. vault' = TotalStaked'
    <3>1. /\ vault \in Nat /\ vault' \in Nat
          /\ TotalStaked \in Nat /\ TotalStaked' \in Nat
      BY <2>1, BlockAssumption DEF Inv, SystemOK, TypeOK, StakingTypeOK, TotalStaked,
                                   TotalStakedAt, Blocks
    <3>2. vault = TotalStaked
      BY DEF Inv
    <3>3. vault' - TotalStaked' = vault - TotalStaked
      BY <2>1 DEF CustodyMoves
    <3>4. \A a, b, c, d \in Nat : a - b = c - d /\ c = d => a = b
      OBVIOUS
    <3>5. QED
      BY <3>1, <3>2, <3>3, <3>4
  <2>4. DelegatorsListed' /\ RequestTimed' /\ RequestCovered'
    BY <1>1, ListedStep, RequestStep DEF Inv
  <2>5. QED
    BY <2>1, <2>2, <2>3, <2>4 DEF Inv
<1>2. CASE UNCHANGED vars
  <2>1. UNCHANGED <<chainVars, stakingVars, claimsVars, providerVars, delegateVars>>
    BY <1>2 DEF vars
  <2>2. SystemOK'
    BY <2>1, StakingKept, ClaimsKept, ProvidersKept, DelegationsKept
       DEF Inv, SystemOK, TypeOK, chainVars
  <2>3. StakeSplit' /\ vault' = TotalStaked'
    BY <2>1 DEF Inv, StakeSplit, stakingVars, providerVars, delegateVars, TotalStakedFor,
                TotalStakedForAt, TotalStaked, TotalStakedAt
  <2>4. DelegatorsListed' /\ RequestTimed' /\ RequestCovered'
    BY <2>1 DEF Inv, delegateVars, DelegatorsListed, RequestTimed, RequestCovered,
                LockedDelegation
  <2>5. QED
    BY <2>2, <2>3, <2>4 DEF Inv
<1>3. QED
  BY <1>1, <1>2

\* The invariant holds in every reachable state.
THEOREM Invariance == Spec => []Inv
BY InitInv, StepInv, PTL DEF Spec

\* Every variable of the four contracts keeps its type: no counter, balance or
\* lock goes below zero, no deployer cut above its base.
THEOREM TypeCorrect == Spec => []TypeOK
<1>1. Inv => TypeOK
  BY DEF Inv, SystemOK
<1>2. QED
  BY <1>1, Invariance, PTL

\* The stake that Staking holds for a provider is its direct stake in the
\* ServiceProviderFactory and its delegations in the DelegateManager, whatever
\* the roundings of claims and slashes, so claimRewards never fails on
\* "Reward amount mismatch".
THEOREM StakesAgree == Spec => []StakeSplit
<1>1. Inv => StakeSplit
  BY DEF Inv
<1>2. QED
  BY <1>1, Invariance, PTL

\* Staking holds exactly the tokens that it records as staked.
THEOREM VaultBacked == Spec => [](vault = TotalStaked)
<1>1. Inv => vault = TotalStaked
  BY DEF Inv
<1>2. QED
  BY <1>1, Invariance, PTL

\* Whoever has delegated to a provider is in the list its rewards and slashes
\* are spread over.
THEOREM ListsComplete == Spec => []DelegatorsListed
<1>1. Inv => DelegatorsListed
  BY DEF Inv
<1>2. QED
  BY <1>1, Invariance, PTL

\* A pending request to undelegate never exceeds the delegation it is for,
\* through slashes, removals and claims.
THEOREM RequestsCovered == Spec => []RequestCovered
<1>1. Inv => RequestCovered
  BY DEF Inv
<1>2. QED
  BY <1>1, Invariance, PTL

-----------------------------------------------------------------------------
(* The bounds flag.                                                        *)

FlagAgrees(sp) == numberOfEndpoints[sp] > 0 => (validBounds[sp] <=> TotalWithinBounds(sp))

\* A provider whose flag, bounds and stake stay as they are.
LEMMA FlagKept ==
    ASSUME NEW sp, FlagAgrees(sp), TotalStakedFor(sp)' = TotalStakedFor(sp),
           validBounds'[sp] = validBounds[sp],
           numberOfEndpoints'[sp] = numberOfEndpoints[sp],
           minAccountStake'[sp] = minAccountStake[sp],
           maxAccountStake'[sp] = maxAccountStake[sp]
    PROVE  FlagAgrees(sp)'
BY DEF FlagAgrees, TotalWithinBounds

\* The flag is set after the balance was checked: the direct stake that meets
\* the minimum is part of the stake that the flag is about.
LEMMA FlagConfirmed ==
    ASSUME Inv', NEW sp \in ServiceProviders,
           numberOfEndpoints'[sp] > 0 => AccountStakeIsValid(sp)',
           validBounds'[sp] = TRUE
    PROVE  FlagAgrees(sp)'
<1>1. /\ deployerStake'[sp] \in Nat /\ totalDelegatedStake'[sp] \in Nat
      /\ minAccountStake'[sp] \in Nat
      /\ TotalStakedFor(sp)' = deployerStake'[sp] + totalDelegatedStake'[sp]
  BY DEF Inv, SystemOK, TypeOK, ProviderTypeOK, DelegateTypeOK, StakeSplit
<1>2. ASSUME AccountStakeIsValid(sp)' PROVE TotalWithinBounds(sp)'
  BY <1>1, <1>2 DEF AccountStakeIsValid, BalanceIsValid, TotalWithinBounds
<1>3. QED
  BY <1>2 DEF FlagAgrees

\* delegateStake leaves the flag: the check of the balance after it shows that
\* the provider was within its bounds before.
LEMMA FlagNotNeeded ==
    ASSUME Inv, Inv', NEW sp \in ServiceProviders, FlagAgrees(sp),
           UNCHANGED providerVars, AccountStakeIsValid(sp)',
           TotalStakedFor(sp) <= TotalStakedFor(sp)'
    PROVE  FlagAgrees(sp)'
<1>1. /\ deployerStake[sp] \in Nat /\ totalDelegatedStake[sp] \in Nat
      /\ minAccountStake[sp] \in Nat /\ maxAccountStake[sp] \in Nat
      /\ TotalStakedFor(sp) = deployerStake[sp] + totalDelegatedStake[sp]
      /\ TotalStakedFor(sp) \in Nat
  BY DEF Inv, SystemOK, TypeOK, ProviderTypeOK, DelegateTypeOK, StakeSplit
<1>2. TotalStakedFor(sp)' \in Nat
  BY DEF Inv, SystemOK, TypeOK, ProviderTypeOK, DelegateTypeOK, StakeSplit
<1>3. /\ TotalStakedFor(sp)' <= maxAccountStake[sp]
      /\ minAccountStake[sp] <= deployerStake[sp]
      /\ UNCHANGED <<validBounds, numberOfEndpoints, minAccountStake, maxAccountStake>>
  <2>1. UNCHANGED <<deployerStake, validBounds, numberOfEndpoints, minAccountStake,
                    maxAccountStake>>
    BY DEF providerVars
  <2>2. QED
    BY <1>1, <2>1 DEF AccountStakeIsValid, BalanceIsValid
<1>4. TotalWithinBounds(sp) /\ TotalWithinBounds(sp)'
  BY <1>1, <1>2, <1>3 DEF TotalWithinBounds
<1>5. QED
  BY <1>3, <1>4, Zenon DEF FlagAgrees

\* A call of updateServiceProviderStake computes the flag again.
LEMMA FlagComputed ==
    ASSUME Inv, NEW sp \in ServiceProviders, NEW stake,
           UpdateServiceProviderStake(sp, stake)
    PROVE  /\ FlagAgrees(sp)'
           /\ UNCHANGED <<numberOfEndpoints, minAccountStake, maxAccountStake>>
           /\ \A p \in ServiceProviders \ {sp} : validBounds'[p] = validBounds[p]
<1>1. validBounds \in [ServiceProviders -> BOOLEAN]
  BY DEF Inv, SystemOK, TypeOK, ProviderTypeOK
<1>2. validBounds' = [validBounds EXCEPT ![sp] = TotalWithinBounds(sp)']
  BY DEF UpdateServiceProviderStake
<1>3. /\ validBounds'[sp] = TotalWithinBounds(sp)'
      /\ \A p \in ServiceProviders \ {sp} : validBounds'[p] = validBounds[p]
  BY <1>1, <1>2, Zenon
<1>4. QED
  BY <1>3, Zenon DEF FlagAgrees, UpdateServiceProviderStake, serviceVars

\* What a transaction that concerns the stake of sp keeps for the others.
OthersFlags(sp) ==
    \A p \in ServiceProviders \ {sp} :
        /\ validBounds'[p] = validBounds[p]
        /\ numberOfEndpoints'[p] = numberOfEndpoints[p]
        /\ minAccountStake'[p] = minAccountStake[p]
        /\ maxAccountStake'[p] = maxAccountStake[p]

LEMMA FlagsStep ==
    ASSUME BoundsFlagCurrent, NEW sp \in ServiceProviders, FlagAgrees(sp)',
           OthersFlags(sp),
           \A p \in ServiceProviders \ {sp} : TotalStakedFor(p)' = TotalStakedFor(p)
    PROVE  BoundsFlagCurrent'
<1>1. ASSUME NEW p \in ServiceProviders, p # sp PROVE FlagAgrees(p)'
  <2>1. FlagAgrees(p)
    BY DEF BoundsFlagCurrent, FlagAgrees
  <2>2. QED
    BY <1>1, <2>1, FlagKept DEF OthersFlags
<1>2. \A p \in ServiceProviders : FlagAgrees(p)'
  BY <1>1
<1>3. QED
  BY <1>2 DEF BoundsFlagCurrent, FlagAgrees

\* Transactions that move neither stakes nor bounds nor flags.
LEMMA FlagsKept ==
    ASSUME BoundsFlagCurrent,
           UNCHANGED <<stakedHistory, validBounds, numberOfEndpoints, minAccountStake,
                       maxAccountStake>>
    PROVE  BoundsFlagCurrent'
BY DEF BoundsFlagCurrent, TotalWithinBounds, TotalStakedFor, TotalStakedForAt

\* register, deregister, increaseStake and decreaseStake.
LEMMA ProviderStepFlags ==
    ASSUME Inv, Inv', BoundsFlagCurrent, UNCHANGED now, NEW sp \in ServiceProviders,
           \/ \E s \in Service : s.owner = sp /\ ServiceTx(s)
           \/ ProviderStakeTx(sp)
    PROVE  BoundsFlagCurrent'
<1>1. /\ StakingTypeOK
      /\ decreaseRequest[sp].amount \in Nat
      /\ validBounds \in [ServiceProviders -> BOOLEAN]
      /\ numberOfEndpoints \in [ServiceProviders -> Nat]
      /\ minAccountStake \in [ServiceProviders -> Nat]
      /\ maxAccountStake \in [ServiceProviders -> Nat]
  BY DEF Inv, SystemOK, TypeOK, ProviderTypeOK
<1>2. \A p \in ServiceProviders \ {sp} : TotalStakedFor(p)' = TotalStakedFor(p)
  <2>1. \/ \E amount \in Nat : StakeFor(sp, sp, amount)
        \/ \E amount \in Nat : UnstakeFor(sp, sp, amount)
        \/ UNCHANGED stakingVars
    BY <1>1, AmountAssumption
       DEF ServiceTx, ProviderStakeTx, Register, DeregisterOne, DeregisterLast,
           IncreaseStake, DecreaseStake
  <2>2. CASE UNCHANGED stakingVars
    BY <2>2 DEF stakingVars, TotalStakedFor, TotalStakedForAt
  <2>3. CASE \E amount \in Nat : StakeFor(sp, sp, amount)
    BY <1>1, <2>3, StakeForFacts DEF StakeBecomes, Accounts
  <2>4. CASE \E amount \in Nat : UnstakeFor(sp, sp, amount)
    BY <1>1, <2>4, UnstakeForFacts DEF StakeBecomes, Accounts
  <2>5. QED
    BY <2>1, <2>2, <2>3, <2>4
<1>3. CASE \E s \in Service : s.owner = sp /\ ServiceTx(s)
  <2>1. PICK s \in Service : s.owner = sp /\ ServiceTx(s)
    BY <1>3
  <2>2. AddService(s) \/ RemoveService(s)
    BY <2>1 DEF ServiceTx, Register, DeregisterOne, DeregisterLast
  <2>3. \A p \in ServiceProviders \ {sp} :
           /\ numberOfEndpoints'[p] = numberOfEndpoints[p]
           /\ minAccountStake'[p] = minAccountStake[p]
           /\ maxAccountStake'[p] = maxAccountStake[p]
    BY <1>1, <2>1, <2>2 DEF AddService, RemoveService
  <2>4. CASE ConfirmBounds(sp) /\ AccountStakeIsValid(sp)'
    <3>1. /\ validBounds'[sp] = TRUE
          /\ \A p \in ServiceProviders \ {sp} : validBounds'[p] = validBounds[p]
      BY <1>1, <2>4 DEF ConfirmBounds
    <3>2. FlagAgrees(sp)'
      BY <2>4, <3>1, FlagConfirmed
    <3>3. QED
      BY <1>2, <2>3, <3>1, <3>2, FlagsStep DEF OthersFlags
  <2>5. CASE DeregisterLast(s)
    <3>1. numberOfEndpoints'[sp] = 0
      BY <1>1, <2>1, <2>5 DEF DeregisterLast, RemoveService
    <3>2. FlagAgrees(sp)'
      BY <3>1 DEF FlagAgrees
    <3>3. UNCHANGED validBounds
      BY <2>5 DEF DeregisterLast
    <3>4. QED
      BY <1>2, <2>3, <3>2, <3>3, FlagsStep DEF OthersFlags
  <2>6. QED
    BY <2>1, <2>4, <2>5 DEF ServiceTx, Register, DeregisterOne
<1>4. CASE ProviderStakeTx(sp)
  <2>1. /\ ConfirmBounds(sp)
        /\ UNCHANGED serviceVars
        /\ numberOfEndpoints[sp] > 0 => AccountStakeIsValid(sp)'
    BY <1>4 DEF ProviderStakeTx, IncreaseStake, DecreaseStake
  <2>2. /\ validBounds'[sp] = TRUE
        /\ \A p \in ServiceProviders \ {sp} : validBounds'[p] = validBounds[p]
    BY <1>1, <2>1 DEF ConfirmBounds
  <2>3. UNCHANGED <<numberOfEndpoints, minAccountStake, maxAccountStake>>
    BY <2>1 DEF serviceVars
  <2>4. FlagAgrees(sp)'
    BY <2>1, <2>2, <2>3, FlagConfirmed
  <2>5. QED
    BY <1>2, <2>2, <2>3, <2>4, FlagsStep DEF OthersFlags
<1>5. QED
  BY <1>3, <1>4

\* delegateStake, undelegateStake, claimRewards and slash.
LEMMA DelegateStepFlags ==
    ASSUME Inv, Inv', BoundsFlagCurrent, UNCHANGED now, NEW sp \in ServiceProviders,
           \/ \E d \in Delegators : DelegateTx(d, sp) \/ UndelegateTx(d, sp)
           \/ ClaimTx(sp)
           \/ SlashTx(sp)
    PROVE  BoundsFlagCurrent'
<1>1. ContractsOK /\ ClaimsTypeOK /\ StakingTypeOK
  BY DEF Inv, SystemOK, TypeOK, ContractsOK
<1>2. \A d \in Delegators : undelegateRequest[d].amount \in Nat
  BY <1>1 DEF ContractsOK, DelegateTypeOK
<1> USE DEF StakeBecomes
<1>3. ASSUME NEW d \in Delegators, DelegateTx(d, sp) PROVE BoundsFlagCurrent'
  <2>1. PICK amount \in DelegateAmounts : DelegateStake(d, sp, amount)
    BY <1>3 DEF DelegateTx
  <2>2. /\ amount \in Nat
        /\ StakeFor(sp, d, amount)
        /\ UNCHANGED providerVars
        /\ AccountStakeIsValid(sp)'
    BY <2>1, AmountAssumption DEF DelegateStake
  <2>3. \A p \in ServiceProviders :
           TotalStakedFor(p)' = IF p = sp THEN TotalStakedFor(sp) + amount ELSE TotalStakedFor(p)
    BY <1>1, <2>2, StakeForFacts DEF Accounts
  <2>4. TotalStakedFor(sp) <= TotalStakedFor(sp)'
    BY <1>1, <2>2, <2>3, StakeNat
  <2>5. FlagAgrees(sp)
    BY DEF BoundsFlagCurrent, FlagAgrees
  <2>6. FlagAgrees(sp)'
    BY <2>2, <2>4, <2>5, FlagNotNeeded
  <2>7. QED
    BY <2>2, <2>3, <2>6, FlagsStep DEF OthersFlags, providerVars
<1>4. ASSUME NEW stake, UpdateServiceProviderStake(sp, stake),
             \A p \in ServiceProviders \ {sp} : TotalStakedFor(p)' = TotalStakedFor(p)
      PROVE  BoundsFlagCurrent'
  BY <1>4, FlagComputed, FlagsStep DEF OthersFlags
<1>5. ASSUME NEW d \in Delegators, UndelegateTx(d, sp) PROVE BoundsFlagCurrent'
  <2>1. /\ UnstakeFor(sp, d, undelegateRequest[d].amount)
        /\ UpdateServiceProviderStake(sp, deployerStake[sp])
    BY <1>5 DEF UndelegateTx, UndelegateStake
  <2>2. \A p \in ServiceProviders \ {sp} : TotalStakedFor(p)' = TotalStakedFor(p)
    BY <1>1, <1>2, <2>1, UnstakeForFacts DEF Accounts
  <2>3. QED
    BY <1>4, <2>1, <2>2
<1>6. CASE ClaimTx(sp)
  <2> DEFINE locked == LockedStake(sp)
             reward == MintedReward(sp, locked, validBounds[sp])
  <2>1. locked \in Nat
    BY <1>1 DEF ContractsOK, DelegateTypeOK, ProviderTypeOK, LockedStake
  <2>2. /\ ProcessClaim(sp, locked, validBounds[sp])
        /\ reward = 0 => UNCHANGED <<validBounds, serviceVars>>
        /\ reward # 0 => \E stake : UpdateServiceProviderStake(sp, stake)
    BY <1>6 DEF ClaimTx, ClaimRewards, DistributeRewards
  <2>3. \A p \in ServiceProviders :
           TotalStakedFor(p)' = IF p = sp THEN TotalStakedFor(sp) + reward ELSE TotalStakedFor(p)
    BY <1>1, <2>1, <2>2, ProcessClaimFacts
  <2> HIDE DEF locked, reward
  <2>4. CASE reward # 0
    BY <1>4, <2>2, <2>3, <2>4
  <2>5. CASE reward = 0
    <3>1. TotalStakedFor(sp)' = TotalStakedFor(sp)
      BY <1>1, <2>3, <2>5, StakeNat
    <3>2. FlagAgrees(sp)
      BY DEF BoundsFlagCurrent, FlagAgrees
    <3>3. FlagAgrees(sp)'
      BY <2>2, <2>5, <3>1, <3>2, FlagKept DEF serviceVars
    <3>4. QED
      BY <2>2, <2>3, <2>5, <3>3, FlagsStep DEF OthersFlags, serviceVars
  <2>6. QED
    BY <2>4, <2>5
<1>7. CASE SlashTx(sp)
  <2>1. PICK amount \in SlashAmounts : Slash(sp, amount)
    BY <1>7 DEF SlashTx
  <2>2. /\ amount \in Nat /\ BurnFor(sp, amount)
        /\ \E stake : UpdateServiceProviderStake(sp, stake)
    BY <2>1, AmountAssumption DEF Slash
  <2>3. \A p \in ServiceProviders \ {sp} : TotalStakedFor(p)' = TotalStakedFor(p)
    BY <1>1, <2>2, BurnForFacts
  <2>4. QED
    BY <1>4, <2>2, <2>3
<1>8. QED
  BY <1>3, <1>5, <1>6, <1>7

\* removeDelegator alone changes a stake without its flag.
LEMMA StepFlags ==
    ASSUME Inv, [Next]_vars, BoundsFlagCurrent,
           \A d \in Delegators, sp \in ServiceProviders : ~RemovalTx(sp, d)
    PROVE  BoundsFlagCurrent'
<1>1. Inv'
  BY StepInv
<1>2. CASE UNCHANGED <<stakingVars, providerVars>>
  BY <1>2, FlagsKept DEF stakingVars, providerVars
<1>3. CASE \E from, to \in Accounts : TransferTx(from, to)
  BY <1>3, FlagsKept DEF TransferTx, providerVars
<1>4. CASE \E s \in Service : ServiceTx(s)
  <2>1. PICK s \in Service : ServiceTx(s)
    BY <1>4
  <2>2. s.owner \in ServiceProviders /\ UNCHANGED now
    BY <2>1 DEF Service, ServiceTx, chainVars
  <2>3. QED
    BY <1>1, <2>1, <2>2, ProviderStepFlags
<1>5. CASE \E sp \in ServiceProviders : ProviderStakeTx(sp)
  BY <1>1, <1>5, ProviderStepFlags DEF ProviderStakeTx, chainVars
<1>6. CASE \E sp \in ServiceProviders : ProviderRequestTx(sp)
  BY <1>6, FlagsKept
     DEF ProviderRequestTx, RequestDecreaseStake, CancelDecreaseStakeRequest,
         RequestUpdateDeployerCut, CancelUpdateDeployerCut, UpdateDeployerCut,
         stakingVars, serviceVars
<1>7. CASE \E sp \in ServiceProviders :
              \/ \E d \in Delegators : DelegateTx(d, sp) \/ UndelegateTx(d, sp)
              \/ ClaimTx(sp)
              \/ SlashTx(sp)
  BY <1>1, <1>7, DelegateStepFlags DEF DelegateTx, UndelegateTx, ClaimTx, SlashTx, chainVars
<1>8. CASE UNCHANGED vars
  BY <1>2, <1>8 DEF vars
<1>9. QED
  BY <1>2, <1>3, <1>4, <1>5, <1>6, <1>7, <1>8
     DEF Next, AccountNext, GovernanceTx, NextBlock, InitiateRound, UpdateFundingAmount,
         RemovalRequestTx, DelegatorRequestTx

\* Once the flag of every provider is right, only the removal of a delegator
\* can make one wrong: removeDelegator changes the stake of the provider and
\* does not call updateServiceProviderStake, as all others do that need it.
THEOREM OnlyRemovalsStaleFlags ==
    Spec => [][BoundsFlagCurrent
                 /\ (\A d \in Delegators, sp \in ServiceProviders : ~RemovalTx(sp, d))
                 => BoundsFlagCurrent']_vars
<1>1. Inv /\ [Next]_vars
        => [BoundsFlagCurrent
              /\ (\A d \in Delegators, sp \in ServiceProviders : ~RemovalTx(sp, d))
              => BoundsFlagCurrent']_vars
  BY StepFlags
<1>2. QED
  BY <1>1, Invariance, PTL DEF Spec

\* No removal is pending.
NoRemovals == \A d \in Delegators, sp \in ServiceProviders : removeRequest[sp][d] = 0

\* Where no provider asks to remove a delegator, none is removed.
LEMMA NoRemovalsKept ==
    ASSUME Removable = {}, NoRemovals, [Next]_vars
    PROVE  NoRemovals'
<1>1. CASE UNCHANGED removeRequest
  BY <1>1 DEF NoRemovals
<1>2. ASSUME NEW sp \in ServiceProviders, NEW d \in Delegators,
             RemoveDelegator(sp, d) \/ CancelRemoveDelegatorRequest(sp, d)
      PROVE  FALSE
  BY <1>2 DEF NoRemovals, RemoveDelegator, CancelRemoveDelegatorRequest
<1>3. QED
  BY <1>1, <1>2
     DEF Next, AccountNext, GovernanceTx, NextBlock, InitiateRound, UpdateFundingAmount,
         TransferTx, ServiceTx, ProviderStakeTx, ProviderRequestTx, RemovalRequestTx,
         UpdateSPMinDelegationAmount, ClaimTx, ClaimRewards, SlashTx, Slash,
         DelegatorRequestTx, RequestUndelegateStake, CancelUndelegateStakeRequest,
         DelegateTx, DelegateStake, UndelegateTx, UndelegateStake, RemovalTx, vars,
         delegateVars

LEMMA NothingRemoved ==
    ASSUME NoRemovals
    PROVE  \A d \in Delegators, sp \in ServiceProviders : ~RemovalTx(sp, d)
BY DEF NoRemovals, RemovalTx, RemoveDelegator

\* Where no provider asks to remove a delegator, the flags always agree with
\* the stakes and the bounds.
THEOREM FlagsCurrent == ASSUME Removable = {} PROVE Spec => []BoundsFlagCurrent
<1>1. Init => BoundsFlagCurrent /\ NoRemovals
  BY DEF Init, ProviderInit, DelegateInit, BoundsFlagCurrent, NoRemovals
<1>2. Inv /\ (BoundsFlagCurrent /\ NoRemovals) /\ [Next]_vars
        => (BoundsFlagCurrent /\ NoRemovals)'
  BY NoRemovalsKept, NothingRemoved, StepFlags
<1>3. QED
  BY <1>1, <1>2, Invariance, PTL DEF Spec
=============================================================================
