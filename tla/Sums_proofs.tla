----------------------------- MODULE Sums_proofs -----------------------------
(***************************************************************************)
(* Sums over finite sets.  SumFunctionOnSet of the community module        *)
(* Functions is a recursive fold; here it is shown to count units: f[x] of *)
(* them for each x.  What the specifications need of a sum then follows    *)
(* from the theorems about cardinality, with no induction left to do.      *)
(***************************************************************************)
EXTENDS Functions, FiniteSetTheorems, TLAPS

\* f[x] distinct units for each x in S.
Units(f, S) == UNION {{x} \X (1..f[x]) : x \in S}

-----------------------------------------------------------------------------
(* Counting units *)

\* The units of one x.
LEMMA UnitsOfOne ==
    ASSUME NEW x, NEW n \in Nat
    PROVE  IsFiniteSet({x} \X (1..n)) /\ Cardinality({x} \X (1..n)) = n
  <1>1. IsFiniteSet({x}) /\ Cardinality({x}) = 1
    BY FS_Singleton
  <1>2. IsFiniteSet(1..n) /\ Cardinality(1..n) = n
    BY FS_Interval
  <1>3. /\ IsFiniteSet({x} \X (1..n))
        /\ Cardinality({x} \X (1..n)) = Cardinality({x}) * Cardinality(1..n)
    BY <1>1, <1>2, FS_Product
  <1> QED
    BY <1>1, <1>2, <1>3

\* Finitely many x have finitely many units.
LEMMA UnitsFinite ==
    ASSUME NEW S, IsFiniteSet(S), NEW f, \A x \in S : f[x] \in Nat
    PROVE  IsFiniteSet(Units(f, S))
  <1> DEFINE m == [x \in S |-> {x} \X (1..f[x])]
             T == {{x} \X (1..f[x]) : x \in S}
  <1>1. \A x \in S : IsFiniteSet({x} \X (1..f[x]))
    BY UnitsOfOne
  <1>2. m \in Surjection(S, T)
    BY DEF Surjection
  <1>3. IsFiniteSet(T)
    BY <1>2, FS_Surjection
  <1>4. \A t \in T : IsFiniteSet(t)
    BY <1>1
  <1> HIDE DEF T
  <1>5. IsFiniteSet(UNION T)
    BY <1>3, <1>4, FS_UNION
  <1> QED
    BY <1>5 DEF Units, T

\* One x more has its own units.
LEMMA UnitsAdd ==
    ASSUME NEW S, IsFiniteSet(S), NEW x, x \notin S, NEW f, \A y \in S \cup {x} : f[y] \in Nat
    PROVE  Cardinality(Units(f, S \cup {x})) = Cardinality(Units(f, S)) + f[x]
  <1> DEFINE U == Units(f, S)
             X == {x} \X (1..f[x])
  <1>1. Units(f, S \cup {x}) = U \cup X
    BY DEF Units
  <1>2. U \cap X = {}
    BY DEF Units
  <1>3. IsFiniteSet(U) /\ Cardinality(U) \in Nat
    BY UnitsFinite, FS_CardinalityType
  <1>4. IsFiniteSet(X) /\ Cardinality(X) = f[x]
    BY UnitsOfOne
  <1> HIDE DEF U, X
  <1>5. Cardinality(U \cup X) = Cardinality(U) + Cardinality(X) - Cardinality(U \cap X)
    BY <1>3, <1>4, FS_Union
  <1>6. Cardinality(U \cap X) = 0
    BY <1>2, FS_EmptySet
  <1>7. Cardinality(U \cup X) = Cardinality(U) + Cardinality(X)
    BY <1>3, <1>4, <1>5, <1>6, FS_CardinalityType
  <1>8. Cardinality(Units(f, S \cup {x})) = Cardinality(U) + f[x]
    BY <1>1, <1>4, <1>7
  <1> QED
    BY <1>8 DEF U

\* The recursion of the fold has one solution only, and it counts units.
LEMMA SumIsUnits ==
    ASSUME NEW S, IsFiniteSet(S), NEW f, \A x \in S : f[x] \in Nat
    PROVE  SumFunctionOnSet(f, S) = Cardinality(Units(f, S))
  <1> DEFINE pick(s) == CHOOSE x \in s : TRUE
             iter == CHOOSE g : g = [s \in SUBSET S |->
                       IF s = {} THEN 0 ELSE f[pick(s)] + g[s \ {pick(s)}]]
             count == [s \in SUBSET S |-> Cardinality(Units(f, s))]
  <1>1. SumFunctionOnSet(f, S) = iter[S]
    BY DEF SumFunctionOnSet, FoldFunctionOnSet, MapThenFoldSet
  <1>2. ASSUME NEW s \in SUBSET S
        PROVE  count[s] = IF s = {} THEN 0 ELSE f[pick(s)] + count[s \ {pick(s)}]
    <2>1. CASE s = {}
      <3>1. Units(f, s) = {}
        BY <2>1 DEF Units
      <3> QED
        BY <2>1, <3>1, FS_EmptySet
    <2>2. CASE s # {}
      <3> DEFINE x == pick(s)
                 r == s \ {x}
      <3>1. x \in s
        BY <2>2
      <3> HIDE DEF x
      <3>2. s = r \cup {x} /\ x \notin r /\ r \in SUBSET S
        BY <3>1
      <3>3. IsFiniteSet(r)
        BY <3>2, FS_Subset
      <3>4. \A y \in r \cup {x} : f[y] \in Nat
        BY <3>1
      <3>5. Cardinality(Units(f, r \cup {x})) = Cardinality(Units(f, r)) + f[x]
        <4> HIDE DEF r
        <4> QED
          BY <3>2, <3>3, <3>4, UnitsAdd
      <3>6. Cardinality(Units(f, r)) \in Nat
        BY <3>3, <3>4, UnitsFinite, FS_CardinalityType
      <3>7. count[s] = Cardinality(Units(f, s)) /\ count[r] = Cardinality(Units(f, r))
        BY <3>2
      <3>8. f[x] \in Nat
        BY <3>1
      <3> HIDE DEF count, r
      <3>9. count[s] = f[x] + count[r]
        <4>1. Units(f, s) = Units(f, r \cup {x})
          BY <3>2
        <4> QED
          BY <3>5, <3>6, <3>7, <3>8, <4>1
      <3> QED
        BY <2>2, <3>9 DEF x, r
    <2> QED
      BY <2>1, <2>2
  <1>3. count = [s \in SUBSET S |->
                   IF s = {} THEN 0 ELSE f[pick(s)] + count[s \ {pick(s)}]]
    BY <1>2
  <1>4. iter = [s \in SUBSET S |-> IF s = {} THEN 0 ELSE f[pick(s)] + iter[s \ {pick(s)}]]
    <2> HIDE DEF count
    <2> QED
      BY <1>3
  <1> HIDE DEF iter, count
  <1>5. \A s \in SUBSET S : iter[s] = count[s]
    <2> DEFINE R == StrictSubsetOrdering(S)
               T == {s \in SUBSET S : iter[s] # count[s]}
    <2> SUFFICES ASSUME T # {} PROVE FALSE
      OBVIOUS
    <2>1. IsWellFoundedOn(R, SUBSET S)
      BY FS_StrictSubsetOrderingWellFounded, FS_FiniteSubsetsOfFinite
    <2>2. PICK s \in T : \A t \in T : ~(<<t, s>> \in R)
      <3> HIDE DEF R
      <3>1. T \subseteq SUBSET S
        OBVIOUS
      <3> HIDE DEF T
      <3> QED
        BY <2>1, <3>1, WFMin
    <2>3. CASE s = {}
      BY <1>3, <1>4, <2>3
    <2>4. CASE s # {}
      <3> DEFINE r == s \ {pick(s)}
      <3>1. pick(s) \in s
        BY <2>4
      <3>2. r \in SUBSET S /\ <<r, s>> \in R
        BY <3>1 DEF StrictSubsetOrdering
      <3>3. iter[r] = count[r]
        BY <2>2, <3>2
      <3>4. iter[s] = f[pick(s)] + iter[r]
        BY <1>4, <2>4
      <3>5. count[s] = f[pick(s)] + count[r]
        BY <1>3, <2>4
      <3> QED
        BY <3>3, <3>4, <3>5
    <2> QED
      BY <2>3, <2>4
  <1> QED
    BY <1>1, <1>5 DEF count

-----------------------------------------------------------------------------
(* Sums *)

\* A sum of natural numbers is one.
LEMMA SumType ==
    ASSUME NEW S, IsFiniteSet(S), NEW f, \A x \in S : f[x] \in Nat
    PROVE  SumFunctionOnSet(f, S) \in Nat
  BY SumIsUnits, UnitsFinite, FS_CardinalityType

\* The empty sum.
LEMMA SumEmpty ==
    ASSUME NEW f
    PROVE  SumFunctionOnSet(f, {}) = 0
  <1>1. Units(f, {}) = {}
    BY DEF Units
  <1>2. IsFiniteSet({})
    BY FS_EmptySet
  <1>3. SumFunctionOnSet(f, {}) = Cardinality(Units(f, {}))
    BY <1>2, SumIsUnits
  <1> QED
    BY <1>1, <1>3, FS_EmptySet

\* Adding an element adds its term.
LEMMA SumAdd ==
    ASSUME NEW S, IsFiniteSet(S), NEW x, x \notin S, NEW f, \A y \in S \cup {x} : f[y] \in Nat
    PROVE  SumFunctionOnSet(f, S \cup {x}) = SumFunctionOnSet(f, S) + f[x]
  <1>1. IsFiniteSet(S \cup {x})
    BY FS_AddElement
  <1>2. SumFunctionOnSet(f, S \cup {x}) = Cardinality(Units(f, S \cup {x}))
    BY <1>1, SumIsUnits
  <1>3. SumFunctionOnSet(f, S) = Cardinality(Units(f, S))
    BY SumIsUnits
  <1> QED
    BY <1>2, <1>3, UnitsAdd

\* A sum with one term.
LEMMA SumOne ==
    ASSUME NEW f, NEW x, f[x] \in Nat
    PROVE  SumFunctionOnSet(f, {x}) = f[x]
  <1>1. SumFunctionOnSet(f, {} \cup {x}) = SumFunctionOnSet(f, {}) + f[x]
    BY FS_EmptySet, SumAdd
  <1> QED
    BY <1>1, SumEmpty

\* Taking an element out takes its term out.
LEMMA SumRemove ==
    ASSUME NEW S, IsFiniteSet(S), NEW x \in S, NEW f, \A y \in S : f[y] \in Nat
    PROVE  /\ SumFunctionOnSet(f, S) = SumFunctionOnSet(f, S \ {x}) + f[x]
           /\ SumFunctionOnSet(f, S \ {x}) \in Nat
  <1> DEFINE T == S \ {x}
  <1>1. IsFiniteSet(T) /\ x \notin T /\ S = T \cup {x} /\ \A y \in T \cup {x} : f[y] \in Nat
    BY FS_RemoveElement
  <1> HIDE DEF T
  <1>2. SumFunctionOnSet(f, T \cup {x}) = SumFunctionOnSet(f, T) + f[x]
    BY <1>1, SumAdd
  <1>3. SumFunctionOnSet(f, T) \in Nat
    BY <1>1, SumType
  <1> QED
    BY <1>1, <1>2, <1>3 DEF T

\* Sums of the same terms.
LEMMA SumSame ==
    ASSUME NEW S, IsFiniteSet(S), NEW f, NEW g,
           \A x \in S : f[x] \in Nat /\ f[x] = g[x]
    PROVE  SumFunctionOnSet(f, S) = SumFunctionOnSet(g, S)
  <1>1. Units(f, S) = Units(g, S)
    BY DEF Units
  <1>2. SumFunctionOnSet(f, S) = Cardinality(Units(f, S))
    BY SumIsUnits
  <1>3. SumFunctionOnSet(g, S) = Cardinality(Units(g, S))
    BY SumIsUnits
  <1> QED
    BY <1>1, <1>2, <1>3

\* One term more, of a function that agrees on the others.
LEMMA SumExtend ==
    ASSUME NEW S, IsFiniteSet(S), NEW x, x \notin S, NEW f, NEW g, g[x] \in Nat,
           \A y \in S : f[y] \in Nat /\ f[y] = g[y]
    PROVE  SumFunctionOnSet(g, S \cup {x}) = SumFunctionOnSet(f, S) + g[x]
  <1>1. SumFunctionOnSet(f, S) = SumFunctionOnSet(g, S)
    BY SumSame
  <1>2. \A y \in S \cup {x} : g[y] \in Nat
    OBVIOUS
  <1> QED
    BY <1>1, <1>2, SumAdd

\* One term changes, the others stay.
LEMMA SumChange ==
    ASSUME NEW S, IsFiniteSet(S), NEW x \in S, NEW f, NEW g,
           \A y \in S : f[y] \in Nat /\ g[y] \in Nat,
           \A y \in S \ {x} : f[y] = g[y]
    PROVE  SumFunctionOnSet(g, S) + f[x] = SumFunctionOnSet(f, S) + g[x]
  <1>1. /\ SumFunctionOnSet(f, S) = SumFunctionOnSet(f, S \ {x}) + f[x]
        /\ SumFunctionOnSet(f, S \ {x}) \in Nat
    BY SumRemove
  <1>2. SumFunctionOnSet(g, S) = SumFunctionOnSet(g, S \ {x}) + g[x]
    BY SumRemove
  <1>3. IsFiniteSet(S \ {x})
    BY FS_RemoveElement
  <1>4. SumFunctionOnSet(f, S \ {x}) = SumFunctionOnSet(g, S \ {x})
    <2> DEFINE T == S \ {x}
    <2>1. \A y \in T : f[y] \in Nat /\ f[y] = g[y]
      OBVIOUS
    <2> HIDE DEF T
    <2>2. SumFunctionOnSet(f, T) = SumFunctionOnSet(g, T)
      BY <1>3, <2>1, SumSame DEF T
    <2> QED
      BY <2>2 DEF T
  <1>5. f[x] \in Nat /\ g[x] \in Nat
    OBVIOUS
  <1> QED
    BY <1>1, <1>2, <1>4, <1>5

\* A sum of nothing but zeros.
LEMMA SumZero ==
    ASSUME NEW S, NEW f, \A x \in S : f[x] = 0, IsFiniteSet(S)
    PROVE  SumFunctionOnSet(f, S) = 0
  <1>1. Units(f, S) = {}
    <2>1. 1..0 = {}
      OBVIOUS
    <2>2. ASSUME NEW u \in Units(f, S) PROVE FALSE
      <3>1. PICK x \in S : u \in {x} \X (1..f[x])
        BY <2>2 DEF Units
      <3>2. u[2] \in 1..f[x] /\ f[x] = 0
        BY <3>1
      <3> QED
        BY <2>1, <3>2
    <2> QED
      BY <2>2
  <1>2. SumFunctionOnSet(f, S) = Cardinality(Units(f, S))
    BY SumIsUnits
  <1> QED
    BY <1>1, <1>2, FS_EmptySet

\* Terms that are zero can be left out.
LEMMA SumSupport ==
    ASSUME NEW S, IsFiniteSet(S), NEW T \in SUBSET S, NEW f,
           \A x \in S : f[x] \in Nat, \A x \in S \ T : f[x] = 0
    PROVE  SumFunctionOnSet(f, S) = SumFunctionOnSet(f, T)
  <1>1. Units(f, S) = Units(f, T)
    <2>1. Units(f, T) \subseteq Units(f, S)
      BY DEF Units
    <2>2. ASSUME NEW u \in Units(f, S) PROVE u \in Units(f, T)
      <3>1. PICK x \in S : u \in {x} \X (1..f[x])
        BY <2>2 DEF Units
      <3>2. CASE x \in T
        BY <3>1, <3>2 DEF Units
      <3>3. CASE x \notin T
        <4>1. u[2] \in 1..f[x] /\ f[x] = 0
          BY <3>1, <3>3
        <4> QED
          BY <4>1
      <3> QED
        BY <3>2, <3>3
    <2> QED
      BY <2>1, <2>2
  <1>2. SumFunctionOnSet(f, S) = Cardinality(Units(f, S))
    BY SumIsUnits
  <1>3. IsFiniteSet(T) /\ \A x \in T : f[x] \in Nat
    BY FS_Subset
  <1>4. SumFunctionOnSet(f, T) = Cardinality(Units(f, T))
    BY <1>3, SumIsUnits
  <1> QED
    BY <1>1, <1>2, <1>4

\* More and larger terms make no smaller a sum.
LEMMA SumMonotonic ==
    ASSUME NEW S, IsFiniteSet(S), NEW T \in SUBSET S, NEW f, NEW g,
           \A x \in S : g[x] \in Nat,
           \A x \in T : f[x] \in Nat /\ f[x] <= g[x]
    PROVE  SumFunctionOnSet(f, T) <= SumFunctionOnSet(g, S)
  <1>1. IsFiniteSet(T)
    BY FS_Subset
  <1>2. SumFunctionOnSet(f, T) = Cardinality(Units(f, T))
    BY <1>1, SumIsUnits
  <1>3. SumFunctionOnSet(g, S) = Cardinality(Units(g, S))
    BY SumIsUnits
  <1>4. ASSUME NEW x \in T PROVE {x} \X (1..f[x]) \subseteq {x} \X (1..g[x])
    <2>1. 1..f[x] \subseteq 1..g[x]
      BY <1>4
    <2> QED
      BY <2>1
  <1>5. Units(f, T) \in SUBSET Units(g, S)
    BY <1>4 DEF Units
  <1>6. IsFiniteSet(Units(g, S))
    BY UnitsFinite
  <1> QED
    BY <1>2, <1>3, <1>5, <1>6, FS_Subset
=============================================================================
