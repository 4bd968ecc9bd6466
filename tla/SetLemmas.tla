------------------------------ MODULE SetLemmas ------------------------------
(***************************************************************************)
(* Facts about finite sets of numbers, sequences and counting that the     *)
(* proofs of several components rest on.  They speak of no component.      *)
(***************************************************************************)
EXTENDS Integers, Sequences, FiniteSetsExt, TLAPS, FiniteSetTheorems, SequenceTheorems

\* The maximum of a nonempty finite set of integers, which the module
\* FiniteSetsExt defines with CHOOSE, is in the set and bounds it.
LEMMA MaxOfFinite ==
  ASSUME NEW S \in SUBSET Int, IsFiniteSet(S), S # {}
  PROVE  Max(S) \in S /\ \A y \in S : y <= Max(S)
<1> DEFINE HasMax(T) == \E x \in T : \A y \in T : x >= y
           Bad == {T \in SUBSET S : T # {} /\ ~HasMax(T)}
           R   == StrictSubsetOrdering(S)
<1>1. IsWellFoundedOn(R, SUBSET S)
  BY FS_StrictSubsetOrderingWellFounded, FS_FiniteSubsetsOfFinite
<1>2. Bad = {}
  <2> SUFFICES ASSUME Bad # {} PROVE FALSE
    OBVIOUS
  <2>1. PICK T \in Bad : \A U \in Bad : ~(<<U, T>> \in R)
    <3> HIDE DEF R
    <3>1. Bad \subseteq SUBSET S
      OBVIOUS
    <3> HIDE DEF Bad
    <3> QED BY <1>1, <3>1, WFMin
  <2>2. PICK x \in T : TRUE
    OBVIOUS
  <2> DEFINE U == {y \in T : y > x}
  <2>3. U # {}
    OBVIOUS
  <2>4. ~HasMax(U)
    OBVIOUS
  <2>5. U \in Bad
    BY <2>3, <2>4
  <2>6. <<U, T>> \in R
    <3>1. U \subseteq T /\ x \notin U
      OBVIOUS
    <3>2. U \in SUBSET S /\ T \in SUBSET S
      OBVIOUS
    <3> HIDE DEF U
    <3> QED BY <2>2, <3>1, <3>2 DEF StrictSubsetOrdering
  <2> QED BY <2>1, <2>5, <2>6
<1>3. HasMax(S)
  BY <1>2
<1> QED BY <1>3 DEF Max

\* The same of the minimum, for natural numbers and without finiteness: the
\* numbers up to any member are finitely many.
LEMMA MinOfNaturals ==
  ASSUME NEW S \in SUBSET Nat, S # {}
  PROVE  Min(S) \in S /\ \A y \in S : Min(S) <= y
<1>1. PICK n \in S : TRUE
  OBVIOUS
<1> DEFINE Below == {y \in S : y <= n}
           Mirror == {-y : y \in Below}
<1>2. n \in Nat /\ -n \in Int
  OBVIOUS
<1>3. IsFiniteSet((-n)..0) /\ Mirror \in SUBSET ((-n)..0)
  <2>1. IsFiniteSet((-n)..0)
    BY <1>2, FS_Interval
  <2>2. \A y \in Below : -y \in (-n)..0
    BY <1>2
  <2> QED BY <2>1, <2>2
<1>4. IsFiniteSet(Mirror) /\ Mirror \in SUBSET Int /\ Mirror # {}
  <2>1. Mirror \in SUBSET Int
    OBVIOUS
  <2>2. n \in Below
    BY <1>2
  <2>3. -n \in Mirror
    BY <2>2
  <2> HIDE DEF Mirror
  <2> QED BY <1>3, <2>1, <2>3, FS_Subset
<1>5. PICK m \in Mirror : \A y \in Mirror : y <= m
  <2> HIDE DEF Mirror
  <2> QED BY <1>4, MaxOfFinite
<1>6. PICK x \in Below : m = -x
  BY <1>5
<1>7. \A y \in Below : x <= y
  BY <1>5, <1>6
<1>8. \A y \in S : x <= y
  BY <1>6, <1>7
<1> QED BY <1>6, <1>8 DEF Min

\* The members of a finite set of numbers with fewer than n others below them
\* are at most n: a LIMIT n over an ORDER BY returns at most n rows.
LEMMA LimitBounds ==
  ASSUME NEW S \in SUBSET Int, IsFiniteSet(S), NEW n \in Nat
  PROVE  Cardinality({i \in S : Cardinality({j \in S : j < i}) < n}) <= n
<1> DEFINE Below(i) == {j \in S : j < i}
           T == {i \in S : Cardinality(Below(i)) < n}
<1>1. IsFiniteSet(T) /\ T \in SUBSET Int
  BY FS_Subset
<1>2. CASE T = {}
  <2>1. Cardinality(T) = 0
    BY <1>2, FS_EmptySet
  <2> HIDE DEF T
  <2>2. Cardinality(T) <= n
    BY <2>1
  <2> QED BY <2>2 DEF T
<1>3. CASE T # {}
  <2>1. PICK m \in T : \A y \in T : y <= m
    <3> HIDE DEF T
    <3> QED BY <1>1, <1>3, MaxOfFinite
  <2>2. IsFiniteSet(Below(m)) /\ Cardinality(Below(m)) \in Nat
    <3>1. Below(m) \in SUBSET S
      OBVIOUS
    <3> HIDE DEF Below
    <3> QED BY <3>1, FS_Subset, FS_CardinalityType
  <2>3. T \ {m} \in SUBSET Below(m)
    <3>1. \A y \in T \ {m} : y \in S /\ y <= m /\ y \in Int /\ m \in Int
      BY <2>1
    <3>2. \A y \in T \ {m} : y < m
      BY <3>1
    <3> QED BY <3>1, <3>2
  <2>4. Cardinality(Below(m)) < n
    BY <2>1
  <2>5. Cardinality(T) \in Nat /\ Cardinality(T \ {m}) = Cardinality(T) - 1
    <3> HIDE DEF T
    <3> QED BY <1>1, <2>1, FS_RemoveElement, FS_CardinalityType
  <2>6. Cardinality(T \ {m}) <= Cardinality(Below(m))
    <3> HIDE DEF T, Below
    <3> QED BY <2>2, <2>3, FS_Subset
  <2>7. Cardinality(T) <= n
    <3> HIDE DEF T, Below
    <3> QED BY <2>2, <2>4, <2>5, <2>6
  <2> QED BY <2>7
<1> QED BY <1>2, <1>3

\* A column of a finite table has finitely many values.
LEMMA FiniteColumn ==
  ASSUME NEW D, IsFiniteSet(D), NEW g \in [D -> Int]
  PROVE  IsFiniteSet({g[i] : i \in D})
<1>1. g \in Surjection(D, {g[i] : i \in D})
  BY DEF Surjection
<1> QED BY <1>1, FS_Surjection

\* One of finitely many has the greatest value.
LEMMA GreatestValue ==
  ASSUME NEW D, IsFiniteSet(D), D # {}, NEW g \in [D -> Int]
  PROVE  \E i \in D : \A j \in D : g[j] <= g[i]
<1> DEFINE V == {g[i] : i \in D}
<1>1. IsFiniteSet(V) /\ V \in SUBSET Int /\ V # {}
  BY FiniteColumn
<1>2. PICK m \in V : \A v \in V : v <= m
  <2> HIDE DEF V
  <2> QED BY <1>1, MaxOfFinite
<1> QED BY <1>2

\* A function on the first n numbers is a sequence of length n.
LEMMA FunctionIsSeq ==
  ASSUME NEW T, NEW n \in Nat, NEW f \in [1..n -> T]
  PROVE  f \in Seq(T) /\ Len(f) = n
<1> DEFINE g == [i \in 1..n |-> f[i]]
<1>1. g \in Seq(T)
  <2> DEFINE e(i) == f[i]
  <2>1. \A i \in 1..n : e(i) \in T
    OBVIOUS
  <2>2. [i \in 1..n |-> e(i)] \in Seq(T)
    <3> HIDE DEF e
    <3> QED BY <2>1, IsASeq
  <2> QED BY <2>2
<1>2. f = g
  OBVIOUS
<1> HIDE DEF g
<1>3. f \in Seq(T)
  BY <1>1, <1>2
<1>4. Len(f) \in Nat /\ DOMAIN f = 1..Len(f) /\ DOMAIN f = 1..n
  BY <1>3, LenProperties
<1>5. 1..Len(f) = 1..n
  BY <1>4
<1>6. ASSUME NEW k \in Nat PROVE Cardinality(1..k) = k
  <2>1. Cardinality(1..k) = IF 1 > k THEN 0 ELSE k - 1 + 1
    BY FS_Interval
  <2> QED BY <2>1
<1>7. Cardinality(1..n) = n /\ Cardinality(1..Len(f)) = Len(f)
  BY <1>4, <1>6
<1> QED BY <1>3, <1>5, <1>7

\* A sequence has finitely many places.
LEMMA FinitePlaces ==
  ASSUME NEW T, NEW s \in Seq(T)
  PROVE  /\ Len(s) \in Nat
         /\ DOMAIN s = 1..Len(s)
         /\ \A i \in DOMAIN s : i \in Nat \ {0} /\ s[i] \in T
         /\ IsFiniteSet(DOMAIN s) /\ DOMAIN s \in SUBSET Nat
<1>1. Len(s) \in Nat /\ DOMAIN s = 1..Len(s) /\ s \in [1..Len(s) -> T]
  BY LenProperties
<1>2. IsFiniteSet(1..Len(s))
  BY <1>1, FS_Interval
<1> QED BY <1>1, <1>2

=============================================================================
