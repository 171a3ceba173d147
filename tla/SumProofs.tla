----------------------------- MODULE SumProofs -----------------------------
(***************************************************************************)
(* Facts about sums over finite sets, for the modules that prove something *)
(* about MapThenSumSet.  A summand is a function f, so that the facts need *)
(* no operator parameter; induction is over a set of natural numbers, or   *)
(* of finite sets, in place of a predicate.                                *)
(***************************************************************************)
EXTENDS Integers, FiniteSetsExt, FiniteSetTheorems, WellFoundedInduction, TLAPS

-----------------------------------------------------------------------------
(***************************************************************************)
(* Induction.                                                              *)
(***************************************************************************)

LEMMA LeastNatural ==
  ASSUME NEW T \in SUBSET Nat, T # {}
  PROVE  \E m \in T : \A k \in T : m <= k
<1>1. PICK m \in T : \A k \in T : ~ (<<k, m>> \in OpToRel(<, Nat))
  BY WFMin, NatLessThanWellFounded
<1>2. \A k \in T : ~ (k < m)
  BY <1>1 DEF OpToRel
<1> QED
  BY <1>2

LEMMA Induction ==
  ASSUME NEW P \in SUBSET Nat, 0 \in P, \A n \in P : n + 1 \in P
  PROVE  \A n \in Nat : n \in P
<1> SUFFICES ASSUME NEW n \in Nat, n \notin P PROVE FALSE
  OBVIOUS
<1>1. PICK m \in Nat \ P : \A k \in Nat \ P : m <= k
  BY LeastNatural
<1>2. m # 0 /\ m - 1 \in Nat
  BY <1>1
<1>3. m - 1 \in P
  BY <1>1, <1>2
<1>4. (m - 1) + 1 \in P
  BY <1>3
<1> QED
  BY <1>1, <1>4

LEMMA GreatestBelow ==
  ASSUME NEW n \in Nat, NEW T \in SUBSET (0 .. n), T # {}
  PROVE  \E m \in T : \A k \in T : k <= m
<1> DEFINE R == {n - k : k \in T}
<1>1. R \in SUBSET Nat /\ R # {}
  <2>1. \A k \in T : k \in Nat /\ k <= n /\ n - k \in Nat
    OBVIOUS
  <2>2. PICK k \in T : TRUE
    OBVIOUS
  <2> QED
    BY <2>1, <2>2
<1>2. PICK r \in R : \A k \in R : r <= k
  BY <1>1, LeastNatural
<1>3. PICK m \in T : r = n - m
  OBVIOUS
<1>4. ASSUME NEW k \in T PROVE k <= m
  <2>1. n - k \in R
    OBVIOUS
  <2>2. r <= n - k
    BY <1>2, <2>1
  <2> HIDE DEF R
  <2> QED
    BY <1>3, <2>2
<1> QED
  BY <1>4

\* What holds of the empty set, and of a set with one element more, holds of S.
LEMMA SetInduction ==
  ASSUME NEW S, IsFiniteSet(S), NEW P, {} \in P,
         \A T \in SUBSET S : T \in P => \A x \in S \ T : T \cup {x} \in P
  PROVE  S \in P
<1> DEFINE N == {n \in Nat : \A T \in SUBSET S : Cardinality(T) = n => T \in P}
<1>1. 0 \in N
  <2>1. ASSUME NEW T \in SUBSET S, Cardinality(T) = 0 PROVE T \in P
    BY <2>1, FS_Subset, FS_EmptySet
  <2> QED
    BY <2>1
<1>2. ASSUME NEW n \in N PROVE n + 1 \in N
  <2>1. ASSUME NEW T \in SUBSET S, Cardinality(T) = n + 1 PROVE T \in P
    <3>1. IsFiniteSet(T)
      BY FS_Subset
    <3>2. T # {}
      BY <2>1, FS_EmptySet
    <3>3. PICK x \in T : TRUE
      BY <3>2
    <3>4. IsFiniteSet(T \ {x}) /\ Cardinality(T \ {x}) = n
      <4>1. IsFiniteSet(T \ {x}) /\ Cardinality(T \ {x}) = Cardinality(T) - 1
        BY <3>1, FS_RemoveElement
      <4> QED
        BY <2>1, <4>1
    <3>5. T \ {x} \in P
      BY <3>4
    <3>6. (T \ {x}) \cup {x} \in P /\ (T \ {x}) \cup {x} = T
      BY <3>5
    <3> QED
      BY <3>6
  <2> QED
    BY <2>1
<1>3. Cardinality(S) \in N
  <2> HIDE DEF N
  <2>1. N \in SUBSET Nat
    BY DEF N
  <2>2. Cardinality(S) \in Nat
    BY FS_CardinalityType
  <2> QED
    BY <1>1, <1>2, <2>1, <2>2, Induction
<1> QED
  BY <1>3

-----------------------------------------------------------------------------
(***************************************************************************)
(* Sums.                                                                   *)
(***************************************************************************)

\* The sum of f over a finite subset of its domain.
Sum(f, S) == MapThenSumSet(LAMBDA x : f[x], S)

\* The element that a sum over S takes first.
Pick(S) == CHOOSE x \in S : TRUE

\* g is the table of the sums of f over the subsets of S.
SumTable(f, S, g) ==
  g = [T \in SUBSET S |-> IF T = {} THEN 0 ELSE f[Pick(T)] + g[T \ {Pick(T)}]]

LEMMA SumTableExists ==
  ASSUME NEW S, IsFiniteSet(S), NEW f
  PROVE  \E g : SumTable(f, S, g)
<1> DEFINE Row(g, T) == IF T = {} THEN 0 ELSE f[Pick(T)] + g[T \ {Pick(T)}]
           Upto(n, g) == \A T \in SUBSET S : Cardinality(T) <= n => g[T] = Row(g, T)
           N == {n \in Nat : \E g : Upto(n, g)}
<1>f. ASSUME NEW T \in SUBSET S
      PROVE  IsFiniteSet(T) /\ Cardinality(T) \in Nat /\ Cardinality(T) <= Cardinality(S)
             /\ (Cardinality(T) = 0 => T = {})
  BY FS_Subset, FS_EmptySet, FS_CardinalityType
<1>1. 0 \in N
  <2>1. Upto(0, [T \in SUBSET S |-> 0])
    BY <1>f
  <2> QED
    BY <2>1
<1>2. ASSUME NEW n \in N PROVE n + 1 \in N
  <2>1. PICK g : Upto(n, g)
    OBVIOUS
  <2> DEFINE h == [T \in SUBSET S |-> Row(g, T)]
  <2>2. ASSUME NEW T \in SUBSET S, Cardinality(T) <= n + 1 PROVE h[T] = Row(h, T)
    <3>1. CASE T = {}
      BY <3>1
    <3>2. CASE T # {}
      <4> DEFINE U == T \ {Pick(T)}
      <4>1. Pick(T) \in T
        BY <3>2 DEF Pick
      <4>2. IsFiniteSet(U) /\ Cardinality(U) = Cardinality(T) - 1
        BY <1>f, <4>1, FS_RemoveElement
      <4>3. U \in SUBSET S /\ Cardinality(U) <= n
        BY <1>f, <2>2, <4>2
      <4>4. g[U] = Row(g, U)
        BY <2>1, <4>3
      <4>5. h[U] = Row(g, U)
        BY <4>3
      <4> QED
        BY <3>2, <4>4, <4>5
    <3> QED
      BY <3>1, <3>2
  <2>3. Upto(n + 1, h)
    BY <2>2
  <2> HIDE DEF Upto
  <2> QED
    BY <2>3
<1>3. Cardinality(S) \in N
  <2> HIDE DEF N
  <2>1. N \in SUBSET Nat
    BY DEF N
  <2>2. Cardinality(S) \in Nat
    BY FS_CardinalityType
  <2> QED
    BY <1>1, <1>2, <2>1, <2>2, Induction
<1>4. PICK g : Upto(Cardinality(S), g)
  BY <1>3
<1> DEFINE h == [T \in SUBSET S |-> g[T]]
<1>5. ASSUME NEW T \in SUBSET S PROVE h[T] = Row(h, T)
  <2>1. g[T] = Row(g, T)
    BY <1>4, <1>f
  <2>2. T # {} => Pick(T) \in T
    BY DEF Pick
  <2> QED
    BY <2>1, <2>2
<1>6. h = [T \in SUBSET S |-> Row(h, T)]
  BY <1>5
<1> QED
  BY <1>6 DEF SumTable

\* A table of sums is used for the sets of another: what the functions agree on.
LEMMA SumTablesAgree ==
  ASSUME NEW S, IsFiniteSet(S), NEW f, NEW g, SumTable(f, S, g),
         NEW R, NEW d, NEW h, SumTable(d, R, h),
         NEW T \in SUBSET S, T \in SUBSET R, \A x \in T : f[x] = d[x]
  PROVE  g[T] = h[T]
<1> DEFINE N == {n \in Nat : \A U \in SUBSET T : Cardinality(U) = n => g[U] = h[U]}
<1>f. ASSUME NEW U \in SUBSET T
      PROVE  IsFiniteSet(U) /\ Cardinality(U) \in Nat /\ (Cardinality(U) = 0 => U = {})
  BY FS_Subset, FS_EmptySet, FS_CardinalityType
<1>1. 0 \in N
  <2>1. ASSUME NEW U \in SUBSET T, Cardinality(U) = 0 PROVE g[U] = h[U]
    BY <1>f, <2>1 DEF SumTable
  <2> QED
    BY <2>1
<1>2. ASSUME NEW n \in N PROVE n + 1 \in N
  <2>1. ASSUME NEW U \in SUBSET T, Cardinality(U) = n + 1 PROVE g[U] = h[U]
    <3>1. U # {}
      BY <2>1, FS_EmptySet
    <3>2. Pick(U) \in U
      BY <3>1 DEF Pick
    <3> DEFINE V == U \ {Pick(U)}
    <3>3. Cardinality(V) = Cardinality(U) - 1
      BY <1>f, <3>2, FS_RemoveElement
    <3>4. V \in SUBSET T /\ Cardinality(V) = n
      BY <2>1, <3>3
    <3>5. g[V] = h[V]
      BY <3>4
    <3>6. g[U] = f[Pick(U)] + g[V]
      BY <3>1 DEF SumTable
    <3>7. h[U] = d[Pick(U)] + h[V]
      BY <3>1 DEF SumTable
    <3> QED
      BY <3>2, <3>5, <3>6, <3>7
  <2> QED
    BY <2>1
<1>3. Cardinality(T) \in N
  <2> HIDE DEF N
  <2>1. N \in SUBSET Nat
    BY DEF N
  <2>2. Cardinality(T) \in Nat
    BY <1>f
  <2> QED
    BY <1>1, <1>2, <2>1, <2>2, Induction
<1> QED
  BY <1>3

\* Any table gives the sum.
LEMMA SumFrom ==
  ASSUME NEW S, IsFiniteSet(S), NEW f, NEW g, SumTable(f, S, g)
  PROVE  g[S] = Sum(f, S)
<1> DEFINE Table(h) ==
      h = [s \in SUBSET S |-> IF s = {} THEN 0
                              ELSE f[CHOOSE x \in s : TRUE] + h[s \ {CHOOSE x \in s : TRUE}]]
<1>1. Table(g)
  BY DEF SumTable, Pick
<1>2. Table(CHOOSE h : Table(h))
  BY <1>1
<1>3. Sum(f, S) = (CHOOSE h : Table(h))[S]
  BY DEF Sum, MapThenSumSet, MapThenFoldSet
<1>4. \A h : Table(h) => SumTable(f, S, h)
  BY DEF SumTable, Pick
<1> HIDE DEF Table
<1>5. SumTable(f, S, CHOOSE h : Table(h))
  BY <1>2, <1>4
<1>6. g[S] = (CHOOSE h : Table(h))[S]
  BY <1>5, SumTablesAgree
<1> QED
  BY <1>3, <1>6

LEMMA SumOfNone == ASSUME NEW f PROVE Sum(f, {}) = 0
<1>1. PICK g : SumTable(f, {}, g)
  BY SumTableExists, FS_EmptySet
<1>2. g[{}] = Sum(f, {})
  BY <1>1, SumFrom, FS_EmptySet
<1> QED
  BY <1>1, <1>2 DEF SumTable

LEMMA SumOfFirst ==
  ASSUME NEW S, IsFiniteSet(S), S # {}, NEW f
  PROVE  Sum(f, S) = f[Pick(S)] + Sum(f, S \ {Pick(S)})
<1> DEFINE R == S \ {Pick(S)}
<1>1. PICK g : SumTable(f, S, g)
  BY SumTableExists
<1>2. IsFiniteSet(R) /\ R \in SUBSET S
  BY FS_Subset
<1>3. PICK h : SumTable(f, R, h)
  BY <1>2, SumTableExists
<1>4. g[S] = Sum(f, S) /\ h[R] = Sum(f, R)
  BY <1>1, <1>2, <1>3, SumFrom
<1>5. g[R] = h[R]
  BY <1>1, <1>2, <1>3, SumTablesAgree
<1>6. g[S] = f[Pick(S)] + g[R]
  BY <1>1 DEF SumTable
<1> QED
  BY <1>4, <1>5, <1>6

LEMMA SumsEqual ==
  ASSUME NEW S, IsFiniteSet(S), NEW f, NEW d, \A x \in S : f[x] = d[x]
  PROVE  Sum(f, S) = Sum(d, S)
<1>1. PICK g : SumTable(f, S, g)
  BY SumTableExists
<1>2. PICK h : SumTable(d, S, h)
  BY SumTableExists
<1>3. g[S] = h[S]
  BY <1>1, <1>2, SumTablesAgree
<1> QED
  BY <1>1, <1>2, <1>3, SumFrom

\* The induction that the facts below share: what holds of {} and is kept by one more.
LEMMA SumType ==
  ASSUME NEW S, IsFiniteSet(S), NEW f, \A x \in S : f[x] \in Int
  PROVE  Sum(f, S) \in Int
<1> DEFINE N == {n \in Nat : \A U \in SUBSET S : Cardinality(U) = n => Sum(f, U) \in Int}
<1>f. ASSUME NEW U \in SUBSET S
      PROVE  IsFiniteSet(U) /\ Cardinality(U) \in Nat /\ (Cardinality(U) = 0 => U = {})
  BY FS_Subset, FS_EmptySet, FS_CardinalityType
<1>1. 0 \in N
  <2>1. ASSUME NEW U \in SUBSET S, Cardinality(U) = 0 PROVE Sum(f, U) \in Int
    BY <1>f, <2>1, SumOfNone
  <2> QED
    BY <2>1
<1>2. ASSUME NEW n \in N PROVE n + 1 \in N
  <2>1. ASSUME NEW U \in SUBSET S, Cardinality(U) = n + 1 PROVE Sum(f, U) \in Int
    <3>1. U # {}
      BY <2>1, FS_EmptySet
    <3>2. Pick(U) \in U
      BY <3>1 DEF Pick
    <3> DEFINE V == U \ {Pick(U)}
    <3>3. Cardinality(V) = Cardinality(U) - 1
      BY <1>f, <3>2, FS_RemoveElement
    <3>4. V \in SUBSET S /\ Cardinality(V) = n
      BY <2>1, <3>3
    <3>5. Sum(f, V) \in Int
      BY <3>4
    <3>6. Sum(f, U) = f[Pick(U)] + Sum(f, V)
      BY <1>f, <3>1, SumOfFirst
    <3>7. f[Pick(U)] \in Int
      BY <3>2
    <3> QED
      BY <3>5, <3>6, <3>7
  <2> QED
    BY <2>1
<1>3. Cardinality(S) \in N
  <2> HIDE DEF N
  <2>1. N \in SUBSET Nat
    BY DEF N
  <2>2. Cardinality(S) \in Nat
    BY FS_CardinalityType
  <2> QED
    BY <1>1, <1>2, <2>1, <2>2, Induction
<1> QED
  BY <1>3

\* Any element may be taken first.
LEMMA SumRemove ==
  ASSUME NEW S, IsFiniteSet(S), NEW f, \A x \in S : f[x] \in Int, NEW a \in S
  PROVE  Sum(f, S) = f[a] + Sum(f, S \ {a})
<1> DEFINE Any(U) == \A b \in U : Sum(f, U) = f[b] + Sum(f, U \ {b})
           N == {n \in Nat : \A U \in SUBSET S : Cardinality(U) = n => Any(U)}
<1>f. ASSUME NEW U \in SUBSET S
      PROVE  IsFiniteSet(U) /\ Cardinality(U) \in Nat /\ (Cardinality(U) = 0 => U = {})
             /\ Sum(f, U) \in Int
  BY FS_Subset, FS_EmptySet, FS_CardinalityType, SumType
<1>1. 0 \in N
  <2>1. ASSUME NEW U \in SUBSET S, Cardinality(U) = 0 PROVE Any(U)
    BY <1>f, <2>1
  <2> QED
    BY <2>1
<1>2. ASSUME NEW n \in N PROVE n + 1 \in N
  <2>1. ASSUME NEW U \in SUBSET S, Cardinality(U) = n + 1, NEW b \in U
        PROVE  Sum(f, U) = f[b] + Sum(f, U \ {b})
    <3> DEFINE c == Pick(U)
    <3>1. c \in U
      BY DEF Pick
    <3>2. Sum(f, U) = f[c] + Sum(f, U \ {c})
      BY <1>f, SumOfFirst
    <3> HIDE DEF c
    <3>3. CASE b = c
      BY <3>2, <3>3
    <3>4. CASE b # c
      <4>1. Cardinality(U \ {c}) = Cardinality(U) - 1 /\ Cardinality(U \ {b}) = Cardinality(U) - 1
        BY <1>f, <3>1, FS_RemoveElement
      <4>2. Cardinality(U \ {c}) = n /\ Cardinality(U \ {b}) = n
        BY <2>1, <4>1
      <4>3. b \in U \ {c} /\ c \in U \ {b}
        BY <3>1, <3>4
      <4>4. Sum(f, U \ {c}) = f[b] + Sum(f, (U \ {c}) \ {b})
        BY <4>2, <4>3
      <4>5. Sum(f, U \ {b}) = f[c] + Sum(f, (U \ {b}) \ {c})
        BY <4>2, <4>3
      <4>6. (U \ {c}) \ {b} = (U \ {b}) \ {c}
        OBVIOUS
      <4> DEFINE rest == Sum(f, (U \ {b}) \ {c})
      <4>7. Sum(f, U \ {c}) = f[b] + rest /\ Sum(f, U \ {b}) = f[c] + rest
        BY <4>4, <4>5, <4>6
      <4>8. f[b] \in Int /\ f[c] \in Int /\ rest \in Int
        BY <1>f, <3>1
      <4> HIDE DEF rest
      <4> QED
        BY <3>2, <4>7, <4>8
    <3> QED
      BY <3>3, <3>4
  <2> QED
    BY <2>1
<1>3. Cardinality(S) \in N
  <2> HIDE DEF N
  <2>1. N \in SUBSET Nat
    BY DEF N
  <2>2. Cardinality(S) \in Nat
    BY FS_CardinalityType
  <2> QED
    BY <1>1, <1>2, <2>1, <2>2, Induction
<1> QED
  BY <1>3

LEMMA SumAdd ==
  ASSUME NEW S, IsFiniteSet(S), NEW a, a \notin S, NEW f, \A x \in S \cup {a} : f[x] \in Int
  PROVE  Sum(f, S \cup {a}) = f[a] + Sum(f, S)
<1>1. IsFiniteSet(S \cup {a})
  BY FS_AddElement
<1>2. (S \cup {a}) \ {a} = S
  OBVIOUS
<1> QED
  BY <1>1, <1>2, SumRemove

LEMMA SumOfOne == ASSUME NEW a, NEW f, f[a] \in Int PROVE Sum(f, {a}) = f[a]
<1>1. Sum(f, {} \cup {a}) = f[a] + Sum(f, {})
  BY SumAdd, FS_EmptySet
<1> QED
  BY <1>1, SumOfNone

\* Order and union: the rest follows by adding one element at a time.
LEMMA SumUnion ==
  ASSUME NEW S, IsFiniteSet(S), NEW R, IsFiniteSet(R), S \cap R = {},
         NEW f, \A x \in S \cup R : f[x] \in Int
  PROVE  Sum(f, S \cup R) = Sum(f, S) + Sum(f, R)
<1> DEFINE P == {T \in SUBSET R : Sum(f, S \cup T) = Sum(f, S) + Sum(f, T)}
<1>t. Sum(f, S) \in Int
  BY SumType
<1>1. {} \in P
  <2>1. S \cup {} = S
    OBVIOUS
  <2> QED
    BY <1>t, <2>1, SumOfNone
<1>2. ASSUME NEW T \in SUBSET R, T \in P, NEW x \in R \ T PROVE T \cup {x} \in P
  <2>1. IsFiniteSet(T) /\ IsFiniteSet(S \cup T)
    BY FS_Subset, FS_Union
  <2>2. Sum(f, T \cup {x}) = f[x] + Sum(f, T)
    BY <2>1, SumAdd
  <2>3. Sum(f, (S \cup T) \cup {x}) = f[x] + Sum(f, S \cup T)
    BY <2>1, SumAdd
  <2>4. (S \cup T) \cup {x} = S \cup (T \cup {x})
    OBVIOUS
  <2>5. f[x] \in Int /\ Sum(f, T) \in Int
    BY <2>1, SumType
  <2>6. Sum(f, S \cup T) = Sum(f, S) + Sum(f, T)
    BY <1>2
  <2>7. Sum(f, S \cup (T \cup {x})) = f[x] + (Sum(f, S) + Sum(f, T))
    BY <2>3, <2>4, <2>6
  <2>8. Sum(f, S) + Sum(f, T \cup {x}) = f[x] + (Sum(f, S) + Sum(f, T))
    BY <1>t, <2>2, <2>5
  <2> QED
    BY <2>7, <2>8
<1>3. R \in P
  <2> HIDE DEF P
  <2> QED
    BY <1>1, <1>2, SetInduction
<1> QED
  BY <1>3

LEMMA SumOrdered ==
  ASSUME NEW S, IsFiniteSet(S), NEW f, NEW d,
         \A x \in S : f[x] \in Int /\ d[x] \in Int /\ f[x] <= d[x]
  PROVE  Sum(f, S) <= Sum(d, S)
<1> DEFINE P == {T \in SUBSET S : Sum(f, T) <= Sum(d, T)}
<1>1. {} \in P
  BY SumOfNone
<1>2. ASSUME NEW T \in SUBSET S, T \in P, NEW x \in S \ T PROVE T \cup {x} \in P
  <2>1. IsFiniteSet(T)
    BY FS_Subset
  <2>2. Sum(f, T \cup {x}) = f[x] + Sum(f, T) /\ Sum(d, T \cup {x}) = d[x] + Sum(d, T)
    BY <2>1, SumAdd
  <2>3. Sum(f, T) \in Int /\ Sum(d, T) \in Int
    BY <2>1, SumType
  <2> QED
    BY <1>2, <2>2, <2>3
<1>3. S \in P
  <2> HIDE DEF P
  <2> QED
    BY <1>1, <1>2, SetInduction
<1> QED
  BY <1>3

LEMMA SumOfZeros ==
  ASSUME NEW S, IsFiniteSet(S), NEW f, \A x \in S : f[x] = 0
  PROVE  Sum(f, S) = 0
<1> DEFINE P == {T \in SUBSET S : Sum(f, T) = 0}
<1>1. {} \in P
  BY SumOfNone
<1>2. ASSUME NEW T \in SUBSET S, T \in P, NEW x \in S \ T PROVE T \cup {x} \in P
  <2>1. IsFiniteSet(T) /\ \A y \in T \cup {x} : f[y] \in Int
    BY FS_Subset
  <2>2. Sum(f, T \cup {x}) = f[x] + Sum(f, T)
    BY <2>1, SumAdd
  <2> QED
    BY <1>2, <2>2
<1>3. S \in P
  <2> HIDE DEF P
  <2> QED
    BY <1>1, <1>2, SetInduction
<1> QED
  BY <1>3

LEMMA SumNat ==
  ASSUME NEW S, IsFiniteSet(S), NEW f, \A x \in S : f[x] \in Nat
  PROVE  Sum(f, S) \in Nat
<1> DEFINE zero == [x \in S |-> 0]
<1>1. Sum(zero, S) = 0
  BY SumOfZeros
<1>2. Sum(zero, S) <= Sum(f, S)
  BY SumOrdered
<1> QED
  BY <1>1, <1>2, SumType

\* A part of a sum of natural numbers.
LEMMA SumPart ==
  ASSUME NEW S, IsFiniteSet(S), NEW f, \A x \in S : f[x] \in Nat, NEW R \in SUBSET S
  PROVE  Sum(f, R) <= Sum(f, S)
<1>1. IsFiniteSet(R) /\ IsFiniteSet(S \ R)
  BY FS_Subset
<1>2. R \cup (S \ R) = S /\ R \cap (S \ R) = {}
  OBVIOUS
<1>3. Sum(f, S) = Sum(f, R) + Sum(f, S \ R)
  BY <1>1, <1>2, SumUnion
<1>4. Sum(f, R) \in Nat /\ Sum(f, S \ R) \in Nat
  BY <1>1, SumNat
<1> QED
  BY <1>3, <1>4

-----------------------------------------------------------------------------
(***************************************************************************)
(* Squares.                                                                *)
(***************************************************************************)

LEMMA SquareNat == ASSUME NEW x \in Int PROVE x * x \in Nat
  OBVIOUS

LEMMA CauchyStep ==
  ASSUME NEW m \in Nat, NEW s \in Int, NEW q \in Nat, NEW v \in Int,
         s * s <= m * q, m = 0 => q = 0
  PROVE  (v + s) * (v + s) <= (m + 1) * (v * v + q)
<1> DEFINE y == q + m * (v * v) - 2 * (s * v)
<1>1. (m + 1) * (v * v + q) - (v + s) * (v + s) = (m * q - s * s) + y
  OBVIOUS
<1>2. y >= 0
  <2>1. CASE m = 0
    <3>1. q = 0 /\ s * s <= 0
      BY <2>1
    <3>2. s = 0
      BY <3>1
    <3> QED
      BY <2>1, <3>1, <3>2
  <2>2. CASE m > 0
    <3>1. m * y = (m * q - s * s) + (s - m * v) * (s - m * v)
      OBVIOUS
    <3>2. (s - m * v) * (s - m * v) >= 0
      BY SquareNat
    <3>3. m * y >= 0
      BY <3>1, <3>2
    <3>4. y \in Int
      OBVIOUS
    <3> HIDE DEF y
    <3> QED
      BY <2>2, <3>3, <3>4
  <2> QED
    BY <2>1, <2>2
<1>3. y \in Int
  OBVIOUS
<1> HIDE DEF y
<1> QED
  BY <1>1, <1>2, <1>3

\* The square of a sum against the sum of the squares.
LEMMA Cauchy ==
  ASSUME NEW S, IsFiniteSet(S), NEW f, NEW q,
         \A x \in S : f[x] \in Int /\ q[x] = f[x] * f[x]
  PROVE  Sum(f, S) * Sum(f, S) <= Cardinality(S) * Sum(q, S)
<1> DEFINE P == {T \in SUBSET S : Sum(f, T) * Sum(f, T) <= Cardinality(T) * Sum(q, T)}
<1>q. \A x \in S : q[x] \in Nat
  BY SquareNat
<1>1. {} \in P
  BY SumOfNone, FS_EmptySet
<1>2. ASSUME NEW T \in SUBSET S, T \in P, NEW x \in S \ T PROVE T \cup {x} \in P
  <2> DEFINE m == Cardinality(T)
             s == Sum(f, T)
             r == Sum(q, T)
             v == f[x]
  <2>1. IsFiniteSet(T)
    BY FS_Subset
  <2>2. Cardinality(T \cup {x}) = m + 1
    BY <2>1, FS_AddElement
  <2>3. Sum(f, T \cup {x}) = v + s
    BY <2>1, SumAdd
  <2>4. \A y \in T \cup {x} : q[y] \in Int
    BY <1>q
  <2>5. Sum(q, T \cup {x}) = v * v + r
    BY <2>1, <2>4, SumAdd
  <2>6. v \in Int /\ m \in Nat /\ s \in Int /\ r \in Nat
    BY <1>q, <2>1, FS_CardinalityType, SumType, SumNat
  <2>7. m = 0 => r = 0
    BY <2>1, FS_EmptySet, SumOfNone
  <2>8. s * s <= m * r
    BY <1>2
  <2> HIDE DEF m, s, r, v
  <2>9. (v + s) * (v + s) <= (m + 1) * (v * v + r)
    BY <2>6, <2>7, <2>8, CauchyStep
  <2>10. Sum(f, T \cup {x}) * Sum(f, T \cup {x})
           <= Cardinality(T \cup {x}) * Sum(q, T \cup {x})
    BY <2>2, <2>3, <2>5, <2>9
  <2> QED
    BY <2>10
<1>3. S \in P
  <2> HIDE DEF P
  <2> QED
    BY <1>1, <1>2, SetInduction
<1> QED
  BY <1>3

LEMMA Identity ==
  ASSUME NEW m \in Nat, NEW s \in Int, NEW q \in Nat, NEW x \in Int
  PROVE  m * ((m + 1) * (q + x * x) - (s + x) * (s + x))
           = ((m + 1) * x - (s + x)) * ((m + 1) * x - (s + x)) + (m + 1) * (m * q - s * s)
OBVIOUS

\* One of n numbers is at most (n - 1) / sqrt(n) of their sample deviations from their
\* mean: further than three takes eleven of them.
LEMMA Outlier ==
  ASSUME NEW n \in Nat, n >= 1, NEW s \in Int, NEW q \in Nat, NEW x \in Int,
         s * s <= (n - 1) * q,
         n * (q + x * x) > (s + x) * (s + x),
         (n * x - (s + x)) * (n * x - (s + x)) * (n - 1)
           > 9 * n * (n * (q + x * x) - (s + x) * (s + x))
  PROVE  n >= 11
<1> DEFINE m == n - 1
           w == n * (q + x * x) - (s + x) * (s + x)
           z == (n * x - (s + x)) * (n * x - (s + x))
<1>1. m \in Nat /\ n = m + 1
  OBVIOUS
<1>2. m * w = z + n * (m * q - s * s)
  BY <1>1, Identity
<1>3. n * (m * q - s * s) >= 0
  <2> DEFINE e == m * q - s * s
  <2>1. e \in Int /\ e >= 0
    OBVIOUS
  <2> HIDE DEF e
  <2> QED
    BY <2>1
<1>4. w \in Int /\ w > 0 /\ z \in Int /\ z * m > 9 * n * w
  OBVIOUS
<1>5. m * w >= z
  <2> DEFINE e == n * (m * q - s * s)
  <2>1. e \in Int
    OBVIOUS
  <2> HIDE DEF e, w, z, m
  <2> QED
    BY <1>1, <1>2, <1>3, <1>4, <2>1 DEF e
<1> HIDE DEF m, w, z
<1>6. (m * w) * m >= z * m
  BY <1>1, <1>4, <1>5
<1>7. (m * m) * w > (9 * n) * w
  BY <1>1, <1>4, <1>6
<1>8. m * m > 9 * n
  BY <1>1, <1>4, <1>7
<1>9. m >= 10
  BY <1>1, <1>8
<1> QED
  BY <1>1, <1>9
=============================================================================
