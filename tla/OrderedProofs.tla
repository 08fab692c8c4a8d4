---------------------------- MODULE OrderedProofs ----------------------------
(***************************************************************************)
(* A finite set with a strict total order has a sequence in order, and the *)
(* sequence leaves nothing out.                                            *)
(***************************************************************************)
EXTENDS Ordered, Integers, Sequences, FiniteSetTheorems, TLAPS

\* The pairs of a strict total order on a set.
Orders(R, S) ==
  /\ \A x \in S : <<x, x>> \notin R
  /\ \A x, y, z \in S : <<x, y>> \in R /\ <<y, z>> \in R => <<x, z>> \in R
  /\ \A x, y \in S : x = y \/ <<x, y>> \in R \/ <<y, x>> \in R

Lists(s, R, S) ==
  /\ s \in [1 .. Cardinality(S) -> S]
  /\ \A m, n \in DOMAIN s : m < n => <<s[m], s[n]>> \in R

\* The place of an element is one more than the number of those before it.
LEMMA Ranks ==
  ASSUME NEW S, IsFiniteSet(S), NEW R, Orders(R, S)
  PROVE  \E rank \in [S -> 1 .. Cardinality(S)] :
           \A x, y \in S : <<x, y>> \in R => rank[x] < rank[y]
<1> DEFINE Before(x) == {y \in S : <<y, x>> \in R}
           rank == [x \in S |-> Cardinality(Before(x)) + 1]
<1>1. ASSUME NEW x \in S
      PROVE  IsFiniteSet(Before(x)) /\ Cardinality(Before(x)) \in Nat
  <2>1. Before(x) \in SUBSET S  OBVIOUS
  <2> QED  BY <2>1, FS_Subset, FS_CardinalityType
<1>2. ASSUME NEW x \in S, NEW y \in S, <<x, y>> \in R
      PROVE  Cardinality(Before(x)) < Cardinality(Before(y))
  <2>1. Before(x) \in SUBSET Before(y)  BY <1>2 DEF Orders
  <2>2. x \in Before(y) /\ x \notin Before(x)  BY <1>2 DEF Orders
  <2>3. Before(x) # Before(y)  BY <2>2
  <2> HIDE DEF Before
  <2>4. Cardinality(Before(x)) <= Cardinality(Before(y)) /\ Cardinality(Before(x)) # Cardinality(Before(y))
    BY <1>1, <2>1, <2>3, FS_Subset
  <2> QED  BY <1>1, <2>4
<1>3. ASSUME NEW x \in S  PROVE  Cardinality(Before(x)) + 1 \in 1 .. Cardinality(S)
  <2>1. Before(x) \in SUBSET S /\ x \notin Before(x)  BY DEF Orders
  <2>2. Before(x) # S  BY <2>1
  <2> HIDE DEF Before
  <2>3. Cardinality(Before(x)) <= Cardinality(S) /\ Cardinality(Before(x)) # Cardinality(S)
    BY <2>1, <2>2, FS_Subset
  <2>4. Cardinality(S) \in Nat  BY FS_CardinalityType
  <2> QED  BY <1>1, <2>3, <2>4
<1> HIDE DEF Before
<1>4. rank \in [S -> 1 .. Cardinality(S)]  BY <1>3
<1>5. ASSUME NEW x \in S, NEW y \in S, <<x, y>> \in R  PROVE rank[x] < rank[y]
  BY <1>1, <1>2, <1>5
<1> HIDE DEF rank
<1> QED  BY <1>4, <1>5

\* A finite set with a total order has a list in that order.
LEMMA HasList ==
  ASSUME NEW S, IsFiniteSet(S), NEW R, Orders(R, S)
  PROVE  \E s : Lists(s, R, S)
<1> DEFINE N == Cardinality(S)
<1>1. PICK rank \in [S -> 1 .. N] : \A x, y \in S : <<x, y>> \in R => rank[x] < rank[y]
  BY Ranks
<1>2. N \in Nat  BY FS_CardinalityType
<1>3. IsFiniteSet(1 .. N) /\ Cardinality(1 .. N) = N
  BY <1>2, FS_Interval
<1>4. \A x, y \in S : rank[x] = rank[y] => x = y
  <2> SUFFICES ASSUME NEW x \in S, NEW y \in S, x # y  PROVE rank[x] # rank[y]
    OBVIOUS
  <2>1. <<x, y>> \in R \/ <<y, x>> \in R  BY DEF Orders
  <2>2. rank[x] < rank[y] \/ rank[y] < rank[x]  BY <1>1, <2>1
  <2>3. rank[x] \in 1 .. N /\ rank[y] \in 1 .. N  BY <1>1
  <2> QED  BY <1>2, <2>2, <2>3
<1>5. rank \in Injection(S, 1 .. N)  BY <1>1, <1>4 DEF Injection, IsInjective
<1>6. rank \in Surjection(S, 1 .. N)  BY <1>3, <1>5, FS_Injection
<1>7. \A n \in 1 .. N : \E x \in S : rank[x] = n  BY <1>6 DEF Surjection
<1> DEFINE s == [n \in 1 .. N |-> CHOOSE x \in S : rank[x] = n]
<1>8. \A n \in 1 .. N : s[n] \in S /\ rank[s[n]] = n  BY <1>7
<1>9. s \in [1 .. N -> S] /\ DOMAIN s = 1 .. N  BY <1>7
<1> HIDE DEF s
<1>10. ASSUME NEW m \in 1 .. N, NEW n \in 1 .. N, m < n  PROVE <<s[m], s[n]>> \in R
  <2>1. s[m] # s[n]  BY <1>2, <1>8, <1>10
  <2>2. <<s[m], s[n]>> \in R \/ <<s[n], s[m]>> \in R  BY <1>8, <2>1 DEF Orders
  <2>3. ASSUME <<s[n], s[m]>> \in R  PROVE FALSE
    <3>1. rank[s[n]] < rank[s[m]]  BY <1>1, <1>8, <2>3
    <3> QED  BY <1>2, <1>8, <1>10, <3>1
  <2> QED  BY <2>2, <2>3
<1> QED  BY <1>9, <1>10 DEF Lists

\* A list of as many different elements as the set has holds all of them.
LEMMA ListIsOnto ==
  ASSUME NEW S, IsFiniteSet(S), NEW R, Orders(R, S), NEW s, Lists(s, R, S)
  PROVE  \A x \in S : \E n \in DOMAIN s : s[n] = x
<1> DEFINE N == Cardinality(S)
<1>2. N \in Nat  BY FS_CardinalityType
<1>3. IsFiniteSet(1 .. N) /\ Cardinality(1 .. N) = N
  BY <1>2, FS_Interval
<1>4. s \in [1 .. N -> S] /\ DOMAIN s = 1 .. N  BY DEF Lists
<1>5. ASSUME NEW m \in 1 .. N, NEW n \in 1 .. N, m # n  PROVE s[m] # s[n]
  <2>1. m < n \/ n < m  BY <1>2, <1>5
  <2>2. <<s[m], s[n]>> \in R \/ <<s[n], s[m]>> \in R  BY <1>4, <2>1 DEF Lists
  <2> QED  BY <1>4, <2>2 DEF Orders
<1>6. s \in Injection(1 .. N, S)  BY <1>4, <1>5 DEF Injection, IsInjective
<1>7. s \in Surjection(1 .. N, S)  BY <1>3, <1>6, FS_Injection
<1> QED  BY <1>4, <1>7 DEF Surjection

\* Which list is meant does not matter.
LEMMA InOrderLists ==
  ASSUME NEW S, IsFiniteSet(S), NEW R, Orders(R, S)
  PROVE  /\ Lists(InOrder(S, R), R, S)
         /\ Cardinality(S) \in Nat
         /\ \A x \in S : \E n \in 1 .. Cardinality(S) : InOrder(S, R)[n] = x
<1> DEFINE s == InOrder(S, R)
<1>1. Lists(s, R, S)  BY HasList DEF InOrder, Lists
<1>2. DOMAIN s = 1 .. Cardinality(S)  BY <1>1 DEF Lists
<1> HIDE DEF s
<1>3. \A x \in S : \E n \in DOMAIN s : s[n] = x  BY <1>1, ListIsOnto
<1>4. Cardinality(S) \in Nat  BY FS_CardinalityType
<1> QED  BY <1>1, <1>2, <1>3, <1>4 DEF s

\* Numbers.
LEMMA AscendingLists ==
  ASSUME NEW S, IsFiniteSet(S), S \subseteq Int
  PROVE  /\ Ascending(S) \in [1 .. Cardinality(S) -> S]
         /\ Cardinality(S) \in Nat
         /\ Ascending(S) \in Seq(S) /\ Len(Ascending(S)) = Cardinality(S)
         /\ \A m, n \in 1 .. Cardinality(S) : m < n => Ascending(S)[m] < Ascending(S)[n]
         /\ \A x \in S : \E n \in 1 .. Cardinality(S) : Ascending(S)[n] = x
<1> DEFINE R == LessThan(S)
           s == InOrder(S, R)
<1>1. Orders(R, S)  BY DEF Orders, LessThan
<1>2. \A x, y \in S : <<x, y>> \in R <=> x < y  BY DEF LessThan
<1> HIDE DEF R
<1>3. /\ Lists(s, R, S) /\ Cardinality(S) \in Nat
      /\ \A x \in S : \E n \in 1 .. Cardinality(S) : s[n] = x
  BY <1>1, InOrderLists
<1> HIDE DEF s
<1>4. s \in [1 .. Cardinality(S) -> S] /\ DOMAIN s = 1 .. Cardinality(S)  BY <1>3 DEF Lists
<1>5. \A m, n \in 1 .. Cardinality(S) : m < n => s[m] < s[n]  BY <1>2, <1>3, <1>4 DEF Lists
<1>6. s \in Seq(S) /\ Len(s) = Cardinality(S)  BY <1>3, <1>4
<1>7. s = Ascending(S)  BY DEF Ascending, s, R
<1> QED  BY <1>3, <1>4, <1>5, <1>6, <1>7

\* A set of numbers that is not empty has a least one.
LEMMA Least ==
  ASSUME NEW T, T \subseteq Nat, T # {}
  PROVE  \E n \in T : \A m \in T : n <= m
<1>1. PICK n \in T : \A m \in T : ~(<<m, n>> \in OpToRel(<, Nat))
  BY WFMin, NatLessThanWellFounded, Zenon
<1>2. \A m \in T : ~(m < n)  BY <1>1, Zenon DEF OpToRel
<1> QED  BY <1>2

\* The sequence of the N numbers of a set, from the least.
Climbs(s, N, S) ==
  /\ s \in [1 .. N -> S]
  /\ \A m, n \in 1 .. N : m < n => s[m] < s[n]
  /\ \A x \in S : \E n \in 1 .. N : s[n] = x

\* A set has one list: at the first place where two differed, each would
\* have an element that the other has only later.
LEMMA OneList ==
  ASSUME NEW N \in Nat, NEW S, S \subseteq Int,
         NEW s, NEW t, Climbs(s, N, S), Climbs(t, N, S)
  PROVE  s = t
<1> USE DEF Climbs
<1> DEFINE T == {n \in 1 .. N : s[n] # t[n]}
<1>1. SUFFICES ASSUME T # {}  PROVE FALSE
  OBVIOUS
<1>2. PICK n \in T : \A m \in T : n <= m
  <2>1. T \subseteq Nat /\ T # {}  BY <1>1
  <2> HIDE DEF T
  <2> QED  BY <2>1, Least
<1>3. n \in 1 .. N /\ s[n] # t[n] /\ s[n] \in Int /\ t[n] \in Int  OBVIOUS
<1>4. \A m \in 1 .. N : m < n => s[m] = t[m]  BY <1>2
<1>5. PICK m \in 1 .. N : t[m] = s[n]  BY <1>3
<1>6. PICK k \in 1 .. N : s[k] = t[n]  BY <1>3
<1>7. n < m
  <2>1. CASE m < n
    <3>1. s[m] = s[n] /\ s[m] < s[n]  BY <1>3, <1>4, <1>5, <2>1
    <3> QED  BY <3>1, <1>3
  <2> QED  BY <2>1, <1>3, <1>5
<1>8. n < k
  <2>1. CASE k < n
    <3>1. t[k] = t[n] /\ t[k] < t[n]  BY <1>3, <1>4, <1>6, <2>1
    <3> QED  BY <3>1, <1>3
  <2> QED  BY <2>1, <1>3, <1>6
<1>9. t[n] < s[n] /\ s[n] < t[n]  BY <1>3, <1>5, <1>6, <1>7, <1>8
<1> QED  BY <1>3, <1>9

\* An element greater than all the others is added at the end of the list.
LEMMA AscendingGrows ==
  ASSUME NEW S, IsFiniteSet(S), S \subseteq Int, NEW x \in Int, \A y \in S : y < x
  PROVE  LET N == Cardinality(S) IN
         /\ Cardinality(S \cup {x}) = N + 1
         /\ Ascending(S \cup {x})[N + 1] = x
         /\ \A n \in 1 .. N : Ascending(S \cup {x})[n] = Ascending(S)[n]
<1> DEFINE N == Cardinality(S)
           U == S \cup {x}
           s == Ascending(U)
           t == [n \in 1 .. N + 1 |-> IF n = N + 1 THEN x ELSE Ascending(S)[n]]
<1>1. IsFiniteSet(U) /\ Cardinality(U) = N + 1 /\ U \subseteq Int  BY FS_AddElement
<1>2. /\ s \in [1 .. N + 1 -> U]
      /\ \A m, n \in 1 .. N + 1 : m < n => s[m] < s[n]
      /\ \A y \in U : \E n \in 1 .. N + 1 : s[n] = y
  <2> HIDE DEF U
  <2> QED  BY <1>1, AscendingLists
<1>3. /\ N \in Nat
      /\ Ascending(S) \in [1 .. N -> S]
      /\ \A m, n \in 1 .. N : m < n => Ascending(S)[m] < Ascending(S)[n]
      /\ \A y \in S : \E n \in 1 .. N : Ascending(S)[n] = y
  BY AscendingLists
<1> HIDE DEF N, s
<1>4. t \in [1 .. N + 1 -> U]  BY <1>3
<1>5. \A m, n \in 1 .. N + 1 : m < n => t[m] < t[n]
  <2> TAKE m, n \in 1 .. N + 1
  <2> HAVE m < n
  <2>1. m \in 1 .. N /\ t[m] = Ascending(S)[m] /\ t[m] \in S  BY <1>3
  <2>2. CASE n = N + 1
    <3>1. t[n] = x  BY <2>2
    <3> QED  BY <2>1, <3>1
  <2>3. CASE n \in 1 .. N
    <3>1. t[n] = Ascending(S)[n]  BY <1>3, <2>3
    <3> QED  BY <1>3, <2>1, <2>3, <3>1
  <2> QED  BY <1>3, <2>2, <2>3
<1>6. \A y \in U : \E n \in 1 .. N + 1 : t[n] = y
  <2> TAKE y \in U
  <2>1. CASE y = x
    <3>1. t[N + 1] = x /\ N + 1 \in 1 .. N + 1  BY <1>3
    <3> QED  BY <2>1, <3>1
  <2>2. CASE y \in S
    <3>1. PICK n \in 1 .. N : Ascending(S)[n] = y  BY <1>3, <2>2
    <3>2. t[n] = y /\ n \in 1 .. N + 1  BY <1>3, <3>1
    <3> QED  BY <3>2
  <2> QED  BY <2>1, <2>2
<1> HIDE DEF U, t
<1>7. s = t
  <2> DEFINE M == N + 1
  <2>1. M \in Nat /\ U \subseteq Int /\ Climbs(s, M, U) /\ Climbs(t, M, U)
    BY <1>1, <1>2, <1>3, <1>4, <1>5, <1>6 DEF Climbs
  <2> HIDE DEF M
  <2> QED  BY <2>1, OneList
<1>8. t[N + 1] = x /\ \A n \in 1 .. N : t[n] = Ascending(S)[n]  BY <1>3 DEF t
<1>9. s[N + 1] = x /\ \A n \in 1 .. N : s[n] = Ascending(S)[n]  BY <1>7, <1>8
<1> QED  BY <1>1, <1>9 DEF s, N, U
=============================================================================
