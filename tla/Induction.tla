------------------------------ MODULE Induction ------------------------------
(***************************************************************************)
(* Induction and recursion for sets and functions, as the proofs about     *)
(* linked structures need them.  What a library theorem states with an     *)
(* operator parameter is stated here with a set or a function.             *)
(***************************************************************************)
EXTENDS Integers, FiniteSetTheorems, NaturalsInduction, TLAPS

\* A set of numbers has a least one.
LEMMA LeastNat ==
  ASSUME NEW T \in SUBSET Nat, T # {}
  PROVE  \E m \in T : \A i \in T : m <= i
<1> DEFINE R == {ss \in Nat \X Nat : ss[1] < ss[2]}
<1>1. IsWellFoundedOn(R, Nat)
  BY NatLessThanWellFounded DEF OpToRel
<1> HIDE DEF R
<1>2. PICK m \in T : \A i \in T : ~ (<<i, m>> \in R)
  BY <1>1, WFMin
<1>3. \A i \in T : ~(i < m)
  BY <1>2 DEF R
<1> QED
  BY <1>3

\* A set that has an element whenever it has all those of lower rank is the
\* whole set.
LEMMA ByRank ==
  ASSUME NEW S, NEW rank \in [S -> Nat], NEW G,
         \A x \in S : (\A y \in S : rank[y] < rank[x] => y \in G) => x \in G
  PROVE  \A x \in S : x \in G
<1> SUFFICES ASSUME NEW x \in S, x \notin G PROVE FALSE
  OBVIOUS
<1> DEFINE T == {rank[y] : y \in S \ G}
<1>1. T \in SUBSET Nat /\ T # {}
  OBVIOUS
<1>2. PICK m \in T : \A i \in T : m <= i
  BY <1>1, LeastNat
<1>3. PICK y \in S \ G : rank[y] = m
  BY <1>2
<1>4. ASSUME NEW z \in S, rank[z] < rank[y], z \notin G PROVE FALSE
  <2>1. m <= rank[z] /\ rank[z] \in Nat /\ rank[y] \in Nat
    BY <1>2, <1>4
  <2> QED  BY <1>3, <1>4, <2>1
<1> QED  BY <1>3, <1>4

\* g is the sequence of the rows a, f[a], f[f[a]], ... as far as n.
RowsOf(A, a, f, n, g) ==
  /\ g \in [0 .. n -> A]
  /\ \A k \in 0 .. n : g[k] = IF k = 0 THEN a ELSE f[g[k - 1]]

\* A function can be applied any number of times.
LEMMA Iterates ==
  ASSUME NEW A, NEW a \in A, NEW f \in [A -> A], NEW n \in Nat
  PROVE  \E g : RowsOf(A, a, f, n, g)
<1> DEFINE Upto(g, k) == /\ g \in [Nat -> A] /\ g[0] = a
                         /\ \A j \in Nat : j < k => g[j + 1] = f[g[j]]
           G == {k \in Nat : \E g : Upto(g, k)}
           rank == [k \in Nat |-> k]
<1>1. \A k \in Nat : k \in G
  <2>1. ASSUME NEW k \in Nat, \A j \in Nat : j < k => j \in G PROVE k \in G
    <3>1. CASE k = 0
      <4>1. Upto([j \in Nat |-> a], 0)
        OBVIOUS
      <4> QED  BY <3>1, <4>1
    <3>2. CASE k # 0
      <4>1. k - 1 \in Nat /\ k - 1 < k
        BY <3>2
      <4>2. PICK g : Upto(g, k - 1)
        BY <2>1, <4>1
      <4> DEFINE e == [j \in Nat |-> IF j = k THEN f[g[k - 1]] ELSE g[j]]
      <4>3. e \in [Nat -> A]
        BY <4>1, <4>2
      <4>4. e[0] = a
        BY <3>2, <4>2
      <4>5. ASSUME NEW j \in Nat, j < k PROVE e[j + 1] = f[e[j]]
        <5>1. e[j] = g[j]
          BY <4>5
        <5>2. CASE j = k - 1
          BY <5>1, <5>2
        <5>3. CASE j < k - 1
          BY <4>2, <5>1, <5>3
        <5> QED  BY <4>5, <5>2, <5>3
      <4>6. Upto(e, k)
        BY <4>3, <4>4, <4>5
      <4> QED  BY <4>6
    <3> QED  BY <3>1, <3>2
  <2> HIDE DEF G
  <2>2. rank \in [Nat -> Nat] /\ \A x, y \in Nat : rank[y] < rank[x] <=> y < x
    OBVIOUS
  <2> HIDE DEF rank
  <2> QED  BY <2>1, <2>2, ByRank
<1>2. PICK e : Upto(e, n)
  BY <1>1
<1> DEFINE g == [k \in 0 .. n |-> e[k]]
<1>3. g \in [0 .. n -> A]
  BY <1>2
<1>4. ASSUME NEW k \in 0 .. n PROVE g[k] = IF k = 0 THEN a ELSE f[g[k - 1]]
  <2>1. CASE k = 0
    BY <1>2, <2>1
  <2>2. CASE k # 0
    <3>1. k - 1 \in Nat /\ k - 1 < n /\ (k - 1) + 1 = k /\ k - 1 \in 0 .. n
      BY <2>2
    <3>2. e[k] = f[e[k - 1]]
      BY <1>2, <3>1
    <3> QED  BY <2>2, <3>1, <3>2
  <2> QED  BY <2>1, <2>2
<1> HIDE DEF g
<1>5. RowsOf(A, a, f, n, g)
  BY <1>3, <1>4 DEF RowsOf
<1> QED  BY <1>5

\* A function that hands its argument on along next until there is none is
\* well defined when next goes down in rank.
LEMMA TailRecursion ==
  ASSUME NEW S, NEW none, none \notin S, NEW next \in [S -> S \cup {none}],
         NEW n \in Nat, NEW rank \in [S -> 0 .. n], NEW val,
         \A x \in S : next[x] # none => rank[next[x]] < rank[x]
  PROVE  \E g : g = [x \in S |-> IF next[x] = none THEN val[x] ELSE g[next[x]]]
<1> DEFINE Eq(g, x) == g[x] = IF next[x] = none THEN val[x] ELSE g[next[x]]
           Upto(g, k) == g = [x \in S |-> g[x]] /\ \A x \in S : rank[x] < k => Eq(g, x)
           G == {k \in Nat : \E g : Upto(g, k)}
           id == [k \in Nat |-> k]
<1>1. ASSUME NEW k \in Nat, \A j \in Nat : j < k => j \in G PROVE k \in G
  <2>1. CASE k = 0
    <3>1. Upto([x \in S |-> 0], 0)
      OBVIOUS
    <3> QED  BY <2>1, <3>1
  <2>2. CASE k # 0
    <3>1. k - 1 \in Nat /\ k - 1 < k
      BY <2>2
    <3>2. PICK g : Upto(g, k - 1)
      BY <1>1, <3>1
    <3> DEFINE e == [x \in S |-> IF next[x] = none THEN val[x] ELSE g[next[x]]]
    <3>3. \A x \in S : rank[x] < k - 1 => e[x] = g[x]
      BY <3>2
    <3>4. ASSUME NEW x \in S, rank[x] < k PROVE Eq(e, x)
      <4>1. CASE next[x] = none
        BY <4>1
      <4>2. CASE next[x] # none
        <5>1. next[x] \in S /\ rank[next[x]] < k - 1
          BY <3>4, <4>2
        <5> QED  BY <3>3, <4>2, <5>1
      <4> QED  BY <4>1, <4>2
    <3>5. Upto(e, k)
      BY <3>4
    <3> QED  BY <3>5
  <2> QED  BY <2>1, <2>2
<1> HIDE DEF G
<1>2. id \in [Nat -> Nat] /\ \A x, y \in Nat : id[y] < id[x] <=> y < x
  OBVIOUS
<1> HIDE DEF id
<1>3. \A k \in Nat : k \in G
  BY <1>1, <1>2, ByRank
<1>4. PICK g : Upto(g, n + 1)
  <2>1. n + 1 \in G
    BY <1>3
  <2> HIDE DEF Upto
  <2> QED  BY <2>1 DEF G
<1>5. \A x \in S : Eq(g, x)
  <2>1. \A x \in S : rank[x] < n + 1
    OBVIOUS
  <2>2. \A x \in S : rank[x] < n + 1 => Eq(g, x)
    BY <1>4
  <2> QED  BY <2>1, <2>2
<1>6. g = [x \in S |-> IF next[x] = none THEN val[x] ELSE g[next[x]]]
  <2>1. g = [x \in S |-> g[x]]
    BY <1>4
  <2> QED  BY <1>5, <2>1, Zenon
<1> QED  BY <1>6

\* A finite set of integers has a least and a greatest element.
LEMMA FiniteEnds ==
  ASSUME NEW S \in SUBSET Int, IsFiniteSet(S), S # {}
  PROVE  /\ \E m \in S : \A x \in S : m <= x
         /\ \E m \in S : \A x \in S : m >= x
<1> DEFINE P == SUBSET S
           Ends(U) == /\ \E m \in U : \A x \in U : m <= x
                      /\ \E m \in U : \A x \in U : m >= x
           G == {U \in P : U # {} => Ends(U)}
           rank == [U \in P |-> Cardinality(U)]
<1>1. \A U \in P : IsFiniteSet(U) /\ Cardinality(U) \in Nat
  BY FS_Subset, FS_CardinalityType
<1>2. rank \in [P -> Nat]
  BY <1>1
<1>3. ASSUME NEW U \in P, \A V \in P : rank[V] < rank[U] => V \in G PROVE U \in G
  <2> SUFFICES ASSUME NEW y \in U PROVE Ends(U)
    OBVIOUS
  <2> DEFINE V == U \ {y}
  <2>1. V \in P /\ Cardinality(V) < Cardinality(U)
    BY <1>1, FS_RemoveElement
  <2>2. V # {} => Ends(V)
    BY <1>3, <2>1
  <2>3. CASE V = {}
    BY <2>3
  <2>4. CASE V # {}
    <3>1. PICK l \in V : \A x \in V : l <= x
      BY <2>2, <2>4
    <3>2. PICK r \in V : \A x \in V : r >= x
      BY <2>2, <2>4
    <3>3. \E m \in U : \A x \in U : m <= x
      <4>1. CASE y <= l
        BY <3>1, <4>1
      <4>2. CASE l <= y
        BY <3>1, <4>2
      <4> QED  BY <4>1, <4>2
    <3>4. \E m \in U : \A x \in U : m >= x
      <4>1. CASE y <= r
        BY <3>2, <4>1
      <4>2. CASE r <= y
        BY <3>2, <4>2
      <4> QED  BY <4>1, <4>2
    <3> QED  BY <3>3, <3>4
  <2> QED  BY <2>3, <2>4
<1> HIDE DEF G, rank, P
<1>4. \A U \in P : U \in G
  BY <1>2, <1>3, ByRank
<1> QED  BY <1>4 DEF G, P
==============================================================================
