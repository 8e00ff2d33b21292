----------------------- MODULE DeliveryPlanningProofs -----------------------
(***************************************************************************)
(* What the server's planner computes, for every finite set of keys, every *)
(* schema, selection and positions, and every size of pages and units: the *)
(* four properties of DeliveryPlanning, and the contract StreamStore rests *)
(* on.  The argument follows a delivery on its way: the candidates of a    *)
(* range, their components in the order of their first cursors, the page   *)
(* that whole components fill, its units, and the units packed together.   *)
(***************************************************************************)
EXTENDS DeliveryPlanning, FunctionTheorems, FiniteSetTheorems, SequenceTheorems,
        WellFoundedInduction, TLAPS

----------------------------------------------------------------------------
(***************************************************************************)
(* Least and greatest numbers.                                             *)
(***************************************************************************)

\* A set of numbers that is not empty has a least one.
LEMMA LeastNatural ==
    ASSUME NEW T, T \subseteq Nat, T # {}
    PROVE  \E m \in T : \A k \in T : m <= k
<1> DEFINE Below == {ss \in Nat \X Nat : ss[1] < ss[2]}
<1>1. IsWellFoundedOn(Below, Nat)
  BY NatLessThanWellFounded DEF OpToRel
<1>2. PICK m \in T : \A k \in T : <<k, m>> \notin Below
  <2> HIDE DEF Below
  <2> QED
    BY <1>1, WFMin
<1>3. ASSUME NEW k \in T PROVE m <= k
  <2>1. /\ m \in Nat /\ k \in Nat
        /\ <<k, m>> \in Nat \X Nat /\ <<k, m>>[1] = k /\ <<k, m>>[2] = m
    OBVIOUS
  <2>2. ~(k < m)
    BY <1>2, <2>1
  <2> QED
    BY <2>1, <2>2
<1> QED
  BY <1>3

\* Min of a set of naturals.
LEMMA MinIsLeast ==
    ASSUME NEW S, S \subseteq Nat, S # {}
    PROVE  Min(S) \in S /\ \A x \in S : Min(S) <= x
<1>1. PICK m \in S : \A x \in S : m <= x
  BY LeastNatural
<1>2. \E m1 \in S : \A y \in S : m1 =< y
  BY <1>1
<1> QED BY <1>2 DEF Min

\* Min of two integers.
LEMMA MinOfTwo ==
    ASSUME NEW a \in Int, NEW b \in Int
    PROVE  Min({a, b}) = IF a <= b THEN a ELSE b
<1> DEFINE m == IF a <= b THEN a ELSE b
<1>1. m \in {a, b} /\ \A y \in {a, b} : m =< y
  OBVIOUS
<1>2. Min({a, b}) \in {a, b} /\ \A y \in {a, b} : Min({a, b}) =< y
  BY <1>1 DEF Min
<1> QED BY <1>2

\* Max of a bounded set of integers.
LEMMA MaxIsGreatest ==
    ASSUME NEW S, S \subseteq Int, S # {}, NEW n \in Int, \A x \in S : x <= n
    PROVE  Max(S) \in S /\ \A x \in S : x <= Max(S)
<1> DEFINE T == {m \in Nat : n - m \in S}
<1>1. T # {} /\ T \subseteq Nat
  <2>1. PICK x \in S : TRUE
    OBVIOUS
  <2>2. n - x \in Nat /\ n - (n - x) = x
    BY <2>1
  <2> QED BY <2>1, <2>2
<1>2. PICK m \in T : \A k \in T : m <= k
  <2> HIDE DEF T
  <2> QED BY <1>1, LeastNatural
<1>3. n - m \in S /\ m \in Nat
  OBVIOUS
<1>4. ASSUME NEW y \in S PROVE n - m >= y
  <2>1. n - y \in Nat /\ n - (n - y) = y
    OBVIOUS
  <2>2. n - y \in T
    BY <2>1
  <2>3. m <= n - y
    BY <2>2, <1>2
  <2> QED BY <2>3, <1>3
<1>5. \E x \in S : \A y \in S : x >= y
  BY <1>3, <1>4
<1>6. Max(S) \in S /\ \A y \in S : Max(S) >= y
  BY <1>5 DEF Max
<1> QED BY <1>6

\* The first cursor of a set of records.
LEMMA FirstIsLeast ==
    ASSUME NEW ks, ks \subseteq Keys, ks # {}, NEW at0 \in [Keys -> Nat]
    PROVE  /\ First(ks, at0) \in Nat
           /\ \E k \in ks : at0[k] = First(ks, at0)
           /\ \A k \in ks : First(ks, at0) <= at0[k]
<1>1. Cursors(ks, at0) \subseteq Nat /\ Cursors(ks, at0) # {}
  BY DEF Cursors
<1>2. /\ First(ks, at0) \in Cursors(ks, at0)
      /\ \A x \in Cursors(ks, at0) : First(ks, at0) <= x
  BY <1>1, MinIsLeast DEF First
<1> QED BY <1>1, <1>2 DEF Cursors

\* Positions of finitely many records are bounded.
LEMMA BoundedCursors ==
    ASSUME NEW ks, IsFiniteSet(ks), ks \subseteq Keys, NEW at0 \in [Keys -> Nat]
    PROVE  \E n \in Nat : \A x \in Cursors(ks, at0) : x <= n
<1> DEFINE Big == {m \in Nat : \E S \in SUBSET ks :
                     /\ Cardinality(S) = m
                     /\ ~\E n \in Nat : \A x \in Cursors(S, at0) : x <= n}
<1>1. Big = {}
  <2> SUFFICES ASSUME Big # {} PROVE FALSE
    OBVIOUS
  <2>1. PICK m \in Big : \A k \in Big : m <= k
    <3>1. Big \subseteq Nat
      OBVIOUS
    <3> HIDE DEF Big
    <3> QED BY <3>1, LeastNatural
  <2>2. PICK S \in SUBSET ks : /\ Cardinality(S) = m
                               /\ ~\E n \in Nat : \A x \in Cursors(S, at0) : x <= n
    BY <2>1
  <2>3. S # {}
    <3>1. Cursors({}, at0) = {}
      BY DEF Cursors
    <3>2. 0 \in Nat
      OBVIOUS
    <3> QED BY <3>1, <3>2, <2>2
  <2>4. PICK s \in S : TRUE
    BY <2>3
  <2>5. IsFiniteSet(S)
    BY FS_Subset
  <2>6. Cardinality(S \ {s}) = m - 1 /\ Cardinality(S) \in Nat
    BY <2>2, <2>4, <2>5, FS_RemoveElement, FS_CardinalityType
  <2>7. m - 1 \in Nat
    BY <2>2, <2>3, <2>5, <2>6, FS_EmptySet
  <2>8. m - 1 \notin Big
    <3>1. m \in Nat
      BY <2>2, <2>6
    <3> HIDE DEF Big
    <3> QED BY <2>1, <3>1
  <2>9. PICK n \in Nat : \A x \in Cursors(S \ {s}, at0) : x <= n
    BY <2>6, <2>7, <2>8
  <2>10. at0[s] \in Nat
    BY <2>4
  <2>11. ASSUME NEW x \in Cursors(S, at0) PROVE x <= n + at0[s]
    <3>1. PICK k \in S : x = at0[k]
      BY DEF Cursors
    <3>2. x \in Nat
      BY <3>1
    <3>3. CASE k = s
      BY <3>1, <3>3, <2>9, <2>10
    <3>4. CASE k # s
      <4>1. x \in Cursors(S \ {s}, at0)
        BY <3>1, <3>4 DEF Cursors
      <4> QED BY <4>1, <2>9, <2>10, <3>2
    <3> QED BY <3>3, <3>4
  <2>12. n + at0[s] \in Nat
    BY <2>9, <2>10
  <2> QED BY <2>2, <2>11, <2>12
<1>2. Cardinality(ks) \in Nat
  BY FS_CardinalityType
<1> QED BY <1>1, <1>2

----------------------------------------------------------------------------
(***************************************************************************)
(* Components and their order.                                             *)
(***************************************************************************)

\* A component is closed, and contains its record.
LEMMA ComponentIsClosed ==
    ASSUME NEW ks, NEW classes, \A class \in classes : class \subseteq ks, NEW k \in ks
    PROVE  /\ k \in Component(k, ks, classes)
           /\ Component(k, ks, classes) \in SUBSET ks
           /\ Closed(Component(k, ks, classes), classes)
<1> DEFINE C == Component(k, ks, classes)
<1>1. k \in C /\ C \in SUBSET ks
  BY DEF Component
<1>2. ASSUME NEW class \in classes, class \cap C # {}, NEW j \in class
      PROVE  j \in C
  <2>1. PICK x \in class : x \in C
    BY <1>2
  <2>2. j \in ks
    OBVIOUS
  <2>3. ASSUME NEW S \in SUBSET ks, k \in S, Closed(S, classes) PROVE j \in S
    <3>1. x \in S
      BY <2>1, <2>3 DEF Component
    <3> QED BY <3>1, <2>3 DEF Closed
  <2> QED BY <2>2, <2>3 DEF Component
<1> QED BY <1>1, <1>2 DEF Closed

\* Components do not overlap.
LEMMA ComponentsDisjoint ==
    ASSUME NEW ks, NEW classes, \A class \in classes : class \subseteq ks,
           NEW k \in ks, NEW j \in Component(k, ks, classes)
    PROVE  Component(j, ks, classes) = Component(k, ks, classes)
<1> DEFINE C == Component(k, ks, classes)
           D == Component(j, ks, classes)
           Rest == ks \ D
<1>1. j \in ks
  BY DEF Component
<1>2. /\ k \in C /\ C \in SUBSET ks /\ Closed(C, classes)
      /\ j \in D /\ D \in SUBSET ks /\ Closed(D, classes)
  BY <1>1, ComponentIsClosed
<1>3. D \subseteq C
  BY <1>2 DEF Component
<1>4. Closed(Rest, classes) /\ Rest \in SUBSET ks
  BY <1>2 DEF Closed
<1>5. k \in D
  <2> SUFFICES ASSUME k \notin D PROVE FALSE
    OBVIOUS
  <2>1. k \in Rest
    OBVIOUS
  <2>2. j \in Rest
    <3> HIDE DEF Rest, D
    <3> QED BY <2>1, <1>4 DEF Component
  <2> QED BY <2>2, <1>2
<1>6. C \subseteq D
  <2> HIDE DEF D
  <2> QED BY <1>2, <1>5 DEF Component
<1> QED BY <1>3, <1>6

\* Ordering a finite set by a number that tells its elements apart: the elements
\* of rank 0, 1, 2 and so on.
LEMMA RanksEnumerate ==
    ASSUME NEW C, IsFiniteSet(C), NEW F \in [C -> Nat],
           \A c, d \in C : F[c] = F[d] => c = d
    PROVE  LET N == Cardinality(C)
               g == [i \in 1..N |-> CHOOSE c \in C : Cardinality({d \in C : F[d] < F[c]}) = i - 1]
           IN  /\ N \in Nat
               /\ g \in [1..N -> C]
               /\ \A c \in C : \E i \in 1..N : g[i] = c
               /\ \A i, j \in 1..N : i < j => F[g[i]] < F[g[j]]
<1> DEFINE N == Cardinality(C)
           Under(c) == {d \in C : F[d] < F[c]}
           rank == [c \in C |-> Cardinality(Under(c))]
           Nth(i) == CHOOSE c \in C : Cardinality(Under(c)) = i - 1
           g == [i \in 1..N |-> Nth(i)]
<1>1. N \in Nat
  BY FS_CardinalityType
<1>2. ASSUME NEW c \in C
      PROVE  /\ IsFiniteSet(Under(c)) /\ Cardinality(Under(c)) \in Nat
             /\ Cardinality(Under(c)) <= N - 1
  <2>1. Under(c) \in SUBSET C /\ c \notin Under(c)
    OBVIOUS
  <2>2. IsFiniteSet(Under(c)) /\ Cardinality(Under(c)) <= N /\ (N = Cardinality(Under(c)) => C = Under(c))
    BY <2>1, FS_Subset
  <2>3. Cardinality(Under(c)) \in Nat
    BY <2>2, FS_CardinalityType
  <2> QED BY <2>1, <2>2, <2>3, <1>1
<1>3. ASSUME NEW c \in C, NEW d \in C, F[c] < F[d] PROVE rank[c] < rank[d]
  <2>1. Under(c) \in SUBSET Under(d) /\ c \in Under(d) /\ c \notin Under(c)
    BY <1>3
  <2>2. /\ Cardinality(Under(c)) <= Cardinality(Under(d))
        /\ Cardinality(Under(d)) = Cardinality(Under(c)) => Under(d) = Under(c)
    BY <2>1, <1>2, FS_Subset
  <2>3. Cardinality(Under(c)) # Cardinality(Under(d))
    BY <2>1, <2>2
  <2>4. Cardinality(Under(c)) \in Nat /\ Cardinality(Under(d)) \in Nat
    BY <1>2
  <2>5. rank[c] = Cardinality(Under(c)) /\ rank[d] = Cardinality(Under(d))
    OBVIOUS
  <2> HIDE DEF rank, Under
  <2> QED BY <2>2, <2>3, <2>4, <2>5
<1>4. rank \in [C -> 0..(N - 1)]
  <2>1. ASSUME NEW c \in C PROVE Cardinality(Under(c)) \in 0..(N - 1)
    <3>1. Cardinality(Under(c)) \in Nat /\ Cardinality(Under(c)) <= N - 1
      BY <1>2
    <3> HIDE DEF Under, N
    <3> QED BY <3>1, <1>1
  <2> HIDE DEF Under, N
  <2> QED BY <2>1
<1>5. \A c, d \in C : rank[c] = rank[d] => c = d
  <2> SUFFICES ASSUME NEW c \in C, NEW d \in C, rank[c] = rank[d], c # d PROVE FALSE
    OBVIOUS
  <2>1. F[c] < F[d] \/ F[d] < F[c]
    OBVIOUS
  <2>2. rank[c] \in Int /\ rank[d] \in Int
    BY <1>4
  <2> HIDE DEF rank
  <2> QED BY <2>1, <2>2, <1>3
<1>6. rank \in Surjection(C, 0..(N - 1))
  <2>1. rank \in Injection(C, 0..(N - 1))
    <3> HIDE DEF rank
    <3> QED BY <1>4, <1>5 DEF Injection, IsInjective
  <2>2. IsFiniteSet(0..(N - 1)) /\ Cardinality(0..(N - 1)) = N
    BY <1>1, FS_Interval
  <2> HIDE DEF rank, N
  <2> QED BY <2>1, <2>2, FS_Injection DEF N
<1>7. ASSUME NEW i \in 1..N PROVE g[i] \in C /\ rank[g[i]] = i - 1
  <2>1. i - 1 \in 0..(N - 1)
    BY <1>1
  <2>2. PICK c \in C : rank[c] = i - 1
    <3> HIDE DEF rank
    <3> QED BY <1>6, <2>1 DEF Surjection
  <2>3. \E c1 \in C : Cardinality(Under(c1)) = i - 1
    BY <2>2
  <2>4. g[i] \in C /\ Cardinality(Under(g[i])) = i - 1
    <3> HIDE DEF Under
    <3> QED BY <2>3
  <2> QED BY <2>4
<1>8. ASSUME NEW c \in C PROVE \E i \in 1..N : g[i] = c
  <2>1. rank[c] + 1 \in 1..N /\ rank[c] \in Int
    BY <1>1, <1>4
  <2>2. rank[g[rank[c] + 1]] = rank[c] /\ g[rank[c] + 1] \in C
    <3> HIDE DEF rank, g
    <3> QED BY <2>1, <1>7
  <2>3. g[rank[c] + 1] = c
    <3> HIDE DEF rank, g
    <3> QED BY <2>2, <1>5
  <2> QED BY <2>1, <2>3
<1>9. ASSUME NEW i \in 1..N, NEW j \in 1..N, i < j PROVE F[g[i]] < F[g[j]]
  <2>1. g[i] \in C /\ g[j] \in C /\ rank[g[i]] = i - 1 /\ rank[g[j]] = j - 1
    BY <1>7
  <2>2. ~(F[g[j]] < F[g[i]]) /\ F[g[i]] # F[g[j]]
    <3> HIDE DEF rank, g
    <3> QED BY <2>1, <1>1, <1>3, <1>9
  <2> HIDE DEF g
  <2> QED BY <2>1, <2>2
<1>10. g \in [1..N -> C]
  <2> HIDE DEF Nth
  <2> QED BY <1>7
<1> QED BY <1>1, <1>8, <1>9, <1>10


\* What is needed of the ordered components of ks.
Ordered(g, classes, ks, at0) ==
    /\ g \in Seq(SUBSET ks)
    /\ \A i \in DOMAIN g : g[i] # {} /\ Closed(g[i], classes)
    /\ \A k \in ks : \E i \in DOMAIN g : k \in g[i]
    /\ \A i, j \in DOMAIN g : i < j => First(g[i], at0) < First(g[j], at0)
    /\ \A i, j \in DOMAIN g : i # j => g[i] \cap g[j] = {}

\* The groups of a set of records are its components: disjoint, closed, in the
\* order of their first cursors, no two of which are equal because records
\* with the same cursor are of one component.
LEMMA GroupsAreOrdered ==
    ASSUME NEW sch, NEW ks, ks \subseteq Keys, IsFiniteSet(ks), NEW at0 \in [Keys -> Nat]
    PROVE  Ordered(Groups(sch, ks, at0), Classes(sch, ks, at0), ks, at0)
<1> DEFINE classes == Classes(sch, ks, at0)
           C == Components(sch, ks, at0)
           F == [c \in C |-> First(c, at0)]
           N == Cardinality(C)
           h == [i \in 1..N |-> CHOOSE c \in C : Cardinality({d \in C : F[d] < F[c]}) = i - 1]
           g == Groups(sch, ks, at0)
<1>1. \A class \in classes : class \subseteq ks
  BY DEF Classes, OfModels
<1>2. C = {Component(k, ks, classes) : k \in ks}
  BY DEF Components
<1>3. ASSUME NEW c \in C
      PROVE  c \in SUBSET ks /\ c # {} /\ Closed(c, classes)
  <2>1. PICK k \in ks : c = Component(k, ks, classes)
    BY <1>2
  <2> HIDE DEF classes
  <2> QED BY <2>1, <1>1, ComponentIsClosed
<1>4. ASSUME NEW c \in C, NEW d \in C, c \cap d # {} PROVE c = d
  <2>1. PICK k \in ks : c = Component(k, ks, classes)
    BY <1>2
  <2>2. PICK l \in ks : d = Component(l, ks, classes)
    BY <1>2
  <2>3. PICK x \in c : x \in d
    BY <1>4
  <2> HIDE DEF classes, C
  <2>4. Component(x, ks, classes) = c
    BY <2>1, <2>3, <1>1, ComponentsDisjoint
  <2>5. Component(x, ks, classes) = d
    BY <2>2, <2>3, <1>1, ComponentsDisjoint
  <2> QED BY <2>4, <2>5
<1>5. \A k \in ks : \E c \in C : k \in c
  <2> HIDE DEF classes
  <2> QED BY <1>1, <1>2, ComponentIsClosed
<1>6. IsFiniteSet(C)
  <2> DEFINE f == [k \in ks |-> Component(k, ks, classes)]
  <2>1. f \in Surjection(ks, C)
    <3> HIDE DEF classes
    <3> QED BY <1>2 DEF Surjection
  <2> HIDE DEF f, C
  <2> QED BY <2>1, FS_Surjection
<1>7. ASSUME NEW c \in C
      PROVE  /\ First(c, at0) \in Nat
             /\ \E k \in c : at0[k] = First(c, at0)
  <2> HIDE DEF C, classes
  <2> QED BY <1>3, FirstIsLeast
<1>8. ASSUME NEW c \in C, NEW d \in C, First(c, at0) = First(d, at0) PROVE c = d
  <2>1. PICK k \in c : at0[k] = First(c, at0)
    BY <1>7
  <2>2. PICK l \in d : at0[l] = First(d, at0)
    BY <1>7
  <2> DEFINE tie == {x \in ks : at0[x] = at0[k]}
  <2>3. k \in ks /\ l \in ks
    BY <1>3
  <2>4. tie \in classes
    BY <2>3 DEF Classes, Cursors
  <2>5. k \in tie /\ l \in tie
    BY <2>1, <2>2, <2>3, <1>8
  <2>6. Closed(c, classes)
    BY <1>3
  <2>7. l \in c
    <3> HIDE DEF tie, classes, C
    <3> QED BY <2>4, <2>5, <2>6 DEF Closed
  <2> HIDE DEF C, tie, classes
  <2> QED BY <2>7, <1>4
<1>9. F \in [C -> Nat] /\ \A c, d \in C : F[c] = F[d] => c = d
  <2> HIDE DEF C
  <2> QED BY <1>7, <1>8
<1>10. /\ N \in Nat
       /\ h \in [1..N -> C]
       /\ \A c \in C : \E i \in 1..N : h[i] = c
       /\ \A i, j \in 1..N : i < j => F[h[i]] < F[h[j]]
  <2> HIDE DEF C, F
  <2> QED BY <1>6, <1>9, RanksEnumerate
<1>11. g = h
  <2>1. \A c \in C : {d \in C : F[d] < F[c]} = {d \in C : First(d, at0) < First(c, at0)}
    <3> HIDE DEF C
    <3> QED OBVIOUS
  <2>2. ASSUME NEW i \in 1..N
        PROVE  (CHOOSE c \in C : Cardinality({d \in C : F[d] < F[c]}) = i - 1)
                 = (CHOOSE c \in C : Cardinality({d \in C : First(d, at0) < First(c, at0)}) = i - 1)
    <3> HIDE DEF C, F
    <3> QED BY <2>1
  <2>3. g = [i \in 1..N |-> CHOOSE c \in C :
                 Cardinality({d \in C : First(d, at0) < First(c, at0)}) = i - 1]
    BY DEF Groups
  <2> HIDE DEF g, C, F, N
  <2> QED BY <2>2, <2>3
<1>12. DOMAIN g = 1..N /\ g \in [1..N -> C] /\ Len(g) = N
  <2> HIDE DEF C, F, N, g, h
  <2>1. h \in Seq(C) /\ Len(h) = N
    BY <1>10
  <2> QED BY <2>1, <1>10, <1>11
<1>13. g \in Seq(SUBSET ks)
  <2> HIDE DEF C, F, N, g, h, classes
  <2>1. g \in [1..N -> SUBSET ks]
    BY <1>12, <1>3
  <2> QED BY <2>1, <1>10
<1> HIDE DEF C, N, g, h, classes
<1>14. \A i \in DOMAIN g : g[i] \in C
  BY <1>12
<1>15. \A k \in ks : \E i \in DOMAIN g : k \in g[i]
  BY <1>5, <1>10, <1>11, <1>12
<1>16. \A i, j \in DOMAIN g : i < j => First(g[i], at0) < First(g[j], at0)
  BY <1>10, <1>11, <1>12, <1>14
<1>17. ASSUME NEW i \in DOMAIN g, NEW j \in DOMAIN g, i # j PROVE g[i] \cap g[j] = {}
  <2>1. i \in Int /\ j \in Int
    BY <1>12, <1>10
  <2>2. i < j \/ j < i
    BY <2>1, <1>17
  <2>3. First(g[i], at0) < First(g[j], at0) \/ First(g[j], at0) < First(g[i], at0)
    BY <1>16, <2>2
  <2>4. First(g[i], at0) \in Nat /\ First(g[j], at0) \in Nat
    BY <1>7, <1>14
  <2>5. g[i] # g[j]
    BY <2>3, <2>4
  <2> QED BY <2>5, <1>4, <1>14
<1> QED BY <1>3, <1>13, <1>14, <1>15, <1>16, <1>17 DEF Ordered, g, classes

----------------------------------------------------------------------------
(***************************************************************************)
(* Candidates.                                                             *)
(***************************************************************************)
Newer(sel, at0, after) == {k \in sel : at0[k] > after}

\* The query of a range: everything up to its reach is found, with all ties, and
\* a range that is not empty is reached into.
LEMMA CandidatesComplete ==
    ASSUME NEW sch, NEW sel, sel \subseteq Keys, NEW at0 \in [Keys -> Nat],
           NEW after \in Nat, NEW through \in Nat, after <= through
    PROVE  LET found == Candidates(sch, sel, at0, after)
               reach == Reach(sch, found, at0, through)
           IN  /\ found \subseteq Newer(sel, at0, after)
               /\ ~Bounded(sch) => found = Newer(sel, at0, after)
               /\ \A j, k \in Newer(sel, at0, after) :
                      k \in found /\ at0[j] <= at0[k] => j \in found
               /\ reach \in Nat /\ after <= reach /\ reach <= through
               /\ after < through => after < reach
               /\ \A k \in Newer(sel, at0, after) : at0[k] <= reach => k \in found
<1> DEFINE newer == Newer(sel, at0, after)
           found == Candidates(sch, sel, at0, after)
           reach == Reach(sch, found, at0, through)
           Before(k) == {j \in newer : at0[j] < at0[k]}
<1>1. /\ newer \subseteq Keys /\ IsFiniteSet(newer)
      /\ \A k \in newer : at0[k] \in Nat /\ at0[k] > after
  BY UnitsAssumption, FS_Subset DEF Newer
<1>2. found = IF Bounded(sch) THEN {k \in newer : Cardinality(Before(k)) <= PageSize} ELSE newer
  BY DEF Candidates, Newer
<1>3. found \subseteq newer
  <2> HIDE DEF newer, Before, found
  <2> QED BY <1>2
<1>4. ASSUME NEW k \in newer PROVE IsFiniteSet(Before(k)) /\ Cardinality(Before(k)) \in Nat
  <2>1. Before(k) \in SUBSET newer
    OBVIOUS
  <2> HIDE DEF newer, Before
  <2> QED BY <2>1, <1>1, FS_Subset, FS_CardinalityType
<1>5. ASSUME NEW j \in newer, NEW k \in found, at0[j] <= at0[k] PROVE j \in found
  <2>1. k \in newer /\ at0[j] \in Nat /\ at0[k] \in Nat
    BY <1>1, <1>3
  <2>2. Before(j) \in SUBSET Before(k)
    BY <1>1, <2>1, <1>5
  <2> HIDE DEF newer, Before, found
  <2>3. Cardinality(Before(j)) <= Cardinality(Before(k))
    BY <2>1, <2>2, <1>4, FS_Subset
  <2> QED BY <1>2, <2>1, <2>3, <1>4, UnitsAssumption
<1> HIDE DEF newer, found
<1>6. IsFiniteSet(found) /\ Cardinality(found) \in Nat
  BY <1>1, <1>3, FS_Subset, FS_CardinalityType
<1>7. CASE Bounded(sch) /\ Cardinality(found) > PageSize
  <2> DEFINE last == Max(Cursors(found, at0))
  <2>1. reach = Min({through, last})
    BY <1>7 DEF Reach
  <2>2. found # {}
    BY <1>7, FS_EmptySet, UnitsAssumption
  <2>3. \E n \in Nat : \A x \in Cursors(found, at0) : x <= n
    BY <1>6, <1>3, <1>1, BoundedCursors
  <2>4. Cursors(found, at0) \subseteq Int /\ Cursors(found, at0) # {}
    BY <2>2, <1>3, <1>1 DEF Cursors
  <2>5. last \in Cursors(found, at0) /\ \A x \in Cursors(found, at0) : x <= last
    BY <2>3, <2>4, MaxIsGreatest
  <2>6. PICK k \in found : last = at0[k]
    BY <2>5 DEF Cursors
  <2>7. last \in Nat /\ last > after
    BY <2>6, <1>1, <1>3
  <2> HIDE DEF last
  <2>8. reach = IF through <= last THEN through ELSE last
    BY <2>1, <2>7, MinOfTwo
  <2>9. ASSUME NEW j \in newer, at0[j] <= reach PROVE j \in found
    BY <2>9, <2>6, <2>7, <2>8, <1>5, <1>1
  <2> QED BY <2>7, <2>8, <2>9, <1>3, <1>5, <1>2, <1>7 DEF newer, found
<1>8. CASE ~(Bounded(sch) /\ Cardinality(found) > PageSize)
  <2>1. reach = through
    BY <1>8 DEF Reach
  <2>2. found = newer
    <3> SUFFICES ASSUME found # newer PROVE FALSE
      OBVIOUS
    <3> DEFINE T == {at0[k] : k \in newer \ found}
    <3>1. T \subseteq Nat /\ T # {}
      BY <1>1, <1>3
    <3>2. PICK m \in T : \A x \in T : m <= x
      <4> HIDE DEF T
      <4> QED BY <3>1, LeastNatural
    <3>3. PICK k \in newer \ found : at0[k] = m
      BY <3>2
    <3>4. Before(k) \in SUBSET found
      BY <3>2, <3>3, <1>1
    <3>5. Bounded(sch) /\ ~(Cardinality(Before(k)) <= PageSize)
      <4> HIDE DEF Before
      <4> QED BY <3>3, <1>2
    <3>6. Cardinality(Before(k)) <= Cardinality(found) /\ Cardinality(Before(k)) \in Nat
      <4> HIDE DEF Before
      <4> QED BY <3>3, <3>4, <1>4, <1>6, FS_Subset
    <3> HIDE DEF Before
    <3> QED BY <3>5, <3>6, <1>6, <1>8, UnitsAssumption
  <2> QED BY <2>1, <2>2 DEF newer, found
<1> QED BY <1>7, <1>8

----------------------------------------------------------------------------
(***************************************************************************)
(* The page.                                                               *)
(***************************************************************************)

\* The page takes a prefix of the groups, and stops at one that begins past the
\* reach or does not fit.
LEMMA TakenIsMaximal ==
    ASSUME NEW g, NEW at0, NEW reach, Len(g) \in Nat
    PROVE  LET n == Taken(g, at0, reach)
           IN  /\ n \in 0..Len(g)
               /\ \A j \in 1..n : Within(g, at0, reach, j) /\ Fits(g, j)
               /\ n < Len(g) => ~(Within(g, at0, reach, n + 1) /\ Fits(g, n + 1))
<1> DEFINE Good(n) == \A j \in 1..n : Within(g, at0, reach, j) /\ Fits(g, j)
           S == {n \in 0..Len(g) : Good(n)}
           t == Taken(g, at0, reach)
<1>1. t = Max(S)
  BY DEF Taken
<1>2. 0 \in S
  OBVIOUS
<1>3. S \subseteq Int /\ S # {} /\ \A x \in S : x <= Len(g)
  BY <1>2
<1>4. t \in S /\ \A x \in S : x <= t
  <2>1. Max(S) \in S /\ \A x \in S : x <= Max(S)
    <3>1. Len(g) \in Int
      OBVIOUS
    <3> HIDE DEF S
    <3> QED BY <1>3, <3>1, MaxIsGreatest
  <2> HIDE DEF S, t
  <2> QED BY <1>1, <2>1
<1> HIDE DEF t
<1>5. ASSUME t < Len(g), Within(g, at0, reach, t + 1), Fits(g, t + 1) PROVE FALSE
  <2>1. t \in 0..Len(g) /\ Good(t)
    BY <1>4
  <2>2. t + 1 \in 0..Len(g) /\ ~(t + 1 <= t)
    BY <2>1, <1>5
  <2>3. Good(t + 1)
    <3> SUFFICES ASSUME NEW j \in 1..(t + 1) PROVE Within(g, at0, reach, j) /\ Fits(g, j)
      OBVIOUS
    <3>1. CASE j = t + 1
      BY <3>1, <1>5
    <3>2. CASE j # t + 1
      <4>1. j \in 1..t
        BY <3>2, <2>1
      <4> QED BY <4>1, <2>1
    <3> QED BY <3>1, <3>2
  <2> QED BY <2>2, <2>3, <1>4
<1>6. t \in 0..Len(g) /\ Good(t)
  BY <1>4
<1> QED BY <1>5, <1>6 DEF t

\* A page splits no component, holds everything up to its end, and its end is
\* past the beginning of a range that is not empty.
LEMMA PageIsComplete ==
    ASSUME NEW g, NEW classes, NEW found, found \subseteq Keys, NEW at0 \in [Keys -> Nat],
           Ordered(g, classes, found, at0),
           NEW after \in Nat, NEW reach \in Nat, after <= reach,
           \A k \in found : at0[k] > after
    PROVE  LET end == PageThrough(g, at0, reach)
               page == PageKeys(g, at0, reach)
           IN  /\ page \subseteq found /\ Closed(page, classes)
               /\ end \in Nat /\ after <= end /\ end <= reach
               /\ after < reach => after < end
               /\ \A k \in found : at0[k] <= end => k \in page
<1> DEFINE n == Taken(g, at0, reach)
           end == PageThrough(g, at0, reach)
           page == PageKeys(g, at0, reach)
<1>1. /\ Len(g) \in Nat /\ DOMAIN g = 1..Len(g)
      /\ \A i \in DOMAIN g : g[i] \subseteq found /\ g[i] # {} /\ Closed(g[i], classes)
      /\ \A k \in found : \E i \in DOMAIN g : k \in g[i]
      /\ \A i, j \in DOMAIN g : i < j => First(g[i], at0) < First(g[j], at0)
  BY DEF Ordered
<1>2. /\ n \in 0..Len(g)
      /\ \A j \in 1..n : Within(g, at0, reach, j) /\ Fits(g, j)
      /\ n < Len(g) => ~(Within(g, at0, reach, n + 1) /\ Fits(g, n + 1))
  BY <1>1, TakenIsMaximal
<1>3. page = UNION {g[j] : j \in 1..n}
  BY DEF PageKeys
<1> HIDE DEF n, page
<1>4. page \subseteq found /\ Closed(page, classes)
  <2>1. \A j \in 1..n : j \in DOMAIN g
    BY <1>1, <1>2
  <2> QED BY <1>1, <1>3, <2>1 DEF Closed
<1>5. ASSUME NEW i \in DOMAIN g
      PROVE  /\ First(g[i], at0) \in Nat /\ First(g[i], at0) > after
             /\ \A k \in g[i] : First(g[i], at0) <= at0[k]
  <2>1. g[i] \subseteq Keys /\ g[i] # {}
    BY <1>1
  <2>2. /\ First(g[i], at0) \in Nat
        /\ \E k \in g[i] : at0[k] = First(g[i], at0)
        /\ \A k \in g[i] : First(g[i], at0) <= at0[k]
    BY <2>1, FirstIsLeast
  <2> QED BY <2>2, <1>1
<1>6. ASSUME NEW k \in found, k \notin page
      PROVE  n < Len(g) /\ n + 1 \in DOMAIN g /\ First(g[n + 1], at0) <= at0[k]
  <2>1. PICK i \in DOMAIN g : k \in g[i]
    BY <1>1
  <2>2. ~(i \in 1..n)
    BY <2>1, <1>3, <1>6
  <2>3. n < Len(g) /\ n + 1 \in DOMAIN g /\ (i = n + 1 \/ n + 1 < i)
    <3>1. n \in Nat /\ i \in Nat /\ i >= 1 /\ i <= Len(g)
      BY <2>1, <1>1, <1>2
    <3>2. i > n
      BY <3>1, <2>2
    <3>3. n + 1 \in 1..Len(g)
      BY <3>1, <3>2, <1>1
    <3> QED BY <3>1, <3>2, <3>3, <1>1
  <2>4. at0[k] \in Nat
    OBVIOUS
  <2>5. First(g[i], at0) <= at0[k] /\ First(g[i], at0) \in Nat
    BY <2>1, <1>5
  <2>6. First(g[n + 1], at0) \in Nat
    BY <2>3, <1>5
  <2>7. CASE i = n + 1
    BY <2>3, <2>5, <2>7
  <2>8. CASE n + 1 < i
    <3>1. First(g[n + 1], at0) < First(g[i], at0)
      BY <2>1, <2>3, <2>8, <1>1
    <3> QED BY <3>1, <2>3, <2>4, <2>5, <2>6
  <2> QED BY <2>3, <2>7, <2>8
<1>7. CASE n < Len(g) /\ Within(g, at0, reach, n + 1)
  <2> DEFINE next1 == First(g[n + 1], at0)
  <2>1. n + 1 \in DOMAIN g /\ next1 \in Nat /\ next1 > after
    BY <1>7, <1>1, <1>2, <1>5
  <2>2. next1 <= reach
    BY <1>7 DEF Within
  <2>3. end = Min({reach, next1 - 1})
    BY <1>7 DEF PageThrough, n
  <2>4. n # 0
    BY <1>2, <1>7 DEF Fits
  <2>5. next1 > after + 1
    <3>1. n \in DOMAIN g /\ n < n + 1
      BY <2>4, <1>1, <1>2
    <3>2. First(g[n], at0) < next1 /\ First(g[n], at0) \in Nat /\ First(g[n], at0) > after
      BY <3>1, <2>1, <1>1, <1>5
    <3> HIDE DEF next1
    <3> QED BY <3>2, <2>1
  <2> HIDE DEF next1, end
  <2>6. end = next1 - 1
    BY <2>1, <2>2, <2>3, MinOfTwo
  <2>7. ASSUME NEW k \in found, at0[k] <= end PROVE k \in page
    <3>1. at0[k] \in Nat
      OBVIOUS
    <3> QED BY <3>1, <2>7, <2>6, <2>1, <1>6 DEF next1
  <2> QED BY <2>1, <2>2, <2>5, <2>6, <2>7, <1>4 DEF end, page
<1>8. CASE ~(n < Len(g) /\ Within(g, at0, reach, n + 1))
  <2>1. end = reach
    BY <1>8 DEF PageThrough, n
  <2>2. ASSUME NEW k \in found, at0[k] <= reach PROVE k \in page
    <3> SUFFICES ASSUME k \notin page PROVE FALSE
      OBVIOUS
    <3>1. n < Len(g) /\ n + 1 \in DOMAIN g /\ First(g[n + 1], at0) <= at0[k]
      BY <1>6
    <3>2. ~(First(g[n + 1], at0) <= reach)
      BY <3>1, <1>8 DEF Within
    <3>3. First(g[n + 1], at0) \in Nat /\ at0[k] \in Nat
      BY <3>1, <1>5
    <3> QED BY <3>1, <3>2, <3>3, <2>2
  <2> QED BY <2>1, <2>2, <1>4 DEF page
<1> QED BY <1>7, <1>8

----------------------------------------------------------------------------
(***************************************************************************)
(* Units.                                                                  *)
(***************************************************************************)
UnitOf(ks) == [through : Nat \cup {NoThrough}, keys : SUBSET ks]

\* The units of a page carry its records: none splits a class, coverage never
\* decreases and reaches the end of the page with the last unit only, and
\* what comes later is newer than what is covered.
Carries(u, classes, ks, at0, after, through) ==
    /\ u \in Seq(UnitOf(ks)) /\ Len(u) > 0
    /\ \A k \in ks : \E i \in DOMAIN u : k \in u[i].keys
    /\ \A i \in DOMAIN u : Closed(u[i].keys, classes)
    /\ \A i \in DOMAIN u : u[i].through # NoThrough => after <= u[i].through /\ u[i].through <= through
    /\ \A i \in DOMAIN u : i < Len(u) => u[i].through # through
    /\ \A i, j \in DOMAIN u :
          i < j /\ u[j].through # NoThrough => u[i].through <= u[j].through
    /\ \A i, j \in DOMAIN u : i < j => \A k \in u[j].keys : at0[k] > u[i].through
    /\ u[Len(u)].through = through

\* The boundary of a unit: the end of the page for the last one; otherwise none, or
\* new coverage below the next component and below the end.
LEMMA BoundaryIsBelowNext ==
    ASSUME NEW g, NEW ks, ks \subseteq Keys, NEW classes, NEW at0 \in [Keys -> Nat],
           Ordered(g, classes, ks, at0),
           NEW after \in Nat, NEW through \in Nat, after <= through, NEW i \in DOMAIN g
    PROVE  LET b == Boundary(g, at0, after, through, i)
           IN  /\ i = Len(g) => b = through
               /\ i # Len(g) => /\ i + 1 \in DOMAIN g /\ First(g[i + 1], at0) \in Nat
                               /\ \/ b = NoThrough
                                  \/ /\ b \in Nat /\ after < b
                                     /\ b < through /\ b < First(g[i + 1], at0)
                                     /\ b = through - 1 \/ b = First(g[i + 1], at0) - 1
<1> DEFINE b == Boundary(g, at0, after, through, i)
           next1 == First(g[i + 1], at0)
           cap == Min({through - 1, next1 - 1})
<1>1. Len(g) \in Nat /\ DOMAIN g = 1..Len(g)
  BY DEF Ordered
<1>2. CASE i = Len(g)
  BY <1>2 DEF Boundary
<1>3. CASE i # Len(g)
  <2>1. i + 1 \in DOMAIN g
    BY <1>1, <1>3
  <2>2. g[i + 1] \subseteq Keys /\ g[i + 1] # {}
    BY <2>1, <1>1 DEF Ordered
  <2>3. next1 \in Nat
    BY <2>2, FirstIsLeast
  <2>4. b = NoThrough \/ (b = cap /\ cap > after)
    BY <1>3 DEF Boundary
  <2> HIDE DEF b, next1
  <2>5. cap = IF through - 1 <= next1 - 1 THEN through - 1 ELSE next1 - 1
    BY <2>3, MinOfTwo
  <2>6. b = NoThrough \/ (b \in Nat /\ after < b /\ b < through /\ b < next1
                          /\ (b = through - 1 \/ b = next1 - 1))
    BY <2>3, <2>4, <2>5
  <2> QED BY <2>1, <2>3, <2>6, <1>3 DEF b, next1
<1> QED BY <1>2, <1>3

\* The units of a page before they are packed.
LEMMA PlanUnitsCarry ==
    ASSUME NEW sch, NEW ks, ks \subseteq Keys, NEW at0 \in [Keys -> Nat],
           NEW after \in Nat, NEW through \in Nat, after <= through
    PROVE  Carries(PlanUnits(sch, ks, at0, after, through), Classes(sch, ks, at0),
                   ks, at0, after, through)
<1> DEFINE classes == Classes(sch, ks, at0)
           g == Groups(sch, ks, at0)
           u == PlanUnits(sch, ks, at0, after, through)
           B(i) == Boundary(g, at0, after, through, i)
<1>0. IsFiniteSet(ks)
  BY UnitsAssumption, FS_Subset
<1>1. Ordered(g, classes, ks, at0)
  BY <1>0, GroupsAreOrdered
<1>2. CASE ks = {}
  <2>1. u = <<[through |-> through, keys |-> {}]>>
    BY <1>2 DEF PlanUnits
  <2>2. [through |-> through, keys |-> {}] \in UnitOf(ks)
    BY DEF UnitOf
  <2> HIDE DEF u
  <2>3. u \in Seq(UnitOf(ks)) /\ Len(u) = 1 /\ DOMAIN u = {1}
        /\ u[1].through = through /\ u[1].keys = {}
    BY <2>1, <2>2
  <2> HIDE DEF classes
  <2> QED BY <2>3, <1>2 DEF Carries, Closed, u, classes
<1>3. CASE ks # {}
  <2>1. u = [i \in 1..Len(g) |-> [through |-> B(i), keys |-> g[i]]]
    BY <1>3 DEF PlanUnits
  <2> HIDE DEF g, u, B, classes
  <2>2. /\ Len(g) \in Nat /\ DOMAIN g = 1..Len(g)
        /\ \A i \in DOMAIN g : g[i] \in SUBSET ks /\ g[i] # {} /\ Closed(g[i], classes)
        /\ \A k \in ks : \E i \in DOMAIN g : k \in g[i]
        /\ \A i, j \in DOMAIN g : i < j => First(g[i], at0) < First(g[j], at0)
    BY <1>1 DEF Ordered
  <2>3. ASSUME NEW i \in DOMAIN g
        PROVE  /\ i = Len(g) => B(i) = through
               /\ i # Len(g) => /\ i + 1 \in DOMAIN g /\ First(g[i + 1], at0) \in Nat
                               /\ \/ B(i) = NoThrough
                                  \/ /\ B(i) \in Nat /\ after < B(i)
                                     /\ B(i) < through /\ B(i) < First(g[i + 1], at0)
                                     /\ B(i) = through - 1 \/ B(i) = First(g[i + 1], at0) - 1
    BY <1>1, BoundaryIsBelowNext DEF B
  <2>4. ASSUME NEW i \in DOMAIN g
        PROVE  /\ B(i) \in Nat \cup {NoThrough}
               /\ B(i) # NoThrough => after <= B(i) /\ B(i) <= through
               /\ i < Len(g) => B(i) # through
    BY <2>2, <2>3 DEF NoThrough
  <2>5. /\ u \in Seq(UnitOf(ks)) /\ Len(u) = Len(g) /\ DOMAIN u = DOMAIN g
        /\ \A i \in DOMAIN g : u[i].through = B(i) /\ u[i].keys = g[i]
    <3>1. u \in [1..Len(g) -> UnitOf(ks)]
      BY <2>1, <2>2, <2>4 DEF UnitOf
    <3> QED BY <3>1, <2>1, <2>2
  <2>6. Len(g) > 0
    BY <2>2, <1>3
  <2>7. ASSUME NEW i \in DOMAIN g, NEW j \in DOMAIN g, i < j
        PROVE  /\ First(g[i + 1], at0) <= First(g[j], at0)
               /\ First(g[j], at0) \in Nat /\ First(g[i + 1], at0) \in Nat
               /\ i + 1 \in DOMAIN g /\ i # Len(g)
    <3>1. i + 1 \in DOMAIN g /\ i # Len(g) /\ (i + 1 = j \/ i + 1 < j)
      BY <2>2, <2>7
    <3>2. First(g[i + 1], at0) \in Nat
      BY <2>3, <3>1
    <3>3. First(g[j], at0) \in Nat
      <4>1. g[j] \subseteq Keys /\ g[j] # {}
        BY <2>2
      <4> QED BY <4>1, FirstIsLeast
    <3>4. i + 1 < j => First(g[i + 1], at0) < First(g[j], at0)
      BY <2>2, <3>1
    <3> QED BY <3>1, <3>2, <3>3, <3>4
  <2>8. ASSUME NEW i \in DOMAIN g, NEW j \in DOMAIN g, i < j, B(j) # NoThrough
        PROVE  B(i) <= B(j)
    <3>1. /\ i # Len(g) /\ First(g[i + 1], at0) <= First(g[j], at0)
          /\ First(g[j], at0) \in Nat /\ First(g[i + 1], at0) \in Nat
      BY <2>7, <2>8
    <3>2. B(i) = NoThrough \/ (B(i) \in Nat /\ B(i) < through /\ B(i) < First(g[i + 1], at0))
      BY <2>3, <3>1
    <3>3. CASE j = Len(g)
      <4>1. B(j) = through
        BY <2>3, <3>3
      <4> QED BY <3>2, <4>1 DEF NoThrough
    <3>4. CASE j # Len(g)
      <4>1. /\ B(j) \in Nat /\ First(g[j + 1], at0) \in Nat
            /\ B(j) = through - 1 \/ B(j) = First(g[j + 1], at0) - 1
        BY <2>3, <2>8, <3>4
      <4>2. j + 1 \in DOMAIN g /\ j < j + 1
        BY <2>3, <3>4, <2>2
      <4>3. First(g[j], at0) < First(g[j + 1], at0)
        BY <2>2, <4>2
      <4> QED BY <3>1, <3>2, <4>1, <4>3 DEF NoThrough
    <3> QED BY <3>3, <3>4
  <2>9. ASSUME NEW i \in DOMAIN g, NEW j \in DOMAIN g, i < j, NEW k \in g[j]
        PROVE  at0[k] > B(i)
    <3>1. /\ i # Len(g) /\ First(g[i + 1], at0) <= First(g[j], at0)
          /\ First(g[j], at0) \in Nat /\ First(g[i + 1], at0) \in Nat
      BY <2>7, <2>9
    <3>2. B(i) = NoThrough \/ (B(i) \in Nat /\ B(i) < First(g[i + 1], at0))
      BY <2>3, <3>1
    <3>3. g[j] \subseteq Keys /\ g[j] # {} /\ at0[k] \in Nat
      BY <2>2
    <3>4. First(g[j], at0) <= at0[k]
      BY <3>3, FirstIsLeast
    <3> QED BY <3>1, <3>2, <3>3, <3>4 DEF NoThrough
  <2>10. Len(g) \in DOMAIN g
    BY <2>2, <2>6
  <2>11. B(Len(g)) = through
    BY <2>3, <2>10
  <2>12. /\ \A k \in ks : \E i \in DOMAIN u : k \in u[i].keys
         /\ \A i \in DOMAIN u : Closed(u[i].keys, classes)
    BY <2>2, <2>5
  <2>13. /\ \A i \in DOMAIN u : u[i].through # NoThrough
                => after <= u[i].through /\ u[i].through <= through
         /\ \A i \in DOMAIN u : i < Len(u) => u[i].through # through
    BY <2>4, <2>5
  <2>14. /\ \A i, j \in DOMAIN u :
                i < j /\ u[j].through # NoThrough => u[i].through <= u[j].through
         /\ \A i, j \in DOMAIN u : i < j => \A k \in u[j].keys : at0[k] > u[i].through
    BY <2>5, <2>8, <2>9
  <2>15. u[Len(u)].through = through
    BY <2>5, <2>10, <2>11
  <2>16. Carries(u, classes, ks, at0, after, through)
    BY <2>5, <2>6, <2>12, <2>13, <2>14, <2>15 DEF Carries
  <2> QED BY <2>16 DEF u, classes
<1> QED BY <1>2, <1>3

----------------------------------------------------------------------------
(***************************************************************************)
(* Packing.                                                                *)
(***************************************************************************)

\* The recursive function in Coalesce exists, so that it has the values its
\* definition gives.
LEMMA CoalesceIsDefined ==
    ASSUME NEW u, Len(u) \in Nat
    PROVE  \E packed :
             /\ packed = [n \in 0..Len(u) |-> IF n = 0 THEN <<>> ELSE Pack(packed[n - 1], u[n])]
             /\ Coalesce(u) = packed[Len(u)]
<1> DEFINE Step(g, n) == IF n = 0 THEN <<>> ELSE Pack(g[n - 1], u[n])
           Fitting(g, N) == g = [n \in 0..N |-> Step(g, n)]
           Bad == {N \in Nat : ~\E g : Fitting(g, N)}
<1>1. Bad = {}
  <2> SUFFICES ASSUME Bad # {} PROVE FALSE
    OBVIOUS
  <2>1. PICK m \in Bad : \A k \in Bad : m <= k
    <3>1. Bad \subseteq Nat
      OBVIOUS
    <3> HIDE DEF Bad
    <3> QED BY <3>1, LeastNatural
  <2>2. m # 0
    <3>1. Fitting([n \in 0..0 |-> <<>>], 0)
      OBVIOUS
    <3> HIDE DEF Fitting
    <3> QED BY <3>1, <2>1
  <2>3. m \in Nat /\ m - 1 \in Nat /\ m - 1 \notin Bad
    <3>1. m \in Nat
      OBVIOUS
    <3> HIDE DEF Bad
    <3> QED BY <3>1, <2>1, <2>2
  <2>4. PICK g : Fitting(g, m - 1)
    <3> HIDE DEF Fitting
    <3> QED BY <2>3
  <2> DEFINE h == [n \in 0..m |-> IF n = m THEN Step(g, m) ELSE g[n]]
  <2>5. ASSUME NEW n \in 0..m PROVE h[n] = Step(h, n)
    <3>1. CASE n = m
      BY <3>1, <2>2, <2>3
    <3>2. CASE n # m
      <4>1. n \in 0..(m - 1) /\ h[n] = g[n]
        BY <3>2, <2>3
      <4>2. g[n] = Step(g, n)
        BY <4>1, <2>4
      <4>3. n = 0 \/ (n - 1 \in 0..m /\ n - 1 # m)
        BY <4>1, <2>3
      <4>4. n = 0 \/ h[n - 1] = g[n - 1]
        BY <4>3
      <4> QED BY <4>1, <4>2, <4>4
    <3> QED BY <3>1, <3>2
  <2>6. Fitting(h, m)
    BY <2>5
  <2> HIDE DEF Fitting
  <2> QED BY <2>6, <2>1
<1>2. \E g : Fitting(g, Len(u))
  <2> HIDE DEF Fitting
  <2> QED BY <1>1
<1> DEFINE packed == CHOOSE g : Fitting(g, Len(u))
<1>3. Fitting(packed, Len(u))
  <2> HIDE DEF Fitting
  <2> QED BY <1>2
<1>4. Coalesce(u) = packed[Len(u)]
  BY DEF Coalesce
<1> QED BY <1>3, <1>4

\* What packing has made of the first n units.  Every coverage in it is that of
\* one of them, and only the last may be that of the nth.
Packed(p, n, u, classes, ks, at0) ==
    /\ p \in Seq(UnitOf(ks)) /\ Len(p) > 0
    /\ \A i \in 1..n : \E j \in DOMAIN p : u[i].keys \subseteq p[j].keys
    /\ \A j \in DOMAIN p : Closed(p[j].keys, classes)
    /\ \A j \in DOMAIN p : \E m \in 1..n : /\ p[j].through = u[m].through
                                           /\ j < Len(p) => m < n
    /\ \A i, j \in DOMAIN p :
          i < j /\ p[j].through # NoThrough => p[i].through <= p[j].through
    /\ \A i, j \in DOMAIN p : i < j => \A k \in p[j].keys : at0[k] > p[i].through
    /\ u[n].through # NoThrough => p[Len(p)].through = u[n].through

\* One unit more: it is added to the last one or follows it.
LEMMA PackKeeps ==
    ASSUME NEW u, NEW classes, NEW ks, ks \subseteq Keys, NEW at0 \in [Keys -> Nat],
           NEW after \in Nat, NEW through \in Nat,
           Carries(u, classes, ks, at0, after, through),
           NEW n \in Nat, n >= 1, n + 1 <= Len(u),
           NEW p, Packed(p, n, u, classes, ks, at0)
    PROVE  Packed(Pack(p, u[n + 1]), n + 1, u, classes, ks, at0)
<1> DEFINE x == u[n + 1]
           L == Len(p)
           q == Pack(p, x)
           merged == [through |-> IF x.through = NoThrough THEN p[L].through ELSE x.through,
                      keys |-> p[L].keys \cup x.keys]
<1>1. /\ Len(u) \in Nat /\ DOMAIN u = 1..Len(u) /\ u \in Seq(UnitOf(ks))
      /\ x \in UnitOf(ks) /\ n + 1 \in DOMAIN u
  BY DEF Carries
<1>2. L \in Nat /\ L > 0 /\ DOMAIN p = 1..L /\ p \in Seq(UnitOf(ks)) /\ L \in DOMAIN p
  <2>1. p \in Seq(UnitOf(ks)) /\ L > 0
    BY DEF Packed
  <2>2. L \in Nat /\ DOMAIN p = 1..L
    BY <2>1
  <2> QED BY <2>1, <2>2
<1>3. \A j \in DOMAIN p : p[j] \in UnitOf(ks)
  BY <1>2
<1>4. ASSUME NEW j \in DOMAIN p
      PROVE  /\ x.through # NoThrough => p[j].through <= x.through
             /\ \A k \in x.keys : at0[k] > p[j].through
  <2>1. PICK m \in 1..n : p[j].through = u[m].through
    BY DEF Packed
  <2>2. m \in DOMAIN u /\ m < n + 1
    BY <2>1, <1>1
  <2> QED BY <2>1, <2>2, <1>1 DEF Carries
<1>5. Closed(x.keys, classes)
  BY <1>1 DEF Carries
<1>6. CASE q = Append(p, x)
  <2>1. /\ q \in Seq(UnitOf(ks)) /\ Len(q) = L + 1 /\ DOMAIN q = 1..(L + 1)
        /\ \A i \in 1..L : q[i] = p[i]
        /\ q[L + 1] = x
    BY <1>1, <1>2, <1>6, AppendProperties
  <2> HIDE DEF q, x, L
  <2>2. \A i \in 1..(n + 1) : \E j \in DOMAIN q : u[i].keys \subseteq q[j].keys
    <3> SUFFICES ASSUME NEW i \in 1..(n + 1) PROVE \E j \in DOMAIN q : u[i].keys \subseteq q[j].keys
      OBVIOUS
    <3>1. CASE i = n + 1
      <4>1. L + 1 \in DOMAIN q /\ u[i].keys \subseteq q[L + 1].keys
        BY <3>1, <2>1, <1>2 DEF x
      <4> QED BY <4>1
    <3>2. CASE i # n + 1
      <4>0. i \in 1..n
        BY <3>2
      <4>1. PICK j \in DOMAIN p : u[i].keys \subseteq p[j].keys
        BY <4>0 DEF Packed
      <4>2. j \in DOMAIN q /\ q[j] = p[j]
        BY <2>1, <1>2
      <4> QED BY <4>1, <4>2
    <3> QED BY <3>1, <3>2
  <2>3. ASSUME NEW j \in DOMAIN q PROVE Closed(q[j].keys, classes)
    <3>1. CASE j = L + 1
      BY <3>1, <2>1, <1>5
    <3>2. CASE j # L + 1
      <4>1. j \in DOMAIN p /\ q[j] = p[j]
        BY <3>2, <2>1, <1>2
      <4> QED BY <4>1 DEF Packed
    <3> QED BY <3>1, <3>2
  <2>4. ASSUME NEW j \in DOMAIN q
        PROVE  \E m \in 1..(n + 1) : q[j].through = u[m].through /\ (j < Len(q) => m < n + 1)
    <3>1. CASE j = L + 1
      <4>1. n + 1 \in 1..(n + 1) /\ q[j].through = u[n + 1].through /\ ~(j < Len(q))
        BY <3>1, <2>1, <1>2 DEF x
      <4> QED BY <4>1
    <3>2. CASE j # L + 1
      <4>1. j \in DOMAIN p /\ q[j] = p[j]
        BY <3>2, <2>1, <1>2
      <4>2. PICK m \in 1..n : p[j].through = u[m].through
        BY <4>1 DEF Packed
      <4>3. m \in 1..(n + 1) /\ m < n + 1
        OBVIOUS
      <4> QED BY <4>1, <4>2, <4>3
    <3> QED BY <3>1, <3>2
  <2>5. ASSUME NEW i \in DOMAIN q, NEW j \in DOMAIN q, i < j
        PROVE  /\ q[j].through # NoThrough => q[i].through <= q[j].through
               /\ \A k \in q[j].keys : at0[k] > q[i].through
    <3>1. i \in DOMAIN p /\ q[i] = p[i]
      BY <2>1, <1>2, <2>5
    <3>2. CASE j = L + 1
      BY <3>1, <3>2, <2>1, <1>4
    <3>3. CASE j # L + 1
      <4>1. j \in DOMAIN p /\ q[j] = p[j]
        BY <3>3, <2>1, <1>2
      <4> QED BY <3>1, <4>1, <2>5 DEF Packed
    <3> QED BY <3>2, <3>3
  <2>6. q[Len(q)].through = u[n + 1].through /\ Len(q) > 0
    BY <2>1, <1>2 DEF x
  <2>7. Packed(q, n + 1, u, classes, ks, at0)
    BY <2>1, <2>2, <2>3, <2>4, <2>5, <2>6 DEF Packed
  <2> QED BY <2>7 DEF q, x
<1>7. CASE q = Append(Front(p), merged)
  <2>1. Front(p) = SubSeq(p, 1, L - 1)
    BY DEF Front
  <2>2. /\ Front(p) \in Seq(UnitOf(ks)) /\ Len(Front(p)) = L - 1
        /\ \A i \in 1..(L - 1) : Front(p)[i] = p[i]
    BY <2>1, <1>2, SubSeqProperties
  <2>3. merged \in UnitOf(ks)
    BY <1>1, <1>2, <1>3 DEF UnitOf
  <2>4. /\ q \in Seq(UnitOf(ks)) /\ Len(q) = L /\ DOMAIN q = 1..L
        /\ \A i \in 1..(L - 1) : q[i] = p[i]
        /\ q[L] = merged
    BY <2>2, <2>3, <1>2, <1>7, AppendProperties
  <2>5. /\ q[L].keys = p[L].keys \cup x.keys
        /\ q[L].through = IF x.through = NoThrough THEN p[L].through ELSE x.through
    BY <2>4
  <2> HIDE DEF q, x, L, merged
  <2>6. \A j \in DOMAIN p : j \in DOMAIN q /\ p[j].keys \subseteq q[j].keys
    <3> SUFFICES ASSUME NEW j \in DOMAIN p PROVE j \in DOMAIN q /\ p[j].keys \subseteq q[j].keys
      OBVIOUS
    <3>1. j = L \/ j \in 1..(L - 1)
      BY <1>2
    <3> QED BY <3>1, <2>4, <2>5, <1>2
  <2>7. \A i \in 1..(n + 1) : \E j \in DOMAIN q : u[i].keys \subseteq q[j].keys
    <3> SUFFICES ASSUME NEW i \in 1..(n + 1) PROVE \E j \in DOMAIN q : u[i].keys \subseteq q[j].keys
      OBVIOUS
    <3>1. CASE i = n + 1
      <4>1. L \in DOMAIN q /\ u[i].keys \subseteq q[L].keys
        BY <3>1, <2>4, <2>5, <1>2 DEF x
      <4> QED BY <4>1
    <3>2. CASE i # n + 1
      <4>0. i \in 1..n
        BY <3>2
      <4>1. PICK j \in DOMAIN p : u[i].keys \subseteq p[j].keys
        BY <4>0 DEF Packed
      <4> QED BY <4>1, <2>6
    <3> QED BY <3>1, <3>2
  <2>8. ASSUME NEW j \in DOMAIN q PROVE Closed(q[j].keys, classes)
    <3>1. CASE j = L
      <4>1. Closed(p[L].keys, classes)
        BY <1>2 DEF Packed
      <4> QED BY <3>1, <4>1, <1>5, <2>5 DEF Closed
    <3>2. CASE j # L
      <4>1. j \in DOMAIN p /\ q[j] = p[j]
        BY <3>2, <2>4, <1>2
      <4> QED BY <4>1 DEF Packed
    <3> QED BY <3>1, <3>2
  <2>9. ASSUME NEW j \in DOMAIN q
        PROVE  \E m \in 1..(n + 1) : q[j].through = u[m].through /\ (j < Len(q) => m < n + 1)
    <3>1. CASE j = L /\ x.through # NoThrough
      <4>1. n + 1 \in 1..(n + 1) /\ q[j].through = u[n + 1].through /\ ~(j < Len(q))
        BY <3>1, <2>4, <2>5, <1>2 DEF x
      <4> QED BY <4>1
    <3>2. CASE ~(j = L /\ x.through # NoThrough)
      <4>1. j \in DOMAIN p /\ q[j].through = p[j].through
        BY <3>2, <2>4, <2>5, <1>2
      <4>2. PICK m \in 1..n : p[j].through = u[m].through
        BY <4>1 DEF Packed
      <4>3. m \in 1..(n + 1) /\ m < n + 1
        OBVIOUS
      <4> QED BY <4>1, <4>2, <4>3
    <3> QED BY <3>1, <3>2
  <2>10. ASSUME NEW i \in DOMAIN q, NEW j \in DOMAIN q, i < j
         PROVE  /\ q[j].through # NoThrough => q[i].through <= q[j].through
                /\ \A k \in q[j].keys : at0[k] > q[i].through
    <3>1. i \in DOMAIN p /\ q[i] = p[i] /\ j \in DOMAIN p
      BY <2>4, <1>2, <2>10
    <3>2. /\ p[j].through # NoThrough => p[i].through <= p[j].through
          /\ \A k \in p[j].keys : at0[k] > p[i].through
      BY <3>1, <2>10 DEF Packed
    <3>3. CASE j = L
      BY <3>1, <3>2, <3>3, <2>5, <1>4
    <3>4. CASE j # L
      BY <3>1, <3>2, <3>4, <2>4, <1>2
    <3> QED BY <3>3, <3>4
  <2>11. /\ u[n + 1].through # NoThrough => q[Len(q)].through = u[n + 1].through
         /\ Len(q) > 0
    BY <2>4, <2>5, <1>2 DEF x
  <2>12. Packed(q, n + 1, u, classes, ks, at0)
    BY <2>4, <2>7, <2>8, <2>9, <2>10, <2>11 DEF Packed
  <2> QED BY <2>12 DEF q, x
<1>8. q = Append(p, x) \/ q = Append(Front(p), merged)
  BY DEF Pack, Last
<1> QED BY <1>6, <1>7, <1>8

\* Packed units carry what the units do.
LEMMA CoalesceCarries ==
    ASSUME NEW u, NEW classes, NEW ks, ks \subseteq Keys, NEW at0 \in [Keys -> Nat],
           NEW after \in Nat, NEW through \in Nat,
           Carries(u, classes, ks, at0, after, through)
    PROVE  Carries(Coalesce(u), classes, ks, at0, after, through)
<1> DEFINE N == Len(u)
           P(p, n) == Packed(p, n, u, classes, ks, at0)
<1>1. /\ N \in Nat /\ N > 0 /\ DOMAIN u = 1..N /\ u \in Seq(UnitOf(ks))
      /\ \A i \in DOMAIN u : u[i] \in UnitOf(ks)
  BY DEF Carries
<1>2. PICK packed :
        /\ packed = [n \in 0..N |-> IF n = 0 THEN <<>> ELSE Pack(packed[n - 1], u[n])]
        /\ Coalesce(u) = packed[N]
  BY <1>1, CoalesceIsDefined
<1>3. packed[0] = <<>> /\ \A n \in 1..N : packed[n] = Pack(packed[n - 1], u[n])
  <2> HIDE DEF N
  <2> QED BY <1>1, <1>2
<1>4. P(packed[1], 1)
  <2>1. packed[1] = Pack(<<>>, u[1])
    BY <1>1, <1>3
  <2>2. packed[1] = <<u[1]>>
    BY <2>1 DEF Pack
  <2>3. 1 \in DOMAIN u /\ u[1] \in UnitOf(ks) /\ Closed(u[1].keys, classes)
    BY <1>1 DEF Carries
  <2> DEFINE p == packed[1]
  <2> HIDE DEF p
  <2>4. p \in Seq(UnitOf(ks)) /\ Len(p) = 1 /\ DOMAIN p = {1} /\ p[1] = u[1]
    BY <2>2, <2>3 DEF p
  <2>5. P(p, 1)
    BY <2>3, <2>4 DEF Packed
  <2> QED BY <2>5 DEF p
<1> DEFINE Bad == {n \in 1..N : ~P(packed[n], n)}
<1>5. Bad = {}
  <2> SUFFICES ASSUME Bad # {} PROVE FALSE
    OBVIOUS
  <2>1. PICK m \in Bad : \A k \in Bad : m <= k
    <3>1. Bad \subseteq Nat
      BY <1>1
    <3> HIDE DEF Bad
    <3> QED BY <3>1, LeastNatural
  <2>2. m \in 1..N /\ m # 1 /\ ~P(packed[m], m)
    BY <2>1, <1>4
  <2>3. m - 1 \in 1..N /\ m - 1 \in Nat /\ m - 1 >= 1 /\ (m - 1) + 1 = m /\ ~(m <= m - 1)
    BY <2>2, <1>1
  <2>4. P(packed[m - 1], m - 1)
    BY <2>1, <2>3
  <2>5. Packed(Pack(packed[m - 1], u[(m - 1) + 1]), (m - 1) + 1, u, classes, ks, at0)
    BY <2>2, <2>3, <2>4, <1>1, PackKeeps
  <2> QED BY <2>2, <2>3, <2>5, <1>3
<1>6. Packed(Coalesce(u), N, u, classes, ks, at0)
  BY <1>1, <1>2, <1>5
<1> DEFINE p == Coalesce(u)
<1> HIDE DEF p, P, N
<1>7. /\ p \in Seq(UnitOf(ks)) /\ Len(p) > 0 /\ DOMAIN p = 1..Len(p) /\ Len(p) \in Nat
      /\ \A j \in DOMAIN p : p[j] \in UnitOf(ks)
  BY <1>6 DEF Packed, p
<1>8. \A k \in ks : \E j \in DOMAIN p : k \in p[j].keys
  <2> SUFFICES ASSUME NEW k \in ks PROVE \E j \in DOMAIN p : k \in p[j].keys
    OBVIOUS
  <2>1. PICK i \in DOMAIN u : k \in u[i].keys
    BY DEF Carries
  <2>2. i \in 1..N
    BY <1>1
  <2> QED BY <2>1, <2>2, <1>6 DEF Packed, p
<1>9. ASSUME NEW j \in DOMAIN p
      PROVE  /\ p[j].through # NoThrough => after <= p[j].through /\ p[j].through <= through
             /\ j < Len(p) => p[j].through # through
  <2>1. PICK m \in 1..N : p[j].through = u[m].through /\ (j < Len(p) => m < N)
    BY <1>6 DEF Packed, p
  <2>2. m \in DOMAIN u
    BY <1>1
  <2> QED BY <2>1, <2>2 DEF Carries, N
<1>10. p[Len(p)].through = through
  <2>1. u[N].through = through /\ through # NoThrough
    BY DEF Carries, N, NoThrough
  <2> QED BY <2>1, <1>6 DEF Packed, p
<1>11. Carries(p, classes, ks, at0, after, through)
  <2>1. \A j \in DOMAIN p : Closed(p[j].keys, classes)
    BY <1>6 DEF Packed, p
  <2>2. /\ \A i, j \in DOMAIN p :
              i < j /\ p[j].through # NoThrough => p[i].through <= p[j].through
        /\ \A i, j \in DOMAIN p : i < j => \A k \in p[j].keys : at0[k] > p[i].through
    BY <1>6 DEF Packed, p
  <2> QED BY <2>1, <2>2, <1>7, <1>8, <1>9, <1>10 DEF Carries
<1> QED BY <1>11 DEF p

----------------------------------------------------------------------------
(***************************************************************************)
(* A whole delivery.                                                       *)
(***************************************************************************)

\* A page that splits no class of the candidates splits none of the newer
\* records: bounded candidates leave out whole cursors, the others nothing.
LEMMA ClassesStayWhole ==
    ASSUME NEW sch, NEW new, new \subseteq Keys, NEW found, found \subseteq new,
           NEW page, page \subseteq found, NEW at0 \in [Keys -> Nat],
           ~Bounded(sch) => found = new,
           \A j, k \in new : k \in found /\ at0[j] <= at0[k] => j \in found,
           Closed(page, Classes(sch, found, at0)),
           NEW class \in Classes(sch, new, at0), class \cap page # {}
    PROVE  class \subseteq page /\ class \in Classes(sch, page, at0)
<1>1. CASE \E c \in Cursors(new, at0) : class = {k \in new : at0[k] = c}
  <2>1. PICK c \in Cursors(new, at0) : class = {k \in new : at0[k] = c}
    BY <1>1
  <2>2. PICK k \in page : k \in class
    OBVIOUS
  <2>3. at0[k] = c /\ k \in found /\ k \in new /\ c \in Nat
    BY <2>1, <2>2
  <2>4. class = {j \in found : at0[j] = c}
    <3>1. ASSUME NEW j \in class PROVE j \in found
      <4>1. j \in new /\ at0[j] <= at0[k]
        BY <2>1, <2>3
      <4> QED BY <4>1, <2>3
    <3> QED BY <2>1, <3>1
  <2>5. c \in Cursors(found, at0) /\ c \in Cursors(page, at0)
    BY <2>2, <2>3 DEF Cursors
  <2>6. class \in Classes(sch, found, at0)
    BY <2>4, <2>5 DEF Classes
  <2>7. class \subseteq page
    BY <2>6 DEF Closed
  <2>8. class = {j \in page : at0[j] = c}
    BY <2>4, <2>7
  <2>9. class \in Classes(sch, page, at0)
    BY <2>5, <2>8 DEF Classes
  <2> QED BY <2>7, <2>9
<1>2. CASE \E m \in sch.unique : class = OfModels(new, {m})
  <2>1. PICK m \in sch.unique : class = OfModels(new, {m})
    BY <1>2
  <2>2. found = new
    BY <2>1 DEF Bounded
  <2>3. class \in Classes(sch, found, at0)
    BY <2>2
  <2>4. class \subseteq page
    BY <2>3 DEF Closed
  <2>5. class = OfModels(page, {m})
    BY <2>1, <2>4 DEF OfModels
  <2>6. class \in Classes(sch, page, at0)
    BY <2>5 DEF Classes
  <2> QED BY <2>4, <2>6
<1>3. CASE \E pair \in sch.cascades : /\ OfModels(new, {pair[1]}) # {}
                                      /\ OfModels(new, {pair[2]}) # {}
                                      /\ class = OfModels(new, {pair[1], pair[2]})
  <2>1. PICK pair \in sch.cascades : /\ OfModels(new, {pair[1]}) # {}
                                     /\ OfModels(new, {pair[2]}) # {}
                                     /\ class = OfModels(new, {pair[1], pair[2]})
    BY <1>3
  <2>2. found = new
    BY <2>1 DEF Bounded
  <2>3. class \in Classes(sch, found, at0)
    BY <2>2
  <2>4. class \subseteq page
    BY <2>3 DEF Closed
  <2>5. class = OfModels(page, {pair[1], pair[2]})
    BY <2>1, <2>4 DEF OfModels
  <2>6. OfModels(page, {pair[1]}) # {} /\ OfModels(page, {pair[2]}) # {}
    BY <2>1, <2>4 DEF OfModels
  <2>7. class \in Classes(sch, page, at0)
    BY <2>1, <2>5, <2>6 DEF Classes
  <2> QED BY <2>4, <2>7
<1> QED BY <1>1, <1>2, <1>3 DEF Classes

\* What a delivery d of the newer records is: its units carry a page of them
\* that is complete up to the end of its range and splits no class.
Delivers(d, sch, new, at0, after, through) ==
    /\ d.after = after /\ d.at = at0
    /\ d.through \in Nat /\ after <= d.through /\ d.through <= through
    /\ after < through => after < d.through
    /\ \E page \in SUBSET new :
         /\ Carries(d.units, Classes(sch, page, at0), page, at0, after, d.through)
         /\ \A k \in new : at0[k] <= d.through => k \in page
         /\ \A class \in Classes(sch, new, at0) :
               class \cap page # {} => class \subseteq page /\ class \in Classes(sch, page, at0)

LEMMA DeliveryDelivers ==
    ASSUME NEW sch, NEW sel, sel \subseteq Keys, NEW at0 \in [Keys -> Nat],
           NEW after \in Nat, NEW through \in Nat, after <= through
    PROVE  Delivers(Delivery(sch, sel, at0, after, through), sch,
                    Newer(sel, at0, after), at0, after, through)
<1> DEFINE new    == Newer(sel, at0, after)
           found  == Candidates(sch, sel, at0, after)
           reach  == Reach(sch, found, at0, through)
           groups == Groups(sch, found, at0)
           end    == PageThrough(groups, at0, reach)
           page   == PageKeys(groups, at0, reach)
           units  == Coalesce(PlanUnits(sch, page, at0, after, end))
           d      == Delivery(sch, sel, at0, after, through)
<1>1. d = [after |-> after, through |-> end, at |-> at0, units |-> units]
  BY DEF Delivery
<1>2. /\ found \subseteq new
      /\ ~Bounded(sch) => found = new
      /\ \A j, k \in new : k \in found /\ at0[j] <= at0[k] => j \in found
      /\ reach \in Nat /\ after <= reach /\ reach <= through
      /\ after < through => after < reach
      /\ \A k \in new : at0[k] <= reach => k \in found
  BY CandidatesComplete
<1>3. new \subseteq Keys /\ \A k \in new : at0[k] > after
  BY DEF Newer
<1>4. found \subseteq Keys /\ IsFiniteSet(found) /\ \A k \in found : at0[k] > after
  BY <1>2, <1>3, UnitsAssumption, FS_Subset
<1> HIDE DEF new, found, reach
<1>5. Ordered(groups, Classes(sch, found, at0), found, at0)
  BY <1>4, GroupsAreOrdered
<1> HIDE DEF groups
<1>6. /\ page \subseteq found /\ Closed(page, Classes(sch, found, at0))
      /\ end \in Nat /\ after <= end /\ end <= reach
      /\ after < reach => after < end
      /\ \A k \in found : at0[k] <= end => k \in page
  <2>1. reach \in Nat /\ after <= reach
    BY <1>2
  <2> DEFINE classes == Classes(sch, found, at0)
  <2>2. Ordered(groups, classes, found, at0)
    BY <1>5
  <2> HIDE DEF classes
  <2>3. /\ page \subseteq found /\ Closed(page, classes)
        /\ end \in Nat /\ after <= end /\ end <= reach
        /\ after < reach => after < end
        /\ \A k \in found : at0[k] <= end => k \in page
    BY <2>1, <2>2, <1>4, PageIsComplete
  <2> QED BY <2>3 DEF classes
<1> HIDE DEF end, page
<1>7. Carries(units, Classes(sch, page, at0), page, at0, after, end)
  BY <1>4, <1>6, PlanUnitsCarry, CoalesceCarries
<1>8. \A class \in Classes(sch, new, at0) :
        class \cap page # {} => class \subseteq page /\ class \in Classes(sch, page, at0)
  BY <1>2, <1>3, <1>6, ClassesStayWhole
<1> HIDE DEF units, d
<1>9. /\ d.after = after /\ d.at = at0 /\ d.through = end /\ d.units = units
      /\ page \in SUBSET new
  BY <1>1, <1>2, <1>6
<1>10. /\ end <= through /\ (after < through => after < end)
       /\ \A k \in new : at0[k] <= end => k \in page
  <2>1. end <= through /\ (after < through => after < end)
    BY <1>2, <1>6
  <2>2. ASSUME NEW k \in new, at0[k] <= end PROVE k \in page
    <3>1. at0[k] \in Nat /\ at0[k] <= reach
      BY <2>2, <1>2, <1>3, <1>6
    <3> QED BY <3>1, <2>2, <1>2, <1>6
  <2> QED BY <2>1, <2>2
<1>11. Delivers(d, sch, new, at0, after, through)
  BY <1>6, <1>7, <1>8, <1>9, <1>10 DEF Delivers
<1> QED BY <1>11 DEF d, new

\* What the units of a delivery show: they are records of the range, each
\* coverage is carried up to its unit, and no class is split between two.
LEMMA UnitsProve ==
    ASSUME NEW d, NEW sch, NEW new, new \subseteq Keys, NEW at0 \in [Keys -> Nat],
           NEW after \in Nat, NEW through \in Nat,
           Delivers(d, sch, new, at0, after, through)
    PROVE  LET u == d.units
           IN  /\ Len(u) \in Nat /\ Len(u) > 0 /\ DOMAIN u = 1..Len(u)
               /\ u \in Seq(UnitOf(new)) /\ u[Len(u)].through = d.through
               /\ \A i \in DOMAIN u :
                    /\ u[i].keys \subseteq new
                    /\ u[i].through \in Int /\ u[i].through <= d.through
                    /\ \A k \in new : at0[k] <= u[i].through => \E j \in 1..i : k \in u[j].keys
                    /\ \A class \in Classes(sch, new, at0) :
                          class \cap u[i].keys # {} => class \subseteq u[i].keys
<1> DEFINE u == d.units
<1>1. PICK page \in SUBSET new :
        /\ Carries(u, Classes(sch, page, at0), page, at0, after, d.through)
        /\ \A k \in new : at0[k] <= d.through => k \in page
        /\ \A class \in Classes(sch, new, at0) :
              class \cap page # {} => class \subseteq page /\ class \in Classes(sch, page, at0)
  BY DEF Delivers
<1>2. d.through \in Nat
  BY DEF Delivers
<1> HIDE DEF u
<1>3. u \in Seq(UnitOf(page)) /\ Len(u) > 0 /\ u[Len(u)].through = d.through
  BY <1>1 DEF Carries
<1>4. Len(u) \in Nat /\ DOMAIN u = 1..Len(u) /\ \A i \in DOMAIN u : u[i] \in UnitOf(page)
  BY <1>3
<1>5. u \in Seq(UnitOf(new))
  <2>1. UnitOf(page) \subseteq UnitOf(new)
    BY DEF UnitOf
  <2> QED BY <2>1, <1>3
<1>6. ASSUME NEW i \in DOMAIN u
      PROVE  /\ u[i].keys \subseteq page
             /\ u[i].through \in Int /\ u[i].through <= d.through
  <2>1. u[i] \in UnitOf(page)
    BY <1>4
  <2>2. u[i].keys \subseteq page /\ u[i].through \in Nat \cup {NoThrough}
    BY <2>1 DEF UnitOf
  <2>3. u[i].through # NoThrough => u[i].through <= d.through
    BY <1>1 DEF Carries
  <2> QED BY <2>2, <2>3, <1>2 DEF NoThrough
<1>7. ASSUME NEW i \in DOMAIN u, NEW k \in new, at0[k] <= u[i].through
      PROVE  \E j \in 1..i : k \in u[j].keys
  <2>1. at0[k] \in Nat /\ at0[k] <= d.through
    BY <1>2, <1>6, <1>7
  <2>2. k \in page
    BY <2>1, <1>1
  <2>3. PICK j \in DOMAIN u : k \in u[j].keys
    BY <2>2, <1>1 DEF Carries
  <2>4. ~(i < j)
    <3>1. ASSUME i < j PROVE at0[k] > u[i].through
      BY <3>1, <2>3, <1>1 DEF Carries
    <3> QED BY <3>1, <2>1, <1>6, <1>7
  <2>5. j \in 1..i
    BY <2>4, <1>4
  <2> QED BY <2>3, <2>5
<1>8. ASSUME NEW i \in DOMAIN u, NEW class \in Classes(sch, new, at0), class \cap u[i].keys # {}
      PROVE  class \subseteq u[i].keys
  <2>1. class \cap page # {}
    BY <1>6, <1>8
  <2>2. class \in Classes(sch, page, at0)
    BY <2>1, <1>1
  <2>3. Closed(u[i].keys, Classes(sch, page, at0))
    BY <1>1 DEF Carries
  <2> QED BY <2>2, <2>3, <1>8 DEF Closed
<1> QED BY <1>3, <1>4, <1>5, <1>6, <1>7, <1>8 DEF u

----------------------------------------------------------------------------
(***************************************************************************)
(* The requests of DeliveryPlanning.                                       *)
(***************************************************************************)

\* A request has a legal range over legal positions, and its plan, once there
\* is one, is the delivery of that range; the installed units are its units.
RequestOK ==
    /\ selected \subseteq Keys
    /\ at \in [Keys -> 0..MaxHead]
    /\ request \in [after : 0..MaxHead, through : 0..MaxHead]
    /\ request.after <= request.through

PlanInv ==
    /\ RequestOK
    /\ next \in Nat /\ next <= Len(plan.units)
    /\ \/ plan = NoPlan
       \/ plan = Delivery(schema, selected, at, request.after, request.through)

LEMMA InitPlans == Init => PlanInv
<1> SUFFICES ASSUME Init PROVE PlanInv
  OBVIOUS
<1>1. RequestOK
  BY DEF Init, RequestOK, OfModels
<1>2. next \in Nat /\ plan = NoPlan /\ plan.units = <<>> /\ next = 0
  BY DEF Init, NoPlan
<1>3. next <= Len(plan.units)
  BY <1>2
<1> QED BY <1>1, <1>2, <1>3 DEF PlanInv

\* The delivery a request is answered with.
LEMMA RequestDelivers ==
    ASSUME RequestOK
    PROVE  LET d == Delivery(schema, selected, at, request.after, request.through)
               new == Newer(selected, at, request.after)
           IN  /\ Delivers(d, schema, new, at, request.after, request.through)
               /\ new \subseteq Keys
               /\ at \in [Keys -> Nat] /\ request.after \in Nat /\ request.through \in Nat
<1>1. MaxHead \in Nat
  BY PlanningAssumption
<1>2. /\ selected \subseteq Keys /\ at \in [Keys -> Nat]
      /\ request.after \in Nat /\ request.through \in Nat
      /\ request.after <= request.through
  BY <1>1 DEF RequestOK
<1>3. Newer(selected, at, request.after) \subseteq Keys
  BY <1>2 DEF Newer
<1> QED BY <1>2, <1>3, DeliveryDelivers

LEMMA NextPlans == PlanInv /\ [Next]_vars => PlanInv'
<1> SUFFICES ASSUME PlanInv, [Next]_vars PROVE PlanInv'
  OBVIOUS
<1>1. CASE Serve
  <2> DEFINE d == Delivery(schema, selected, at, request.after, request.through)
  <2>1. /\ plan' = d /\ plan.units = <<>> /\ next' = next /\ schema' = schema
        /\ selected' = selected /\ at' = at /\ request' = request
    BY <1>1 DEF Serve
  <2>2. RequestOK'
    BY <2>1 DEF PlanInv, RequestOK
  <2>3. Len(d.units) \in Nat
    <3>1. RequestOK
      BY DEF PlanInv
    <3> QED BY <3>1, RequestDelivers, UnitsProve
  <2>4. next = 0
    BY <2>1 DEF PlanInv
  <2>5. plan' = Delivery(schema, selected, at, request.after, request.through)'
    BY <2>1
  <2> HIDE DEF d
  <2> QED BY <2>1, <2>2, <2>3, <2>4, <2>5 DEF PlanInv
<1>2. CASE Install
  <2>1. /\ next < Len(plan.units) /\ next' = next + 1 /\ plan' = plan /\ schema' = schema
        /\ selected' = selected /\ at' = at /\ request' = request
    BY <1>2 DEF Install
  <2>2. RequestOK' /\ (NoPlan)' = NoPlan
    BY <2>1 DEF PlanInv, RequestOK, NoPlan
  <2>3. Len(plan.units) \in Nat
    <3>1. CASE plan = NoPlan
      BY <3>1 DEF NoPlan
    <3>2. CASE plan = Delivery(schema, selected, at, request.after, request.through)
      <4>1. RequestOK
        BY DEF PlanInv
      <4> QED BY <3>2, <4>1, RequestDelivers, UnitsProve
    <3> QED BY <3>1, <3>2 DEF PlanInv
  <2>4. next' \in Nat /\ next' <= Len(plan'.units)
    BY <2>1, <2>3 DEF PlanInv
  <2> QED BY <2>1, <2>2, <2>4 DEF PlanInv
<1>3. CASE UNCHANGED vars
  BY <1>3 DEF vars, PlanInv, RequestOK, NoPlan
<1> QED BY <1>1, <1>2, <1>3 DEF Next

LEMMA PlansKept == Spec => []PlanInv
BY InitPlans, NextPlans, PTL DEF Spec

\* An answered request, with what its delivery and its units are.
LEMMA Answered ==
    ASSUME PlanInv, plan.units # <<>>
    PROVE  LET new == Newer(selected, at, request.after)
               u == plan.units
           IN  /\ RequestOK /\ next \in 0..Len(u)
               /\ Delivers(plan, schema, new, at, request.after, request.through)
               /\ new \subseteq Keys
               /\ at \in [Keys -> Nat] /\ request.after \in Nat /\ request.through \in Nat
               /\ Len(u) \in Nat /\ Len(u) > 0 /\ DOMAIN u = 1..Len(u)
               /\ u \in Seq(UnitOf(new)) /\ u[Len(u)].through = plan.through
               /\ \A i \in DOMAIN u :
                    /\ u[i].keys \subseteq new
                    /\ u[i].through \in Int /\ u[i].through <= plan.through
                    /\ \A k \in new : at[k] <= u[i].through => \E j \in 1..i : k \in u[j].keys
                    /\ \A class \in Classes(schema, new, at) :
                          class \cap u[i].keys # {} => class \subseteq u[i].keys
<1> DEFINE new == Newer(selected, at, request.after)
           u == plan.units
<1>1. RequestOK /\ next \in Nat /\ next <= Len(u)
  BY DEF PlanInv
<1>2. plan = Delivery(schema, selected, at, request.after, request.through)
  BY DEF PlanInv, NoPlan
<1>3. /\ Delivers(plan, schema, new, at, request.after, request.through)
      /\ new \subseteq Keys
      /\ at \in [Keys -> Nat] /\ request.after \in Nat /\ request.through \in Nat
  BY <1>1, <1>2, RequestDelivers
<1> HIDE DEF new
<1>4. /\ Len(u) \in Nat /\ Len(u) > 0 /\ DOMAIN u = 1..Len(u)
      /\ u \in Seq(UnitOf(new)) /\ u[Len(u)].through = plan.through
      /\ \A i \in DOMAIN u :
           /\ u[i].keys \subseteq new
           /\ u[i].through \in Int /\ u[i].through <= plan.through
           /\ \A k \in new : at[k] <= u[i].through => \E j \in 1..i : k \in u[j].keys
           /\ \A class \in Classes(schema, new, at) :
                 class \cap u[i].keys # {} => class \subseteq u[i].keys
  <2> DEFINE after == request.after
             through == request.through
  <2>1. /\ Delivers(plan, schema, new, at, after, through)
        /\ after \in Nat /\ through \in Nat
    BY <1>3
  <2> HIDE DEF after, through
  <2> QED BY <2>1, <1>3, UnitsProve
<1> HIDE DEF u
<1>5. next \in 0..Len(u)
  BY <1>1, <1>4
<1> QED BY <1>1, <1>3, <1>4, <1>5 DEF new, u

\* The server's validation of the plan it froze, and the client's of the plan
\* it receives, accept every plan: coverages ascend within the range, only the
\* last unit ends it, and no unit carries a record an earlier one covers.
THEOREM PlansValidateAlways == Spec => []PlansValidate
<1>1. ASSUME PlanInv PROVE PlansValidate
  <2> SUFFICES ASSUME plan.units # <<>> PROVE ValidHeader(plan, MaxHead)
    BY DEF PlansValidate
  <2> DEFINE new == Newer(selected, at, request.after)
             u == plan.units
             after == request.after
  <2>1. /\ RequestOK /\ Delivers(plan, schema, new, at, after, request.through)
        /\ new \subseteq Keys /\ at \in [Keys -> Nat] /\ after \in Nat /\ request.through \in Nat
        /\ Len(u) \in Nat /\ Len(u) > 0 /\ DOMAIN u = 1..Len(u)
        /\ u[Len(u)].through = plan.through
        /\ \A i \in DOMAIN u : /\ u[i].keys \subseteq new
                               /\ u[i].through \in Int /\ u[i].through <= plan.through
    BY <1>1, Answered
  <2>2. /\ plan.after = after /\ plan.at = at
        /\ plan.through \in Nat /\ after <= plan.through /\ plan.through <= request.through
    BY <2>1 DEF Delivers
  <2>3. PICK page \in SUBSET new : Carries(u, Classes(schema, page, at), page, at, after, plan.through)
    BY <2>1 DEF Delivers
  <2>4. plan.through <= MaxHead /\ \A k \in new : at[k] > after /\ at[k] <= MaxHead
    <3>1. MaxHead \in Nat
      BY PlanningAssumption
    <3> QED BY <3>1, <2>1, <2>2 DEF RequestOK, Newer
  <2> HIDE DEF new, u, after
  <2>5. ASSUME NEW i \in DOMAIN u PROVE ValidCoverage(plan, i)
    <3> DEFINE t == u[i].through
               before == {u[j].through : j \in 1..(i - 1)} \cup {after}
    <3> SUFFICES ASSUME t # NoThrough
                 PROVE  /\ Max(before) <= t /\ t <= plan.through
                        /\ i < Len(u) => t # plan.through
                        /\ \A k \in Later(u, i) : at[k] > t
      BY <2>2 DEF ValidCoverage, u
    <3>1. t \in Int /\ i \in 1..Len(u)
      BY <2>1
    <3>2. \A j \in 1..(i - 1) : j \in DOMAIN u /\ j < i
      BY <2>1, <3>1
    <3>3. \A x \in before : x \in Int /\ x <= t
      <4>1. after <= t
        BY <2>3 DEF Carries
      <4>2. ASSUME NEW j \in 1..(i - 1) PROVE u[j].through \in Int /\ u[j].through <= t
        BY <3>2, <2>1, <2>3 DEF Carries
      <4> QED BY <4>1, <4>2, <2>1
    <3>4. Max(before) \in before
      <4>1. before # {} /\ before \subseteq Int
        BY <3>3
      <4> HIDE DEF before
      <4> QED BY <4>1, <3>1, <3>3, MaxIsGreatest
    <3>5. Max(before) <= t
      <4> HIDE DEF before
      <4> QED BY <3>3, <3>4
    <3>6. t <= plan.through /\ (i < Len(u) => t # plan.through)
      BY <2>1, <2>3 DEF Carries
    <3>7. ASSUME NEW k \in Later(u, i) PROVE at[k] > t
      <4>1. PICK j \in (i + 1)..Len(u) : k \in u[j].keys
        BY DEF Later
      <4>2. j \in DOMAIN u /\ i < j
        BY <3>1, <2>1
      <4> QED BY <4>1, <4>2, <2>3 DEF Carries
    <3> QED BY <3>5, <3>6, <3>7
  <2>6. ASSUME NEW i \in DOMAIN u, NEW k \in u[i].keys PROVE at[k] > after /\ at[k] <= MaxHead
    BY <2>1, <2>4
  <2>7. Last(u).through = plan.through
    BY <2>1 DEF Last
  <2> QED BY <2>1, <2>2, <2>4, <2>5, <2>6, <2>7 DEF ValidHeader, u
<1> QED BY <1>1, PlansKept, PTL

\* Whatever the installed units cover is installed, after every one of them.
THEOREM PrefixProvenAlways == Spec => []PrefixProven
<1>1. ASSUME PlanInv PROVE PrefixProven
  <2> DEFINE new == Newer(selected, at, request.after)
             u == plan.units
             after == request.after
             S == {u[i].through : i \in 1..next} \cup {after}
  <2> SUFFICES ASSUME plan.units # <<>>, NEW k \in selected, at[k] > plan.after, at[k] <= Covered
               PROVE  k \in Installed
    BY DEF PrefixProven
  <2>1. /\ Delivers(plan, schema, new, at, after, request.through)
        /\ RequestOK /\ at \in [Keys -> Nat] /\ after \in Nat
        /\ next \in 0..Len(u) /\ Len(u) \in Nat /\ DOMAIN u = 1..Len(u)
        /\ \A i \in DOMAIN u :
             /\ u[i].through \in Int /\ u[i].through <= plan.through
             /\ \A j \in new : at[j] <= u[i].through => \E m \in 1..i : j \in u[m].keys
    BY <1>1, Answered
  <2>2. plan.after = after /\ plan.through \in Nat /\ after <= plan.through
    BY <2>1 DEF Delivers
  <2>3. Covered = Max(S) /\ k \in new
    BY <2>2 DEF Covered, Newer
  <2> HIDE DEF new, u, after
  <2>4. S \subseteq Int /\ S # {} /\ \A x \in S : x <= plan.through
    BY <2>1, <2>2
  <2>5. Max(S) \in S
    <3> HIDE DEF S
    <3>1. plan.through \in Int
      BY <2>2
    <3> QED BY <3>1, <2>4, MaxIsGreatest
  <2>6. Max(S) # after
    <3> HIDE DEF S
    <3>1. k \in Keys
      BY <2>1 DEF RequestOK
    <3> QED BY <3>1, <2>1, <2>2, <2>3
  <2>7. PICK i \in 1..next : Max(S) = u[i].through
    BY <2>5, <2>6
  <2>8. i \in DOMAIN u
    BY <2>1
  <2>9. PICK m \in 1..i : k \in u[m].keys
    BY <2>1, <2>3, <2>7, <2>8
  <2>10. m \in 1..next
    BY <2>1
  <2> QED BY <2>9, <2>10 DEF Installed, u
<1> QED BY <1>1, PlansKept, PTL

\* No step of the installation leaves a tied pair of records half installed.
THEOREM ComponentsAtomicAlways == Spec => []ComponentsAtomic
<1>1. ASSUME PlanInv PROVE ComponentsAtomic
  <2> DEFINE new == Newer(selected, at, request.after)
             u == plan.units
  <2> SUFFICES ASSUME NEW class \in Classes(schema, new, at), class \cap Installed # {}
               PROVE  class \subseteq Installed
    BY DEF ComponentsAtomic, Newer
  <2>1. PICK i \in 1..next : class \cap u[i].keys # {}
    BY DEF Installed
  <2>2. plan.units # <<>>
    <3>1. next \in Nat /\ next <= Len(plan.units)
      BY <1>1 DEF PlanInv
    <3> QED BY <3>1, <2>1
  <2>3. /\ next \in 0..Len(u) /\ Len(u) \in Nat /\ DOMAIN u = 1..Len(u)
        /\ \A j \in DOMAIN u : class \cap u[j].keys # {} => class \subseteq u[j].keys
    BY <1>1, <2>2, Answered
  <2>4. i \in DOMAIN u
    BY <2>3
  <2>5. class \subseteq u[i].keys
    BY <2>1, <2>3, <2>4
  <2> QED BY <2>1, <2>5 DEF Installed
<1> QED BY <1>1, PlansKept, PTL

\* Every page of a range that is not empty covers some of it.
THEOREM PagesProgressAlways == Spec => []PagesProgress
<1>1. ASSUME PlanInv PROVE PagesProgress
  <2> SUFFICES ASSUME plan.units # <<>>, request.after < request.through
               PROVE  plan.through > plan.after
    BY DEF PagesProgress
  <2>1. /\ Delivers(plan, schema, Newer(selected, at, request.after), at,
                    request.after, request.through)
        /\ request.after \in Nat
    BY <1>1, Answered
  <2> QED BY <2>1 DEF Delivers
<1> QED BY <1>1, PlansKept, PTL

----------------------------------------------------------------------------
(***************************************************************************)
(* The contract of DeliveryContract, of which StreamStore's proofs are.    *)
(***************************************************************************)

CONSTANT BootKeys   \* the keys of @@bootstrap Models

Contract == INSTANCE DeliveryContract

\* The plan a delivery is to the Store that asked for it.
PlanFor(sch, lane, after, through, at0) ==
    LET d == Delivery(sch, Contract!Selected(lane), at0, after, through)
    IN  [boot |-> lane, after |-> after, through |-> d.through, at |-> at0, units |-> d.units]

\* The planner keeps the contract that StreamStore assumes of it: under every
\* schema, for both lanes and every legal request, whatever the page and unit
\* sizes are, its plan carries every selected record up to each coverage.
THEOREM PlannerKeepsContract ==
    ASSUME BootKeys \subseteq Keys,
           NEW sch, NEW lane \in BOOLEAN, NEW at0 \in [Keys -> 0..MaxHead],
           NEW after \in 0..MaxHead, NEW through \in 0..MaxHead, after <= through
    PROVE  Contract!PlanContract(lane, after, through, at0,
                                 PlanFor(sch, lane, after, through, at0))
<1> DEFINE sel == Contract!Selected(lane)
           new == Newer(sel, at0, after)
           d == Delivery(sch, sel, at0, after, through)
           u == d.units
           q == PlanFor(sch, lane, after, through, at0)
<1>1. MaxHead \in Nat
  BY PlanningAssumption
<1>2. /\ sel \subseteq Keys /\ at0 \in [Keys -> Nat] /\ after \in Nat /\ through \in Nat
      /\ new \subseteq Keys
  BY <1>1 DEF Contract!Selected, Newer
<1>3. q = [boot |-> lane, after |-> after, through |-> d.through, at |-> at0, units |-> u]
  BY DEF PlanFor
<1> HIDE DEF sel
<1>4. Delivers(d, sch, new, at0, after, through)
  BY <1>2, DeliveryDelivers
<1> HIDE DEF d, new
<1>5. /\ Len(u) \in Nat /\ Len(u) > 0 /\ DOMAIN u = 1..Len(u)
      /\ u \in Seq(UnitOf(new)) /\ u[Len(u)].through = d.through
      /\ \A i \in DOMAIN u :
           /\ u[i].keys \subseteq new
           /\ u[i].through \in Int /\ u[i].through <= d.through
           /\ \A k \in new : at0[k] <= u[i].through => \E j \in 1..i : k \in u[j].keys
  <2>1. /\ Len(u) \in Nat /\ Len(u) > 0 /\ DOMAIN u = 1..Len(u)
        /\ u \in Seq(UnitOf(new)) /\ u[Len(u)].through = d.through
        /\ \A i \in DOMAIN u :
             /\ u[i].keys \subseteq new
             /\ u[i].through \in Int /\ u[i].through <= d.through
             /\ \A k \in new : at0[k] <= u[i].through => \E j \in 1..i : k \in u[j].keys
             /\ \A class \in Classes(sch, new, at0) :
                   class \cap u[i].keys # {} => class \subseteq u[i].keys
    BY <1>2, <1>4, UnitsProve
  <2> QED BY <2>1
<1>6. d.through \in Nat /\ after <= d.through /\ d.through <= through
  BY <1>4 DEF Delivers
<1> HIDE DEF u, q
<1>7. /\ q.boot = lane /\ q.after = after /\ q.through = d.through
      /\ q.at = at0 /\ q.units = u
  BY <1>3
<1>8. q \in Contract!Plan
  <2>1. u \in Seq(Contract!Unit)
    <3>1. UnitOf(new) \subseteq Contract!Unit
      BY <1>2 DEF UnitOf, NoThrough, Contract!Unit, Contract!None
    <3> QED BY <3>1, <1>5
  <2>2. d.through \in 0..MaxHead
    BY <1>1, <1>6
  <2> QED BY <2>1, <2>2, <1>3 DEF Contract!Plan
<1>9. ASSUME NEW i \in 1..Len(u)
      PROVE  /\ u[i].keys \subseteq {k \in sel : at0[k] > after}
             /\ u[i].through <= d.through
             /\ Contract!PrefixCarried(q, i)
  <2>1. i \in DOMAIN u
    BY <1>5
  <2>2. new = {k \in sel : at0[k] > after}
    BY DEF new, Newer
  <2>3. ASSUME NEW k \in sel, at0[k] > after, at0[k] <= u[i].through
        PROVE  \E j \in 1..i : k \in u[j].keys
    BY <2>1, <2>2, <2>3, <1>5
  <2>4. Contract!PrefixCarried(q, i)
    BY <2>3, <1>7 DEF Contract!PrefixCarried, sel
  <2> QED BY <2>1, <2>2, <2>4, <1>5
<1>10. u # <<>>
  BY <1>5
<1>11. Contract!PlanContract(lane, after, through, at0, q)
  BY <1>5, <1>6, <1>7, <1>8, <1>9, <1>10 DEF Contract!PlanContract, sel
<1> QED BY <1>11 DEF q

=============================================================================
