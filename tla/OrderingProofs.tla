-------------------------- MODULE OrderingProofs --------------------------
(***************************************************************************)
(* Facts about orders on finite sets: what the sorted lists of the program *)
(* and of the definitions they are compared with rest on.                  *)
(***************************************************************************)
EXTENDS Ordering, FiniteSetTheorems, TLAPS

\* R orders S strictly, and any two elements of it.
StrictOrder(R, S) ==
    /\ \A x \in S : <<x, x>> \notin R
    /\ \A x, y, z \in S : <<x, y>> \in R /\ <<y, z>> \in R => <<x, z>> \in R
    /\ \A x, y \in S : x # y => <<x, y>> \in R \/ <<y, x>> \in R

\* What comes before x.
Ahead(R, S, x) == {y \in S : <<y, x>> \in R}

\* Every set of numbers but the empty one has a smallest number.
LEMMA SmallestNumber ==
    ASSUME NEW T \in SUBSET Nat, T # {}
    PROVE  \E n \in T : \A m \in T : n <= m
<1> DEFINE less == {p \in Nat \X Nat : p[1] < p[2]}
<1>1. IsWellFoundedOn(less, Nat)
  BY NatLessThanWellFounded DEF OpToRel
<1>2. PICK n \in T : \A m \in T : ~ (<<m, n>> \in less)
  <2> HIDE DEF less
  <2>1. QED
    BY <1>1, WFMin
<1>3. \A m \in T : ~ (m < n)
  BY <1>2
<1>4. QED
  BY <1>3

\* Of the elements of a finite set in order, each has its own number before it.
LEMMA AheadIsCounted ==
    ASSUME NEW S, IsFiniteSet(S), NEW R, StrictOrder(R, S)
    PROVE  /\ \A x \in S : Cardinality(Ahead(R, S, x)) \in 0..(Cardinality(S) - 1)
           /\ \A x, y \in S : <<x, y>> \in R =>
                 Cardinality(Ahead(R, S, x)) < Cardinality(Ahead(R, S, y))
<1>1. \A x \in S : /\ IsFiniteSet(Ahead(R, S, x)) /\ Cardinality(Ahead(R, S, x)) \in Nat
                   /\ Cardinality(Ahead(R, S, x)) < Cardinality(S)
  <2>1. SUFFICES ASSUME NEW x \in S
                 PROVE  /\ IsFiniteSet(Ahead(R, S, x)) /\ Cardinality(Ahead(R, S, x)) \in Nat
                        /\ Cardinality(Ahead(R, S, x)) < Cardinality(S)
    OBVIOUS
  <2>2. Ahead(R, S, x) \in SUBSET S /\ x \notin Ahead(R, S, x)
    BY DEF Ahead, StrictOrder
  <2>3. /\ IsFiniteSet(Ahead(R, S, x)) /\ Cardinality(Ahead(R, S, x)) <= Cardinality(S)
        /\ Cardinality(S) = Cardinality(Ahead(R, S, x)) => S = Ahead(R, S, x)
    BY <2>2, FS_Subset
  <2>4. Cardinality(Ahead(R, S, x)) \in Nat /\ Cardinality(S) \in Nat
    BY <2>3, FS_CardinalityType
  <2>5. QED
    BY <2>2, <2>3, <2>4
<1>2. \A x, y \in S : <<x, y>> \in R =>
         Cardinality(Ahead(R, S, x)) < Cardinality(Ahead(R, S, y))
  <2>1. SUFFICES ASSUME NEW x \in S, NEW y \in S, <<x, y>> \in R
                 PROVE  Cardinality(Ahead(R, S, x)) < Cardinality(Ahead(R, S, y))
    OBVIOUS
  <2>2. /\ Ahead(R, S, x) \in SUBSET Ahead(R, S, y)
        /\ x \in Ahead(R, S, y) /\ x \notin Ahead(R, S, x)
    BY <2>1 DEF Ahead, StrictOrder
  <2>3. /\ Cardinality(Ahead(R, S, x)) <= Cardinality(Ahead(R, S, y))
        /\ Cardinality(Ahead(R, S, y)) = Cardinality(Ahead(R, S, x))
              => Ahead(R, S, y) = Ahead(R, S, x)
    BY <1>1, <2>2, FS_Subset
  <2>4. QED
    BY <1>1, <2>2, <2>3
<1>3. Cardinality(S) \in Nat
  BY FS_CardinalityType
<1>4. QED
  BY <1>1, <1>2, <1>3

\* Every place of the ordered list is taken by exactly one element.
LEMMA PlacesAreTaken ==
    ASSUME NEW S, IsFiniteSet(S), NEW R, StrictOrder(R, S)
    PROVE  /\ \A i \in 1..Cardinality(S) : \E x \in S : Cardinality(Ahead(R, S, x)) = i - 1
           /\ \A x, y \in S :
                 Cardinality(Ahead(R, S, x)) = Cardinality(Ahead(R, S, y)) => x = y
<1> DEFINE N == 0..(Cardinality(S) - 1)
           rank == [x \in S |-> Cardinality(Ahead(R, S, x))]
<1>1. Cardinality(S) \in Nat
  BY FS_CardinalityType
<1>2. \A x, y \in S : rank[x] = rank[y] => x = y
  <2>1. SUFFICES ASSUME NEW x \in S, NEW y \in S, x # y
                 PROVE  rank[x] # rank[y]
    OBVIOUS
  <2>2. <<x, y>> \in R \/ <<y, x>> \in R
    BY <2>1 DEF StrictOrder
  <2>3. rank[x] \in Nat /\ rank[y] \in Nat
    BY AheadIsCounted
  <2>4. rank[x] < rank[y] \/ rank[y] < rank[x]
    BY <2>2, AheadIsCounted
  <2>5. QED
    BY <2>3, <2>4
<1>3. rank \in [S -> N]
  BY AheadIsCounted
<1>4. rank \in Injection(S, N)
  BY <1>2, <1>3 DEF Injection, IsInjective
<1>5. IsFiniteSet(N) /\ Cardinality(N) = Cardinality(S)
  <2>1. Cardinality(S) - 1 \in Int
    BY <1>1
  <2>2. QED
    BY <1>1, <2>1, FS_Interval
<1>6. rank \in Surjection(S, N)
  <2> HIDE DEF N, rank
  <2>1. QED
    BY <1>4, <1>5, FS_Injection
<1>7. \A k \in N : \E x \in S : rank[x] = k
  BY <1>6 DEF Surjection
<1>8. \A i \in 1..Cardinality(S) : \E x \in S : Cardinality(Ahead(R, S, x)) = i - 1
  <2>1. \A i \in 1..Cardinality(S) : i - 1 \in N
    BY <1>1
  <2>2. QED
    BY <1>7, <2>1
<1>9. QED
  BY <1>2, <1>8

\* A list of distinct elements holds as many as their set, and as many of its
\* elements come before one of them as there are in that set.
LEMMA ListedOnce ==
    ASSUME NEW S, IsFiniteSet(S), NEW R, StrictOrder(R, S), NEW s \in Seq(S),
           \A x \in S : \E i \in DOMAIN s : s[i] = x,
           \A i, j \in DOMAIN s : i # j => s[i] # s[j]
    PROVE  /\ Len(s) = Cardinality(S)
           /\ \A j \in DOMAIN s :
                 Cardinality({k \in DOMAIN s : \/ <<s[k], s[j]>> \in R
                                               \/ <<s[j], s[k]>> \notin R /\ k < j})
                     = Cardinality(Ahead(R, S, s[j]))
<1>1. Len(s) \in Nat /\ DOMAIN s = 1..Len(s) /\ \A i \in DOMAIN s : s[i] \in S
  OBVIOUS
<1>2. Len(s) = Cardinality(S)
  <2>1. s \in [1..Len(s) -> S]
    BY <1>1
  <2>2. s \in Bijection(1..Len(s), S)
    BY <1>1, <2>1 DEF Bijection, Injection, Surjection, IsInjective
  <2>3. ExistsBijection(1..Len(s), S)
    BY <2>2 DEF ExistsBijection
  <2>4. QED
    BY <1>1, <2>3, FS_CountingElements
<1>3. SUFFICES ASSUME NEW j \in DOMAIN s
               PROVE  Cardinality({k \in DOMAIN s : \/ <<s[k], s[j]>> \in R
                                                    \/ <<s[j], s[k]>> \notin R /\ k < j})
                          = Cardinality(Ahead(R, S, s[j]))
  BY <1>2
<1> DEFINE D == {k \in DOMAIN s : <<s[k], s[j]>> \in R}
           f == [k \in D |-> s[k]]
<1>4. {k \in DOMAIN s : \/ <<s[k], s[j]>> \in R
                        \/ <<s[j], s[k]>> \notin R /\ k < j} = D
  <2>1. \A k \in DOMAIN s : <<s[j], s[k]>> \notin R /\ k < j => <<s[k], s[j]>> \in R
    <3>1. SUFFICES ASSUME NEW k \in DOMAIN s, <<s[j], s[k]>> \notin R, k < j
                   PROVE  <<s[k], s[j]>> \in R
      OBVIOUS
    <3>2. s[k] # s[j] /\ s[k] \in S /\ s[j] \in S
      BY <1>1, <3>1
    <3>3. QED
      BY <3>1, <3>2 DEF StrictOrder
  <2>2. QED
    BY <2>1
<1>5. Ahead(R, S, s[j]) \in SUBSET S
  BY DEF Ahead
<1>6. IsFiniteSet(Ahead(R, S, s[j]))
  BY <1>5, FS_Subset
<1>7. f \in Bijection(D, Ahead(R, S, s[j]))
  <2>1. f \in [D -> Ahead(R, S, s[j])]
    BY <1>1 DEF Ahead
  <2>2. \A x \in Ahead(R, S, s[j]) : \E k \in D : f[k] = x
    BY <1>1 DEF Ahead
  <2>3. \A k, l \in D : f[k] = f[l] => k = l
    OBVIOUS
  <2>4. QED
    BY <2>1, <2>2, <2>3 DEF Bijection, Injection, Surjection, IsInjective
<1>8. Cardinality(D) = Cardinality(Ahead(R, S, s[j]))
  <2>1. IsFiniteSet(DOMAIN s) /\ D \in SUBSET DOMAIN s
    BY <1>1, FS_Interval
  <2>2. IsFiniteSet(D)
    BY <2>1, FS_Subset
  <2>3. ExistsBijection(D, Ahead(R, S, s[j]))
    BY <1>7 DEF ExistsBijection
  <2> HIDE DEF D
  <2>4. QED
    BY <2>2, <2>3, FS_Bijection
<1>9. QED
  BY <1>4, <1>8
-----------------------------------------------------------------------------
(* Sorting a list.                                                         *)

\* R orders S, and what is not ordered by it counts as equal.
WeakOrder(R, S) ==
    /\ \A x \in S : <<x, x>> \notin R
    /\ \A x, y, z \in S : <<x, y>> \in R /\ <<y, z>> \in R => <<x, z>> \in R
    /\ \A x, y, z \in S : <<x, z>> \in R => <<x, y>> \in R \/ <<y, z>> \in R

\* The order of the places of a list: equal elements stay in theirs.
Precedes(R, s, k, j) ==
    <<s[k], s[j]>> \in R \/ (<<s[j], s[k]>> \notin R /\ k < j)

Places(R, s) == {p \in (DOMAIN s) \X (DOMAIN s) : Precedes(R, s, p[1], p[2])}

\* A pair of elements.
LEMMA PairOf ==
    ASSUME NEW D, NEW k \in D, NEW j \in D
    PROVE  <<k, j>>[1] = k /\ <<k, j>>[2] = j /\ <<k, j>> \in D \X D
OBVIOUS

\* What the order says of two places.
LEMMA TwoPlaces ==
    ASSUME NEW R, NEW s, NEW k \in DOMAIN s, NEW j \in DOMAIN s
    PROVE  <<k, j>> \in Places(R, s) <=> Precedes(R, s, k, j)
<1> DEFINE x == <<k, j>>
           D == DOMAIN s
<1>0. k \in D /\ j \in D
  OBVIOUS
<1>2. Places(R, s) = {p \in D \X D : Precedes(R, s, p[1], p[2])}
  BY DEF Places
<1> HIDE DEF D
<1>1. x[1] = k /\ x[2] = j /\ x \in D \X D
  BY <1>0, PairOf
<1> HIDE DEF x
<1>3. x \in Places(R, s) <=> Precedes(R, s, x[1], x[2])
  BY <1>1, <1>2
<1>4. QED
  BY <1>1, <1>3 DEF x

\* The places of a list are strictly ordered.
LEMMA PlacesAreOrdered ==
    ASSUME NEW S, NEW R, WeakOrder(R, S), NEW s \in Seq(S)
    PROVE  StrictOrder(Places(R, s), DOMAIN s)
<1> DEFINE D == DOMAIN s
           P == Places(R, s)
<1>1. D \in SUBSET Nat /\ \A i \in D : s[i] \in S
  OBVIOUS
<1>2. \A k, j \in D : <<k, j>> \in P <=> \/ <<s[k], s[j]>> \in R
                                         \/ <<s[j], s[k]>> \notin R /\ k < j
  BY TwoPlaces DEF Precedes
<1> HIDE DEF D, P
<1>3. ASSUME NEW x \in D
      PROVE  <<x, x>> \notin P
  <2>1. x \in Nat /\ s[x] \in S
    BY <1>1
  <2>2. <<s[x], s[x]>> \notin R /\ ~ (x < x)
    BY <2>1 DEF WeakOrder
  <2>3. QED
    BY <1>2, <2>2
<1>4. ASSUME NEW x \in D, NEW y \in D, NEW z \in D, <<x, y>> \in P, <<y, z>> \in P
      PROVE  <<x, z>> \in P
  <2>1. s[x] \in S /\ s[y] \in S /\ s[z] \in S /\ x \in Nat /\ y \in Nat /\ z \in Nat
    BY <1>1
  <2>2. CASE <<s[x], s[y]>> \in R
    <3>1. <<s[z], s[y]>> \notin R
      BY <1>2, <1>4, <2>1 DEF WeakOrder
    <3>2. <<s[x], s[z]>> \in R
      BY <2>1, <2>2, <3>1 DEF WeakOrder
    <3>3. QED
      BY <1>2, <3>2
  <2>3. CASE <<s[x], s[y]>> \notin R /\ <<s[y], s[z]>> \in R
    <3>1. <<s[y], s[x]>> \notin R
      BY <1>2, <1>4, <2>3
    <3>2. <<s[x], s[z]>> \in R
      BY <2>1, <2>3, <3>1 DEF WeakOrder
    <3>3. QED
      BY <1>2, <3>2
  <2>4. CASE <<s[x], s[y]>> \notin R /\ <<s[y], s[z]>> \notin R
    <3>1. /\ <<s[y], s[x]>> \notin R /\ <<s[z], s[y]>> \notin R /\ x < y /\ y < z
      BY <1>2, <1>4, <2>4
    <3>2. <<s[z], s[x]>> \notin R /\ x < z
      BY <2>1, <3>1 DEF WeakOrder
    <3>3. QED
      BY <1>2, <3>2
  <2>5. QED
    BY <2>2, <2>3, <2>4
<1>5. ASSUME NEW x \in D, NEW y \in D, x # y
      PROVE  <<x, y>> \in P \/ <<y, x>> \in P
  <2>1. x \in Nat /\ y \in Nat
    BY <1>1
  <2>2. x < y \/ y < x
    BY <1>5, <2>1
  <2>3. QED
    BY <1>2, <2>2
<1>6. QED
  BY <1>3, <1>4, <1>5 DEF StrictOrder, D, P

\* p[i] is the place of the list with i - 1 places before it.
Sorting(p, R, s) ==
    \A i \in DOMAIN s :
        /\ p[i] \in DOMAIN s
        /\ Cardinality(Ahead(Places(R, s), DOMAIN s, p[i])) = i - 1

\* The list with its elements in these places is a permutation of it, and in
\* order.
LEMMA SortedInOrder ==
    ASSUME NEW S, NEW R, WeakOrder(R, S), NEW s \in Seq(S), NEW p, Sorting(p, R, s)
    PROVE  /\ \A i, j \in DOMAIN s : p[i] = p[j] => i = j
           /\ \A k \in DOMAIN s : \E i \in DOMAIN s : p[i] = k
           /\ \A i, j \in DOMAIN s : i < j => <<s[p[j]], s[p[i]]>> \notin R
<1> DEFINE D == DOMAIN s
           P == Places(R, s)
           before(k) == Cardinality(Ahead(P, D, k))
<1>1. Len(s) \in Nat /\ D = 1..Len(s) /\ \A i \in D : s[i] \in S
  OBVIOUS
<1>2. StrictOrder(P, D)
  BY PlacesAreOrdered
<1>3. IsFiniteSet(D) /\ Cardinality(D) = Len(s)
  BY <1>1, FS_Interval
<1>4. \A i \in D : p[i] \in D /\ before(p[i]) = i - 1
  BY DEF Sorting
<1>5. \A k, j \in D : <<s[k], s[j]>> \in R => <<k, j>> \in P
  BY TwoPlaces DEF Precedes
<1> HIDE DEF D, P
<1>6. /\ \A k \in D : before(k) \in 0..(Len(s) - 1)
      /\ \A j, k \in D : <<j, k>> \in P => before(j) < before(k)
  BY <1>2, <1>3, AheadIsCounted
<1>7. \A j, k \in D : before(j) = before(k) => j = k
  BY <1>2, <1>3, PlacesAreTaken
<1> HIDE DEF before
<1>8. \A i, j \in D : p[i] = p[j] => i = j
  BY <1>1, <1>4
<1>9. ASSUME NEW k \in D
      PROVE  \E i \in D : p[i] = k
  <2>1. before(k) + 1 \in D /\ before(k) \in Nat
    BY <1>1, <1>6
  <2>2. before(p[before(k) + 1]) = before(k) /\ p[before(k) + 1] \in D
    BY <1>4, <2>1
  <2>3. p[before(k) + 1] = k
    BY <1>7, <2>2
  <2>4. QED
    BY <2>1, <2>3
<1>10. ASSUME NEW i \in D, NEW j \in D, i < j
       PROVE  <<s[p[j]], s[p[i]]>> \notin R
  <2>1. /\ p[i] \in D /\ p[j] \in D /\ i \in Nat /\ j \in Nat
        /\ before(p[i]) = i - 1 /\ before(p[j]) = j - 1
    BY <1>1, <1>4
  <2>2. ~ (before(p[j]) < before(p[i]))
    BY <1>10, <2>1
  <2>3. <<p[j], p[i]>> \notin P
    BY <1>6, <2>1, <2>2
  <2>4. QED
    BY <1>5, <2>1, <2>3
<1>11. QED
  BY <1>8, <1>9, <1>10 DEF D

\* In a sorted list every place is taken.
LEMMA SortedIsDefined ==
    ASSUME NEW S, NEW R, WeakOrder(R, S), NEW s \in Seq(S), NEW i \in DOMAIN s
    PROVE  \E j \in DOMAIN s : Cardinality(Ahead(Places(R, s), DOMAIN s, j)) = i - 1
<1>1. Len(s) \in Nat /\ DOMAIN s = 1..Len(s)
  OBVIOUS
<1>2. IsFiniteSet(1..Len(s)) /\ Cardinality(1..Len(s)) = Len(s)
  <2>1. 1 \in Int /\ Len(s) \in Int
    BY <1>1
  <2>2. /\ IsFiniteSet(1..Len(s))
        /\ Cardinality(1..Len(s)) = IF 1 > Len(s) THEN 0 ELSE Len(s) - 1 + 1
    BY <2>1, FS_Interval
  <2>3. QED
    BY <1>1, <2>2
<1>3. StrictOrder(Places(R, s), DOMAIN s)
  BY PlacesAreOrdered
<1> DEFINE D == DOMAIN s
           P == Places(R, s)
<1>5. IsFiniteSet(D) /\ i \in 1..Cardinality(D) /\ StrictOrder(P, D)
  BY <1>1, <1>2, <1>3
<1> HIDE DEF D, P
<1>6. \E j \in D : Cardinality(Ahead(P, D, j)) = i - 1
  BY <1>5, PlacesAreTaken
<1>7. QED
  BY <1>6 DEF D, P
-----------------------------------------------------------------------------
(* Picking the elements of a list that pass a test.                        *)

\* The numbers of a set, in order.
Numbered(T) ==
    [i \in 1..Cardinality(T) |-> CHOOSE x \in T : Cardinality({y \in T : y < x}) = i - 1]

\* They are all there, and in order.
LEMMA NumberedInOrder ==
    ASSUME NEW n \in Nat, NEW T \in SUBSET (1..n)
    PROVE  /\ Cardinality(T) \in Nat /\ Cardinality(T) <= n
           /\ \A i \in 1..Cardinality(T) : Numbered(T)[i] \in T
           /\ \A i, j \in 1..Cardinality(T) : i < j => Numbered(T)[i] < Numbered(T)[j]
           /\ \A x \in T : \E i \in 1..Cardinality(T) : Numbered(T)[i] = x
<1> DEFINE less == {p \in T \X T : p[1] < p[2]}
           before(x) == Cardinality(Ahead(less, T, x))
           c == Cardinality(T)
<1>1. IsFiniteSet(1..n) /\ Cardinality(1..n) = n
  BY FS_Interval
<1>2. IsFiniteSet(T) /\ c \in Nat /\ c <= n
  BY <1>1, FS_Subset, FS_CardinalityType
<1>3. StrictOrder(less, T)
  BY DEF StrictOrder
<1>4. \A x \in T : Ahead(less, T, x) = {y \in T : y < x}
  BY DEF Ahead
<1>5. /\ \A x \in T : before(x) \in 0..(c - 1)
      /\ \A x, y \in T : <<x, y>> \in less => before(x) < before(y)
  <2> HIDE DEF less
  <2>1. QED
    BY <1>2, <1>3, AheadIsCounted
<1>6. /\ \A i \in 1..c : \E x \in T : before(x) = i - 1
      /\ \A x, y \in T : before(x) = before(y) => x = y
  <2> HIDE DEF less
  <2>1. QED
    BY <1>2, <1>3, PlacesAreTaken
<1>7. \A x, y \in T : x < y <=> <<x, y>> \in less
  OBVIOUS
<1>8. \A x \in T : Cardinality({y \in T : y < x}) = before(x)
  BY <1>4
<1> HIDE DEF less, before
<1>9. \A i \in 1..c : Numbered(T)[i] \in T /\ before(Numbered(T)[i]) = i - 1
  <2>1. SUFFICES ASSUME NEW i \in 1..c
                 PROVE  Numbered(T)[i] \in T /\ before(Numbered(T)[i]) = i - 1
    OBVIOUS
  <2> DEFINE x == CHOOSE y \in T : Cardinality({z \in T : z < y}) = i - 1
  <2>2. Numbered(T)[i] = x
    BY DEF Numbered
  <2>3. \E y \in T : Cardinality({z \in T : z < y}) = i - 1
    BY <1>6, <1>8
  <2>4. x \in T /\ Cardinality({z \in T : z < x}) = i - 1
    BY <2>3
  <2> HIDE DEF x
  <2>5. QED
    BY <1>8, <2>2, <2>4
<1> HIDE DEF c
<1>10. ASSUME NEW i \in 1..c, NEW j \in 1..c, i < j
       PROVE  Numbered(T)[i] < Numbered(T)[j]
  <2>1. PICK x \in T : x = Numbered(T)[i] /\ before(x) = i - 1
    BY <1>9
  <2>2. PICK y \in T : y = Numbered(T)[j] /\ before(y) = j - 1
    BY <1>9
  <2>3. ~ (y < x) /\ x # y
    <3>1. before(y) \in Nat /\ before(x) \in Nat /\ ~ (before(y) < before(x)) /\ before(x) # before(y)
      BY <1>2, <1>10, <2>1, <2>2
    <3>2. QED
      BY <1>5, <1>7, <3>1
  <2>4. QED
    BY <2>1, <2>2, <2>3
<1>11. ASSUME NEW x \in T
       PROVE  \E i \in 1..c : Numbered(T)[i] = x
  <2>1. before(x) + 1 \in 1..c /\ before(x) \in Nat
    BY <1>2, <1>5
  <2>2. before(Numbered(T)[before(x) + 1]) = before(x) /\ Numbered(T)[before(x) + 1] \in T
    BY <1>9, <2>1
  <2>3. Numbered(T)[before(x) + 1] = x
    BY <1>6, <2>2
  <2>4. QED
    BY <2>1, <2>3
<1>12. QED
  BY <1>2, <1>9, <1>10, <1>11 DEF c
-----------------------------------------------------------------------------
(* Sets and lists in the order of a relation.                              *)

ListedBy(R, S) ==
    [i \in 1..Cardinality(S) |-> CHOOSE x \in S : Cardinality(Ahead(R, S, x)) = i - 1]

SortedBy(R, s) ==
    [i \in DOMAIN s |-> s[CHOOSE j \in DOMAIN s :
                              Cardinality(Ahead(Places(R, s), DOMAIN s, j)) = i - 1]]

\* A set in its order is a list of all its elements, each once.
LEMMA ListedByOrder ==
    ASSUME NEW S, IsFiniteSet(S), NEW R, StrictOrder(R, S)
    PROVE  /\ ListedBy(R, S) \in Seq(S)
           /\ Len(ListedBy(R, S)) = Cardinality(S) /\ Cardinality(S) \in Nat
           /\ DOMAIN ListedBy(R, S) = 1..Cardinality(S)
           /\ \A x \in S : \E i \in DOMAIN ListedBy(R, S) : ListedBy(R, S)[i] = x
           /\ \A i, j \in DOMAIN ListedBy(R, S) : ListedBy(R, S)[i] = ListedBy(R, S)[j] => i = j
<1> DEFINE n == Cardinality(S)
           l == ListedBy(R, S)
           before(x) == Cardinality(Ahead(R, S, x))
<1>1. n \in Nat
  BY FS_CardinalityType
<1>2. /\ \A i \in 1..n : \E x \in S : before(x) = i - 1
      /\ \A x, y \in S : before(x) = before(y) => x = y
      /\ \A x \in S : before(x) \in 0..(n - 1)
  BY PlacesAreTaken, AheadIsCounted
<1>3. l = [i \in 1..n |-> CHOOSE x \in S : before(x) = i - 1]
  BY DEF ListedBy
<1> HIDE DEF n, l, before
<1>4. \A i \in 1..n : l[i] \in S /\ before(l[i]) = i - 1
  BY <1>2, <1>3
<1>5. l \in Seq(S) /\ Len(l) = n /\ DOMAIN l = 1..n
  <2>1. l \in [1..n -> S]
    BY <1>3, <1>4
  <2>2. QED
    BY <1>1, <2>1
<1>6. ASSUME NEW x \in S
      PROVE  \E i \in 1..n : l[i] = x
  <2>1. before(x) + 1 \in 1..n /\ (before(x) + 1) - 1 = before(x)
    BY <1>1, <1>2
  <2>2. QED
    BY <1>2, <1>4, <2>1
<1>7. \A i, j \in 1..n : l[i] = l[j] => i = j
  BY <1>1, <1>4
<1>8. QED
  BY <1>1, <1>5, <1>6, <1>7 DEF n, l

\* t has the elements of s at other places.
Permuted(s, t) ==
    \E p : /\ \A i \in DOMAIN s : p[i] \in DOMAIN s /\ t[i] = s[p[i]]
           /\ \A i, j \in DOMAIN s : p[i] = p[j] => i = j
           /\ \A k \in DOMAIN s : \E i \in DOMAIN s : p[i] = k

\* A sorted list is a permutation of the list.
LEMMA SortedByOrder ==
    ASSUME NEW S, NEW R, WeakOrder(R, S), NEW s \in Seq(S)
    PROVE  /\ SortedBy(R, s) \in Seq(S) /\ DOMAIN SortedBy(R, s) = DOMAIN s
           /\ Permuted(s, SortedBy(R, s))
<1> DEFINE D == DOMAIN s
           t == SortedBy(R, s)
           before(j) == Cardinality(Ahead(Places(R, s), D, j))
           p == [i \in D |-> CHOOSE j \in D : before(j) = i - 1]
<1>1. Len(s) \in Nat /\ D = 1..Len(s) /\ \A i \in D : s[i] \in S
  OBVIOUS
<1>2. t = [i \in D |-> s[p[i]]]
  BY DEF SortedBy
<1>3. \A i \in D : \E j \in D : before(j) = i - 1
  BY SortedIsDefined
<1> HIDE DEF t, before
<1>4. \A i \in D : p[i] \in D /\ before(p[i]) = i - 1
  BY <1>3
<1> HIDE DEF p
<1>5. Sorting(p, R, s)
  BY <1>4 DEF Sorting, before
<1>6. /\ \A i, j \in D : p[i] = p[j] => i = j
      /\ \A k \in D : \E i \in D : p[i] = k
  <2> HIDE DEF D
  <2>1. /\ \A i, j \in DOMAIN s : p[i] = p[j] => i = j
        /\ \A k \in DOMAIN s : \E i \in DOMAIN s : p[i] = k
    BY <1>5, SortedInOrder
  <2>2. QED
    BY <2>1 DEF D
<1> HIDE DEF D
<1>7. \A i \in D : p[i] \in D /\ t[i] = s[p[i]] /\ t[i] \in S
  BY <1>1, <1>2, <1>4
<1>8. t \in Seq(S) /\ DOMAIN t = D
  <2>1. t \in [1..Len(s) -> S]
    BY <1>1, <1>2, <1>7
  <2>2. QED
    BY <1>1, <2>1
<1>9. \E q : /\ \A i \in D : q[i] \in D /\ t[i] = s[q[i]]
             /\ \A i, j \in D : q[i] = q[j] => i = j
             /\ \A k \in D : \E i \in D : q[i] = k
  BY <1>6, <1>7
<1>10. QED
  BY <1>8, <1>9 DEF D, t, Permuted
=============================================================================
