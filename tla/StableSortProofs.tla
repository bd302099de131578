-------------------------- MODULE StableSortProofs --------------------------
(***************************************************************************)
(* What the stable sort does to a sequence, for every order that Rust's    *)
(* sort_by accepts: it permutes the elements, leaves none ahead of one     *)
(* that has to stand before it, and keeps equal elements in their order.   *)
(* Filtering keeps elements in their order as well.                        *)
(***************************************************************************)
EXTENDS StableSort, SequencesExt, FiniteSetTheorems, TLAPS

\* A strict weak order on the positions D.
Orders(before, D) ==
  \A i, j, k \in D :
    /\ <<i, j>> \in before => <<j, i>> \notin before
    /\ <<i, j>> \notin before /\ <<j, k>> \notin before => <<i, k>> \notin before

\* The order with the ties broken by position.
Precedes(before, j, i) ==
  <<j, i>> \in before \/ (<<i, j>> \notin before /\ j <= i)

\* p takes the places of the sorted sequence to the positions of the unsorted one.
Arranges(p, D, before) ==
  /\ p \in Bijection(1 .. Cardinality(D), D)
  /\ \A j, k \in 1 .. Cardinality(D) :
       j < k => /\ <<p[k], p[j]>> \notin before
                /\ <<p[j], p[k]>> \notin before => p[j] < p[k]

\* The arranged sequence holds the elements at the positions, each as often as there,
\* and none ahead of one that has to stand before it.
IsArranged(t, S, s, D, before) ==
  /\ t \in Seq(S)
  /\ Cardinality(D) \in Nat
  /\ Len(t) = Cardinality(D)
  /\ Range(t) = {s[i] : i \in D}
  /\ \E p \in Bijection(1 .. Cardinality(D), D) :
       /\ Arranges(p, D, before)
       /\ \A k \in 1 .. Cardinality(D) : t[k] = s[p[k]]

\* The sorted sequence: the same elements, as often, none behind one that it precedes,
\* and those that compare equal in the order they came in.
IsStablySorted(t, S, s, before) ==
  /\ t \in Seq(S)
  /\ DOMAIN t = DOMAIN s
  /\ Range(t) = Range(s)
  /\ \E p \in Bijection(DOMAIN s, DOMAIN s) :
       \A k \in DOMAIN s :
         /\ t[k] = s[p[k]]
         /\ \A j \in DOMAIN s :
              j < k => /\ <<p[k], p[j]>> \notin before
                       /\ <<p[j], p[k]>> \notin before => p[j] < p[k]

\* A sequence is one over its range.
LEMMA RangeFacts ==
  ASSUME NEW S, NEW s \in Seq(S)
  PROVE  /\ s \in Seq(Range(s))
         /\ Range(s) \subseteq S
<1>1. DOMAIN s = 1 .. Len(s) /\ Len(s) \in Nat
  OBVIOUS
<1>2. \A k \in 1 .. Len(s) : s[k] \in Range(s) /\ s[k] \in S
  BY <1>1 DEF Range
<1>3. [k \in 1 .. Len(s) |-> s[k]] \in Seq(Range(s))
  BY <1>1, <1>2
<1>4. s = [k \in 1 .. Len(s) |-> s[k]]
  BY <1>1
<1>5. Range(s) \subseteq S
  BY <1>1, <1>2 DEF Range
<1> QED
  BY <1>3, <1>4, <1>5

\* What is numbered from 1 to n has n elements.
LEMMA Counted ==
  ASSUME NEW n \in Nat, NEW T, NEW f, f \in Bijection(1 .. n, T)
  PROVE  IsFiniteSet(T) /\ Cardinality(T) = n
<1>1. IsFiniteSet(1 .. n) /\ Cardinality(1 .. n) = n
  BY FS_Interval
<1>2. ExistsBijection(1 .. n, T)
  BY DEF ExistsBijection
<1> QED
  BY <1>1, <1>2, FS_Bijection

\* Two positions never take one place: whatever precedes the one that precedes
\* the other precedes both.
LEMMA PlacesFollowTheOrder ==
  ASSUME NEW D, D \subseteq Int, IsFiniteSet(D), NEW before, Orders(before, D),
         NEW i \in D, NEW j \in D, i # j, Precedes(before, j, i)
  PROVE  PlaceOf(D, before, j) < PlaceOf(D, before, i)
<1> DEFINE Below(x) == {y \in D : Precedes(before, y, x)}
<1>1. \A x \in D : PlaceOf(D, before, x) = Cardinality(Below(x))
  BY DEF PlaceOf, Precedes
<1>2. \A x \in D : IsFiniteSet(Below(x)) /\ Cardinality(Below(x)) \in Nat
  BY FS_Subset, FS_CardinalityType
<1>3. i \in Below(i) /\ i \notin Below(j)
  BY i \in Int, j \in Int DEF Orders, Precedes
<1>4. Below(j) \subseteq Below(i)
  <2> SUFFICES ASSUME NEW y \in D, Precedes(before, y, j)
               PROVE  Precedes(before, y, i)
    OBVIOUS
  <2>1. y \in Int /\ i \in Int /\ j \in Int
    OBVIOUS
  <2> QED
    BY <2>1 DEF Orders, Precedes
<1>5. Cardinality(Below(j)) <= Cardinality(Below(i))
  BY <1>2, <1>4, FS_Subset
<1>6. Cardinality(Below(j)) # Cardinality(Below(i))
  BY <1>2, <1>3, <1>4, FS_Subset
<1>7. Cardinality(Below(j)) \in Nat /\ Cardinality(Below(i)) \in Nat
  BY <1>2
<1>8. PlaceOf(D, before, j) = Cardinality(Below(j)) /\ PlaceOf(D, before, i) = Cardinality(Below(i))
  BY <1>1
<1> HIDE DEF Below
<1> QED
  BY <1>5, <1>6, <1>7, <1>8

LEMMA PlacesAreTaken ==
  ASSUME NEW D, D \subseteq Int, IsFiniteSet(D), NEW before, Orders(before, D)
  PROVE  [i \in D |-> PlaceOf(D, before, i)] \in Bijection(D, 1 .. Cardinality(D))
<1> DEFINE m == Cardinality(D)
           place == [i \in D |-> PlaceOf(D, before, i)]
<1>1. m \in Nat
  BY FS_CardinalityType
<1>2. IsFiniteSet(1 .. m) /\ Cardinality(1 .. m) = m
  BY <1>1, FS_Interval
<1>3. \A i \in D : PlaceOf(D, before, i) \in 1 .. m
  <2> SUFFICES ASSUME NEW i \in D
               PROVE  PlaceOf(D, before, i) \in 1 .. m
    OBVIOUS
  <2> DEFINE T == {j \in D : <<j, i>> \in before \/ (<<i, j>> \notin before /\ j <= i)}
  <2>1. T \subseteq D /\ i \in T
    BY i \in Int DEF Orders
  <2>2. IsFiniteSet(T) /\ Cardinality(T) <= m
    BY <2>1, FS_Subset
  <2>3. Cardinality(T) \in Nat /\ Cardinality(T) # 0
    BY <2>1, <2>2, FS_CardinalityType, FS_EmptySet
  <2> QED
    BY <1>1, <2>2, <2>3 DEF PlaceOf
<1>4. \A i, j \in D : i # j => place[i] # place[j]
  <2> SUFFICES ASSUME NEW i \in D, NEW j \in D, i # j
               PROVE  PlaceOf(D, before, i) # PlaceOf(D, before, j)
    OBVIOUS
  <2>1. Precedes(before, i, j) \/ Precedes(before, j, i)
    BY i \in Int, j \in Int DEF Orders, Precedes
  <2>2. PlaceOf(D, before, i) \in Int /\ PlaceOf(D, before, j) \in Int
    BY <1>3
  <2>3. \/ PlaceOf(D, before, i) < PlaceOf(D, before, j)
        \/ PlaceOf(D, before, j) < PlaceOf(D, before, i)
    BY <2>1, PlacesFollowTheOrder
  <2> QED
    BY <2>2, <2>3
<1>5. place \in Injection(D, 1 .. m)
  BY <1>3, <1>4 DEF Injection, IsInjective
<1>6. place \in Surjection(D, 1 .. m)
  BY <1>2, <1>5, FS_Injection
<1> QED
  BY <1>5, <1>6 DEF Bijection

\* The arrangement is one of the positions, in the order.
LEMMA ArrangedByPlace ==
  ASSUME NEW D, D \subseteq Int, IsFiniteSet(D), NEW before, Orders(before, D), NEW s
  PROVE  \E p \in Bijection(1 .. Cardinality(D), D) :
           /\ Arranges(p, D, before)
           /\ Arranged(s, D, before) = [k \in 1 .. Cardinality(D) |-> s[p[k]]]
<1> DEFINE m == Cardinality(D)
           place == [i \in D |-> PlaceOf(D, before, i)]
           p == [k \in 1 .. m |-> CHOOSE i \in D : PlaceOf(D, before, i) = k]
<1>1. place \in Bijection(D, 1 .. m)
  BY PlacesAreTaken
<1>2. /\ \A i \in D : place[i] = PlaceOf(D, before, i) /\ place[i] \in 1 .. m
      /\ \A i, j \in D : place[i] = place[j] => i = j
      /\ \A k \in 1 .. m : \E i \in D : place[i] = k
  BY <1>1 DEF Bijection, Injection, Surjection, IsInjective
<1> HIDE DEF place
<1>3. \A k \in 1 .. m : p[k] \in D /\ place[p[k]] = k
  BY <1>2
<1>4. \A i \in D : p[place[i]] = i
  BY <1>2, <1>3
<1>5. Arranged(s, D, before) = [k \in 1 .. m |-> s[p[k]]]
  BY DEF Arranged
<1>6. p \in [1 .. m -> D]
  BY <1>3
<1> HIDE DEF p
<1>7. p \in Bijection(1 .. m, D)
  <2>1. p \in Injection(1 .. m, D)
    BY <1>3, <1>6 DEF Injection, IsInjective
  <2>2. p \in Surjection(1 .. m, D)
    BY <1>2, <1>4, <1>6 DEF Surjection
  <2> QED
    BY <2>1, <2>2 DEF Bijection
<1>8. Arranges(p, D, before)
  <2> SUFFICES ASSUME NEW j \in 1 .. m, NEW k \in 1 .. m, j < k
               PROVE  /\ <<p[k], p[j]>> \notin before
                      /\ <<p[j], p[k]>> \notin before => p[j] < p[k]
    BY <1>7 DEF Arranges
  <2>1. p[j] \in D /\ p[k] \in D /\ p[j] # p[k]
    <3>1. place[p[j]] = j /\ place[p[k]] = k /\ p[j] \in D /\ p[k] \in D
      BY <1>3
    <3>2. j # k
      OBVIOUS
    <3> QED
      BY <3>1, <3>2
  <2>2. ~ Precedes(before, p[k], p[j])
    <3>1. SUFFICES ASSUME Precedes(before, p[k], p[j])
                   PROVE  FALSE
      OBVIOUS
    <3>2. PlaceOf(D, before, p[k]) < PlaceOf(D, before, p[j])
      BY <2>1, <3>1, PlacesFollowTheOrder
    <3>3. PlaceOf(D, before, p[k]) = k /\ PlaceOf(D, before, p[j]) = j
      BY <1>2, <1>3, <2>1
    <3> QED
      BY <3>2, <3>3
  <2>3. p[j] \in Int /\ p[k] \in Int
    BY <2>1
  <2> QED
    BY <2>1, <2>2, <2>3 DEF Precedes, Orders
<1> QED
  BY <1>5, <1>7, <1>8

LEMMA ArrangedFacts ==
  ASSUME NEW S, NEW s \in Seq(S), NEW D, D \subseteq DOMAIN s, NEW before, Orders(before, D)
  PROVE  IsArranged(Arranged(s, D, before), S, s, D, before)
<1> DEFINE m == Cardinality(D)
           t == Arranged(s, D, before)
<1>1. D \subseteq Int /\ IsFiniteSet(D) /\ m \in Nat /\ \A i \in D : s[i] \in S
  <2>1. DOMAIN s = 1 .. Len(s) /\ Len(s) \in Nat
    OBVIOUS
  <2>2. IsFiniteSet(DOMAIN s)
    BY <2>1, FS_Interval
  <2> QED
    BY <2>1, <2>2, FS_Subset, FS_CardinalityType
<1>2. PICK p \in Bijection(1 .. m, D) :
        Arranges(p, D, before) /\ t = [k \in 1 .. m |-> s[p[k]]]
  BY <1>1, ArrangedByPlace
<1>3. /\ \A k \in 1 .. m : p[k] \in D
      /\ \A i \in D : \E k \in 1 .. m : p[k] = i
  BY <1>2 DEF Bijection, Injection, Surjection
<1>4. t \in Seq(S) /\ Len(t) = m /\ DOMAIN t = 1 .. m
  BY <1>1, <1>2, <1>3
<1>5. Range(t) = {s[i] : i \in D}
  <2>1. \A k \in 1 .. m : t[k] = s[p[k]]
    BY <1>2
  <2> HIDE DEF m, t
  <2>2. \A x : x \in Range(t) <=> \E k \in 1 .. m : t[k] = x
    BY <1>4 DEF Range
  <2>3. \A x : x \in Range(t) => x \in {s[i] : i \in D}
    BY <1>3, <2>1, <2>2
  <2>4. \A x : x \in {s[i] : i \in D} => x \in Range(t)
    BY <1>3, <2>1, <2>2
  <2> QED
    BY <2>3, <2>4
<1> QED
  BY <1>1, <1>2, <1>4, <1>5 DEF IsArranged

\* Sorting a whole sequence keeps its length and its elements.
LEMMA SortedFacts ==
  ASSUME NEW S, NEW s \in Seq(S), NEW before, Orders(before, DOMAIN s)
  PROVE  IsStablySorted(Arranged(s, DOMAIN s, before), S, s, before)
<1>1. IsArranged(Arranged(s, DOMAIN s, before), S, s, DOMAIN s, before)
  <2>1. DOMAIN s \subseteq DOMAIN s
    OBVIOUS
  <2> QED
    BY <2>1, ArrangedFacts
<1> DEFINE t == Arranged(s, DOMAIN s, before)
<1> HIDE DEF t
<1>2. DOMAIN s = 1 .. Len(s) /\ Cardinality(DOMAIN s) = Len(s)
  <2>1. Len(s) \in Nat /\ DOMAIN s = 1 .. Len(s)
    OBVIOUS
  <2>2. Cardinality(1 .. Len(s)) = Len(s)
    BY <2>1, FS_Interval
  <2> QED
    BY <2>1, <2>2
<1>3. t \in Seq(S) /\ Len(t) = Len(s) /\ Range(t) = {s[i] : i \in DOMAIN s}
  BY <1>1, <1>2 DEF t, IsArranged
<1>4. DOMAIN t = DOMAIN s
  BY <1>2, <1>3
<1>5. Range(t) = Range(s)
  BY <1>3 DEF Range
<1>6. PICK p \in Bijection(DOMAIN s, DOMAIN s) :
        Arranges(p, DOMAIN s, before) /\ \A k \in DOMAIN s : t[k] = s[p[k]]
  BY <1>1, <1>2 DEF t, IsArranged
<1>7. \A j, k \in DOMAIN s :
        j < k => /\ <<p[k], p[j]>> \notin before
                 /\ <<p[j], p[k]>> \notin before => p[j] < p[k]
  BY <1>2, <1>6 DEF Arranges
<1> QED
  BY <1>3, <1>4, <1>5, <1>6, <1>7 DEF t, IsStablySorted

\* Filtering keeps the chosen elements, in their order.
LEMMA KeptFacts ==
  ASSUME NEW S, NEW s \in Seq(S), NEW D, D \subseteq DOMAIN s
  PROVE  /\ Kept(s, D) \in Seq(S)
         /\ Len(Kept(s, D)) = Cardinality(D) /\ Cardinality(D) \in Nat
         /\ Range(Kept(s, D)) = {s[i] : i \in D}
         /\ \E p \in Bijection(1 .. Cardinality(D), D) :
              \A k \in 1 .. Cardinality(D) :
                /\ Kept(s, D)[k] = s[p[k]]
                /\ \A j \in 1 .. Cardinality(D) : j < k => p[j] < p[k]
<1>1. Orders({}, D)
  BY DEF Orders
<1>2. IsArranged(Arranged(s, D, {}), S, s, D, {})
  BY <1>1, ArrangedFacts
<1>3. PICK p \in Bijection(1 .. Cardinality(D), D) :
        /\ Arranges(p, D, {})
        /\ \A k \in 1 .. Cardinality(D) : Arranged(s, D, {})[k] = s[p[k]]
  BY <1>2 DEF IsArranged
<1>4. \A j, k \in 1 .. Cardinality(D) : j < k => p[j] < p[k]
  BY <1>3 DEF Arranges
<1> QED
  BY <1>2, <1>3, <1>4 DEF Kept, IsArranged

\* Every nonempty finite set of integers has a least element: the one with the fewest
\* elements below it.
LEMMA LeastElement ==
  ASSUME NEW T, T \subseteq Int, IsFiniteSet(T), T # {}
  PROVE  \E x \in T : \A y \in T : x <= y
<1> DEFINE Below(x) == {y \in T : y < x}
           Counts == {c \in Nat : \E x \in T : c = Cardinality(Below(x))}
           Less == OpToRel(<, Nat)
<1>1. \A x \in T : IsFiniteSet(Below(x)) /\ Cardinality(Below(x)) \in Nat
  BY FS_Subset, FS_CardinalityType
<1>2. ASSUME NEW x \in T, NEW y \in T, y < x
      PROVE  Cardinality(Below(y)) < Cardinality(Below(x))
  <2>1. Below(y) \subseteq Below(x) /\ y \in Below(x) /\ y \notin Below(y)
    <3>1. \A z \in T : z < y => z < x
      BY <1>2
    <3>2. ~ (y < y)
      BY y \in Int
    <3> QED
      BY <1>2, <3>1, <3>2
  <2>2. Cardinality(Below(y)) <= Cardinality(Below(x))
    BY <1>1, <2>1, FS_Subset
  <2>3. Cardinality(Below(y)) # Cardinality(Below(x))
    BY <1>1, <2>1, FS_Subset
  <2>4. Cardinality(Below(y)) \in Nat /\ Cardinality(Below(x)) \in Nat
    BY <1>1
  <2> HIDE DEF Below
  <2> QED
    BY <2>2, <2>3, <2>4
<1>3. Counts \subseteq Nat /\ Counts # {}
  BY <1>1
<1>4. PICK c \in Counts : \A d \in Counts : ~ (<<d, c>> \in Less)
  <2>1. IsWellFoundedOn(Less, Nat)
    BY NatLessThanWellFounded
  <2> HIDE DEF Less, Counts
  <2> QED
    BY <1>3, <2>1, WFMin
<1>5. PICK x \in T : c = Cardinality(Below(x))
  OBVIOUS
<1>6. ASSUME NEW y \in T, y < x
      PROVE  FALSE
  <2>1. Cardinality(Below(y)) < c /\ Cardinality(Below(y)) \in Counts
    BY <1>1, <1>2, <1>5, <1>6
  <2>2. Cardinality(Below(y)) \in Nat /\ c \in Nat
    BY <1>1
  <2>3. <<Cardinality(Below(y)), c>> \in Less
    BY <2>1, <2>2 DEF OpToRel
  <2> QED
    BY <1>4, <2>1, <2>3
<1>7. \A y \in T : x <= y
  BY <1>6
<1> QED
  BY <1>7

\* SetToSeq lists every element of a finite set once.
LEMMA SetToSeqFacts ==
  ASSUME NEW S, IsFiniteSet(S)
  PROVE  /\ SetToSeq(S) \in Seq(S)
         /\ Len(SetToSeq(S)) = Cardinality(S)
         /\ Range(SetToSeq(S)) = S
         /\ IsInjective(SetToSeq(S))
<1> DEFINE m == Cardinality(S)
<1>1. m \in Nat /\ ExistsBijection(1 .. m, S)
  BY FS_CardinalityType
<1>2. PICK f : f \in Bijection(1 .. m, S)
  BY <1>1 DEF ExistsBijection
<1>3. f \in [1 .. m -> S] /\ IsInjective(f)
  BY <1>2 DEF Bijection, Injection
<1>4. SetToSeq(S) \in [1 .. m -> S] /\ IsInjective(SetToSeq(S))
  BY <1>3 DEF SetToSeq
<1>5. SetToSeq(S) \in Injection(1 .. m, S)
  BY <1>4 DEF Injection
<1>6. IsFiniteSet(1 .. m) /\ Cardinality(1 .. m) = m
  BY <1>1, FS_Interval
<1>7. SetToSeq(S) \in Surjection(1 .. m, S)
  BY <1>5, <1>6, FS_Injection
<1>8. Range(SetToSeq(S)) = S
  BY <1>4, <1>7 DEF Surjection, Range
<1> QED
  BY <1>1, <1>4, <1>8
=============================================================================
