-------------------------- MODULE ChainAwareProofs --------------------------
(***************************************************************************)
(* Proofs about the `chain_aware` mapper, for every list of chains and     *)
(* nodes and every set of platforms.                                       *)
(***************************************************************************)
EXTENDS ChainAware, BandLoopProofs, StableSortProofs

-----------------------------------------------------------------------------
(***************************************************************************)
(* What a chain costs.                                                     *)
(***************************************************************************)

\* Sums of numbers are numbers.
LEMMA SumsAreNumbers ==
  ASSUME NEW m \in Nat, NEW c, \A k \in 1 .. m : c[k] \in Int,
         NEW f, f = [k \in 0 .. m |-> IF k = 0 THEN 0 ELSE f[k - 1] + c[k]]
  PROVE  \A k \in 0 .. m : f[k] \in Int
<1> DEFINE T == {k \in 0 .. m : f[k] \notin Int}
<1>1. \A k : k \in T <=> k \in 0 .. m /\ f[k] \notin Int
  OBVIOUS
<1> HIDE DEF T
<1>2. SUFFICES ASSUME T # {}
               PROVE  FALSE
  BY <1>1
<1>3. T \subseteq Nat
  BY ONLY <1>1, m \in Nat
<1>4. PICK k \in T : \A j \in T : k <= j
  BY <1>2, <1>3, LeastNatural
<1>5. k \in 0 .. m /\ f[k] \notin Int
  BY <1>1, <1>4
<1>6. f[k] = (IF k = 0 THEN 0 ELSE f[k - 1] + c[k])
  BY <1>5
<1>7. k # 0
  BY <1>5, <1>6
<1>8. k - 1 \in 0 .. m /\ k \in 1 .. m /\ ~ (k <= k - 1)
  BY <1>5, <1>7
<1>9. f[k - 1] \in Int
  BY <1>1, <1>4, <1>8
<1> QED
  BY <1>5, <1>6, <1>7, <1>8, <1>9

\* Every sequence of numbers has its partial sums.
LEMMA SumsExist ==
  ASSUME NEW m \in Nat, NEW c
  PROVE  \E f : f = [k \in 0 .. m |-> IF k = 0 THEN 0 ELSE f[k - 1] + c[k]]
<1> DEFINE Sums(i, f) == f = [k \in 0 .. i |-> IF k = 0 THEN 0 ELSE f[k - 1] + c[k]]
           T == {i \in 0 .. m : ~ \E f : Sums(i, f)}
<1>1. \A i : i \in T <=> i \in 0 .. m /\ ~ \E f : Sums(i, f)
  OBVIOUS
<1>2. Sums(0, [k \in 0 .. 0 |-> 0])
  OBVIOUS
<1>3. ASSUME NEW i \in 0 .. m, i > 0, NEW g, Sums(i - 1, g)
      PROVE  Sums(i, [k \in 0 .. i |-> IF k = i THEN g[i - 1] + c[i] ELSE g[k]])
  <2> DEFINE f == [k \in 0 .. i |-> IF k = i THEN g[i - 1] + c[i] ELSE g[k]]
  <2>1. \A k \in 0 .. i - 1 : g[k] = (IF k = 0 THEN 0 ELSE g[k - 1] + c[k])
    BY <1>3
  <2>2. ASSUME NEW k \in 0 .. i
        PROVE  f[k] = (IF k = 0 THEN 0 ELSE f[k - 1] + c[k])
    <3>1. CASE k = i
      <4>1. k - 1 \in 0 .. i /\ k - 1 # i /\ k # 0
        BY <1>3, <3>1
      <4> QED
        BY <3>1, <4>1
    <3>2. CASE k # i /\ k # 0
      <4>1. k - 1 \in 0 .. i /\ k - 1 # i /\ k \in 0 .. i - 1
        BY <1>3, <3>2
      <4> QED
        BY <3>2, <4>1, <2>1
    <3>3. CASE k # i /\ k = 0
      <4>1. k \in 0 .. i - 1
        BY <1>3, <3>3
      <4> QED
        BY <3>3, <4>1, <2>1
    <3> QED
      BY <3>1, <3>2, <3>3
  <2>3. f = [k \in 0 .. i |-> f[k]]
    OBVIOUS
  <2> HIDE DEF f
  <2>4. f = [k \in 0 .. i |-> IF k = 0 THEN 0 ELSE f[k - 1] + c[k]]
    BY <2>2, <2>3
  <2> QED
    BY <2>4 DEF f
<1> HIDE DEF T, Sums
<1>4. SUFFICES ASSUME T # {}
               PROVE  FALSE
  <2>1. m \in 0 .. m
    OBVIOUS
  <2>2. T = {} => \E f : Sums(m, f)
    BY <2>1, <1>1
  <2> QED
    BY <2>2 DEF Sums
<1>5. T \subseteq Nat
  BY <1>1
<1>6. PICK i \in T : \A j \in T : i <= j
  BY <1>4, <1>5, LeastNatural
<1>7. i \in 0 .. m /\ ~ \E f : Sums(i, f)
  BY <1>1, <1>6
<1>8. i > 0
  BY <1>2, <1>7
<1>9. i - 1 \in 0 .. m /\ ~ (i <= i - 1)
  BY <1>7, <1>8
<1>10. PICK g : Sums(i - 1, g)
  BY <1>1, <1>6, <1>9
<1> QED
  BY <1>3, <1>7, <1>8, <1>10

\* What is left of a chain's budget is a number.
LEMMA SlackIsNumber ==
  ASSUME NEW c, IsChain(c)
  PROVE  SamplingCost(c) \in Int /\ Controllable(c) \in Int
<1> DEFINE m == Len(c.elements)
           cost == [k \in 1 .. m |-> TimerCost(c.elements[k])]
           upTo == CHOOSE f : f = [k \in 0 .. m |->
                                     IF k = 0 THEN 0 ELSE f[k - 1] + TimerCost(c.elements[k])]
<1>1. SamplingCost(c) = upTo[m]
  BY DEF SamplingCost
<1>2. m \in Nat /\ \A k \in 1 .. m : c.elements[k] \in Range(c.elements)
  BY DEF IsChain, Range
<1>3. \A k \in 1 .. m : cost[k] \in Int
  <2> SUFFICES ASSUME NEW k \in 1 .. m
               PROVE  TimerCost(c.elements[k]) \in Int
    OBVIOUS
  <2>1. IsElement(c.elements[k])
    BY <1>2 DEF IsChain
  <2> QED
    BY <2>1 DEF IsElement, TimerCost, IsBoundary
<1>4. PICK f : f = [k \in 0 .. m |-> IF k = 0 THEN 0 ELSE f[k - 1] + cost[k]]
  BY <1>2, SumsExist
<1>5. \A g : [k \in 0 .. m |-> IF k = 0 THEN 0 ELSE g[k - 1] + cost[k]]
             = [k \in 0 .. m |-> IF k = 0 THEN 0 ELSE g[k - 1] + TimerCost(c.elements[k])]
  <2>1. \A k \in 0 .. m : k = 0 \/ k \in 1 .. m
    BY <1>2
  <2> QED
    BY <2>1
<1>6. f = [k \in 0 .. m |-> IF k = 0 THEN 0 ELSE f[k - 1] + TimerCost(c.elements[k])]
  BY <1>4, <1>5, Zenon
<1>7. upTo = [k \in 0 .. m |->
                IF k = 0 THEN 0 ELSE upTo[k - 1] + TimerCost(c.elements[k])]
  BY <1>6, Zenon
<1>8. upTo = [k \in 0 .. m |-> IF k = 0 THEN 0 ELSE upTo[k - 1] + cost[k]]
  BY <1>5, <1>7, Zenon
<1> HIDE DEF upTo, cost, m
<1>9. \A k \in 0 .. m : upTo[k] \in Int
  BY ONLY <1>2, <1>3, <1>8, SumsAreNumbers
<1>10. upTo[m] \in Int
  BY ONLY <1>2, <1>9
<1> QED
  BY <1>1, <1>10 DEF Controllable, IsChain

-----------------------------------------------------------------------------
(***************************************************************************)
(* The candidates.  g gives the number of the declared chain that each of  *)
(* them is.                                                                *)
(***************************************************************************)

\* The chains among the first of those declared that are feasible, as declared.
Judged(in, cs, upTo, g) ==
  /\ cs \in Seq(Range(in.chains))
  /\ g \in [1 .. Len(cs) -> 1 .. upTo]
  /\ \A i \in 1 .. Len(cs) : cs[i] = in.chains[g[i]] /\ Feasible(cs[i])
  /\ \A i, j \in 1 .. Len(cs) : i < j => g[i] < g[j]
  /\ \A c \in 1 .. upTo : Feasible(in.chains[c]) => \E i \in 1 .. Len(cs) : g[i] = c

\* What the stable sort makes of two chains.
Ahead(in, c, d) ==
  \/ ChainBefore(in.chains[c], in.chains[d])
  \/ ~ ChainBefore(in.chains[d], in.chains[c]) /\ c < d

\* Every feasible chain, once, in the order the design asks for.
Chosen(in, cs, g) ==
  /\ cs \in Seq(Range(in.chains))
  /\ g \in [1 .. Len(cs) -> DOMAIN in.chains]
  /\ \A i \in 1 .. Len(cs) : cs[i] = in.chains[g[i]] /\ Feasible(cs[i])
  /\ \A i, j \in 1 .. Len(cs) : i < j => g[i] # g[j] /\ Ahead(in, g[i], g[j])
  /\ \A c \in DOMAIN in.chains : Feasible(in.chains[c]) => \E i \in 1 .. Len(cs) : g[i] = c

\* What the assumption says of one input.
LEMMA InputFacts ==
  ASSUME NEW in \in Inputs
  PROVE  /\ in.chains \in Seq(Range(in.chains)) /\ in.nodes \in Seq(Range(in.nodes))
         /\ Len(in.chains) \in Nat /\ DOMAIN in.chains = 1 .. Len(in.chains)
         /\ Len(in.nodes) \in Nat /\ DOMAIN in.nodes = 1 .. Len(in.nodes)
         /\ \A c \in DOMAIN in.chains : in.chains[c] \in Range(in.chains)
         /\ \A a \in DOMAIN in.nodes : in.nodes[a] \in Range(in.nodes)
         /\ \A c \in Range(in.chains) : IsChain(c) /\ Controllable(c) \in Int
         /\ \A nd \in Range(in.nodes) : IsNode(nd)
         /\ \A a, b \in DOMAIN in.nodes : in.nodes[a].name = in.nodes[b].name => a = b
<1>1. /\ in.chains \in Seq(Range(in.chains)) /\ in.nodes \in Seq(Range(in.nodes))
      /\ \A c \in Range(in.chains) : IsChain(c)
      /\ \A nd \in Range(in.nodes) : IsNode(nd)
      /\ \A a, b \in DOMAIN in.nodes : in.nodes[a].name = in.nodes[b].name => a = b
  BY InputsAssumption
<1>2. \A c \in Range(in.chains) : Controllable(c) \in Int
  BY <1>1, SlackIsNumber
<1>3. /\ \A c \in DOMAIN in.chains : in.chains[c] \in Range(in.chains)
      /\ \A a \in DOMAIN in.nodes : in.nodes[a] \in Range(in.nodes)
  BY DEF Range
<1> QED
  BY <1>1, <1>2, <1>3

LEMMA JudgeNone ==
  ASSUME NEW in \in Inputs
  PROVE  \E g : Judged(in, <<>>, 0, g)
<1>1. Judged(in, <<>>, 0, [i \in 1 .. 0 |-> 0])
  BY DEF Judged
<1> QED
  BY <1>1

\* A feasible chain joins the candidates ...
LEMMA JudgeFeasible ==
  ASSUME NEW in \in Inputs, NEW cs, NEW c \in 1 .. Len(in.chains),
         Feasible(in.chains[c]), NEW g, Judged(in, cs, c - 1, g)
  PROVE  \E h : Judged(in, Append(cs, in.chains[c]), c, h)
<1> DEFINE m == Len(cs)
           ds == Append(cs, in.chains[c])
           h == [i \in 1 .. m + 1 |-> IF i = m + 1 THEN c ELSE g[i]]
<1>1. /\ cs \in Seq(Range(in.chains)) /\ m \in Nat
      /\ in.chains[c] \in Range(in.chains) /\ c \in Nat /\ Len(in.chains) \in Nat
  BY InputFacts DEF Judged
<1>2. /\ ds \in Seq(Range(in.chains)) /\ Len(ds) = m + 1
      /\ ds[m + 1] = in.chains[c]
      /\ \A i \in 1 .. m : ds[i] = cs[i]
  BY <1>1
<1>3. \A i \in 1 .. m : g[i] \in 1 .. c - 1
  BY DEF Judged
<1>4. \A i \in 1 .. m + 1 : i = m + 1 \/ i \in 1 .. m
  BY <1>1
<1>5. h \in [1 .. m + 1 -> 1 .. c]
  BY <1>1, <1>3, <1>4
<1>6. \A i \in 1 .. m + 1 : ds[i] = in.chains[h[i]] /\ Feasible(ds[i])
  BY <1>1, <1>2, <1>4 DEF Judged
<1>7. \A i, j \in 1 .. m + 1 : i < j => h[i] < h[j]
  BY <1>1, <1>3, <1>4 DEF Judged
<1>8. \A d \in 1 .. c : Feasible(in.chains[d]) => \E i \in 1 .. m + 1 : h[i] = d
  <2> SUFFICES ASSUME NEW d \in 1 .. c, Feasible(in.chains[d])
               PROVE  \E i \in 1 .. m + 1 : h[i] = d
    OBVIOUS
  <2>1. CASE d = c
    <3>1. m + 1 \in 1 .. m + 1
      BY <1>1
    <3> QED
      BY <2>1, <3>1
  <2>2. CASE d # c
    <3>1. d \in 1 .. c - 1
      BY <2>2, <1>1
    <3>2. PICK i \in 1 .. m : g[i] = d
      BY <3>1 DEF Judged
    <3>3. i \in 1 .. m + 1 /\ i # m + 1
      BY <1>1
    <3> QED
      BY <3>2, <3>3
  <2> QED
    BY <2>1, <2>2
<1> HIDE DEF h, ds
<1>9. Judged(in, ds, c, h)
  BY <1>2, <1>5, <1>6, <1>7, <1>8 DEF Judged
<1> QED
  BY <1>9 DEF ds

\* ... and an infeasible one does not.
LEMMA JudgeInfeasible ==
  ASSUME NEW in \in Inputs, NEW cs, NEW c \in 1 .. Len(in.chains),
         ~ Feasible(in.chains[c]), NEW g, Judged(in, cs, c - 1, g)
  PROVE  Judged(in, cs, c, g)
<1>1. c \in Nat /\ \A d \in 1 .. c : d = c \/ d \in 1 .. c - 1
  BY InputFacts
<1>2. \A d \in 1 .. c - 1 : d \in 1 .. c
  BY <1>1
<1> QED
  BY <1>1, <1>2 DEF Judged


\* Three numbers, compared one after the other, order the chains.
LEMMA ChainsOrder ==
  ASSUME NEW in \in Inputs, NEW cs \in Seq(Range(in.chains))
  PROVE  Orders({ij \in (DOMAIN cs) \X (DOMAIN cs) : ChainBefore(cs[ij[1]], cs[ij[2]])},
                DOMAIN cs)
<1> DEFINE before == {ij \in (DOMAIN cs) \X (DOMAIN cs) : ChainBefore(cs[ij[1]], cs[ij[2]])}
           K(i) == <<cs[i].criticality, Controllable(cs[i]), cs[i].name>>
<1>1. \A i, j \in DOMAIN cs : <<i, j>> \in before <=> ChainBefore(cs[i], cs[j])
  OBVIOUS
<1>2. ASSUME NEW i \in DOMAIN cs
      PROVE  cs[i].criticality \in Int /\ Controllable(cs[i]) \in Int /\ cs[i].name \in Int
  <2>1. cs[i] \in Range(in.chains)
    OBVIOUS
  <2>2. IsChain(cs[i]) /\ Controllable(cs[i]) \in Int
    BY <2>1, InputFacts
  <2> QED
    BY <2>2 DEF IsChain
<1> HIDE DEF before
<1>3. ASSUME NEW i \in DOMAIN cs, NEW j \in DOMAIN cs, NEW k \in DOMAIN cs
      PROVE  /\ ChainBefore(cs[i], cs[j]) => ~ ChainBefore(cs[j], cs[i])
             /\ ~ ChainBefore(cs[i], cs[j]) /\ ~ ChainBefore(cs[j], cs[k]) =>
                  ~ ChainBefore(cs[i], cs[k])
  BY <1>2 DEF ChainBefore
<1> QED
  BY <1>1, <1>3 DEF Orders

\* The feasible chains as declared, sorted, are the feasible chains as designed.
LEMMA ChainsAreChosen ==
  ASSUME NEW in \in Inputs, NEW cs, NEW g, Judged(in, cs, Len(in.chains), g)
  PROVE  \E h : Chosen(in, SortedBy(cs, ChainBefore), h)
<1> DEFINE D == DOMAIN cs
           before == {ij \in D \X D : ChainBefore(cs[ij[1]], cs[ij[2]])}
           t == SortedBy(cs, ChainBefore)
<1>1. /\ cs \in Seq(Range(in.chains)) /\ D = 1 .. Len(cs) /\ Len(cs) \in Nat
      /\ DOMAIN in.chains = 1 .. Len(in.chains)
      /\ g \in [D -> DOMAIN in.chains]
      /\ \A i \in D : cs[i] = in.chains[g[i]] /\ Feasible(cs[i])
      /\ \A i, j \in D : i < j => g[i] < g[j]
      /\ \A c \in DOMAIN in.chains : Feasible(in.chains[c]) => \E i \in D : g[i] = c
  <2>1. DOMAIN in.chains = 1 .. Len(in.chains)
    BY InputFacts
  <2>2. cs \in Seq(Range(in.chains))
    BY DEF Judged
  <2>3. D = 1 .. Len(cs) /\ Len(cs) \in Nat
    BY <2>2
  <2> HIDE DEF D
  <2> QED
    BY <2>1, <2>2, <2>3 DEF Judged
<1>2. t = Arranged(cs, D, before)
  BY DEF SortedBy
<1>3. Orders(before, D)
  BY <1>1, ChainsOrder
<1>4. \A i, j \in D : <<i, j>> \in before <=> ChainBefore(cs[i], cs[j])
  OBVIOUS
<1> HIDE DEF t, before, D
<1>5. IsStablySorted(t, Range(in.chains), cs, before)
  BY <1>1, <1>2, <1>3, SortedFacts DEF D
<1>6. t \in Seq(Range(in.chains)) /\ DOMAIN t = D
  BY <1>5 DEF IsStablySorted, D
<1>7. PICK p \in Bijection(D, D) :
        \A k \in D : /\ t[k] = cs[p[k]]
                     /\ \A j \in D : j < k => /\ <<p[k], p[j]>> \notin before
                                              /\ <<p[j], p[k]>> \notin before => p[j] < p[k]
  BY <1>5 DEF IsStablySorted, D
<1>8. /\ \A k \in D : p[k] \in D
      /\ \A i \in D : \E k \in D : p[k] = i
      /\ \A i, j \in D : p[i] = p[j] => i = j
  BY DEF Bijection, Injection, Surjection, IsInjective
<1> DEFINE h == [k \in D |-> g[p[k]]]
<1>9. h \in [D -> DOMAIN in.chains] /\ \A k \in D : h[k] = g[p[k]]
  BY <1>1, <1>8
<1> HIDE DEF h
<1>10. \A i \in D : t[i] = in.chains[h[i]] /\ Feasible(t[i])
  <2> SUFFICES ASSUME NEW i \in D
               PROVE  t[i] = in.chains[h[i]] /\ Feasible(t[i])
    OBVIOUS
  <2>1. p[i] \in D /\ t[i] = cs[p[i]] /\ h[i] = g[p[i]]
    BY <1>7, <1>8, <1>9
  <2> QED
    BY <1>1, <2>1
<1>11. ASSUME NEW i \in D, NEW j \in D, i < j
       PROVE  h[i] # h[j] /\ Ahead(in, h[i], h[j])
  <2>1. p[i] \in D /\ p[j] \in D /\ p[i] # p[j]
    <3>1. i # j
      BY <1>1, <1>11
    <3> QED
      BY <1>8, <3>1
  <2>2. /\ ~ ChainBefore(cs[p[j]], cs[p[i]])
        /\ ~ ChainBefore(cs[p[i]], cs[p[j]]) => p[i] < p[j]
    BY <1>4, <1>7, <1>11, <2>1
  <2>. h[i] = g[p[i]] /\ h[j] = g[p[j]]
    BY <1>9
  <2>3. cs[p[i]] = in.chains[h[i]] /\ cs[p[j]] = in.chains[h[j]]
    BY <1>1, <2>1
  <2>4. p[i] < p[j] => h[i] < h[j]
    BY <1>1, <2>1
  <2>5. h[i] # h[j]
    <3>1. p[i] < p[j] \/ p[j] < p[i]
      BY <1>1, <2>1
    <3>2. g[p[i]] < g[p[j]] \/ g[p[j]] < g[p[i]]
      BY <1>1, <2>1, <3>1
    <3>3. g[p[i]] \in Int /\ g[p[j]] \in Int
      BY <1>1, <2>1
    <3> QED
      BY <3>2, <3>3
  <2> QED
    BY <2>2, <2>3, <2>4, <2>5 DEF Ahead
<1>12. ASSUME NEW c \in DOMAIN in.chains, Feasible(in.chains[c])
       PROVE  \E i \in D : h[i] = c
  <2>1. PICK i \in D : g[i] = c
    BY <1>1, <1>12
  <2>2. PICK k \in D : p[k] = i
    BY <1>8
  <2> QED
    BY <1>9, <2>1, <2>2
<1>13. D = 1 .. Len(t)
  BY <1>6
<1>14. Chosen(in, t, h)
  BY <1>6, <1>9, <1>10, <1>11, <1>12, <1>13 DEF Chosen
<1> QED
  BY <1>14 DEF t


-----------------------------------------------------------------------------
(***************************************************************************)
(* Places.  A place <<c, e, k>> is the k-th link of element e of chain c.  *)
(***************************************************************************)
ElementAt(in, x) == in.chains[x[1]].elements[x[2]]

LinkAt(in, x) == LinksOf(ElementAt(in, x))[x[3]]

EndAt(in, x) == RunEnd(in.chains[x[1]].elements, x[2])

ChainPlaces(in) ==
  {x \in Nat \X Nat \X Nat :
     /\ x[1] \in DOMAIN in.chains /\ Feasible(in.chains[x[1]])
     /\ x[2] \in DOMAIN in.chains[x[1]].elements
     /\ x[3] \in DOMAIN LinksOf(ElementAt(in, x))}

\* The links of one segment, or of one maximal run of boundaries.
SameGroup(in, x, y) == x[1] = y[1] /\ EndAt(in, x) = EndAt(in, y)

\* The order inside a group.
Leads(in, x, y) ==
  LET e == ElementAt(in, x)
      f == ElementAt(in, y)
  IN  \/ /\ IsBoundary(e) /\ IsBoundary(f)
         /\ ~ RateMonotonic(f, e)
         /\ ~ RateMonotonic(e, f) => x[2] < y[2]
      \/ ~ IsBoundary(e) /\ ~ IsBoundary(f) /\ x[3] > y[3]

PlaceBefore(in, x, y) ==
  IF x[1] # y[1] THEN Ahead(in, x[1], y[1])
  ELSE \/ EndAt(in, x) > EndAt(in, y)
       \/ EndAt(in, x) = EndAt(in, y) /\ Leads(in, x, y)

PlanItem == [link : Links, fine : Nat, coarse : Nat \cup {NoChain}, tie : Nat \cup {NoTie}]

\* The greatest number of a bounded set.
LEMMA GreatestNatural ==
  ASSUME NEW T, NEW m \in Nat, T \subseteq 0 .. m, T # {}
  PROVE  Max(T) \in T /\ \A y \in T : y <= Max(T)
<1> DEFINE U == {m - x : x \in T}
<1>1. U \subseteq Nat /\ U # {}
  <2>1. \A x \in T : m - x \in Nat
    OBVIOUS
  <2>2. PICK x \in T : TRUE
    OBVIOUS
  <2>3. m - x \in U
    OBVIOUS
  <2> QED
    BY <2>1, <2>3
<1>2. PICK u \in U : \A y \in U : u <= y
  BY <1>1, LeastNatural
<1>3. PICK x \in T : u = m - x
  OBVIOUS
<1>4. \A y \in T : y <= x
  <2> SUFFICES ASSUME NEW y \in T
               PROVE  y <= x
    OBVIOUS
  <2>1. m - y \in U
    OBVIOUS
  <2>2. u <= m - y
    BY <1>2, <2>1
  <2> QED
    BY <1>3, <2>2
<1>5. \A y \in T : x >= y
  BY <1>4
<1> QED
  BY <1>5, Zenon DEF Max

LEMMA LeastInRange ==
  ASSUME NEW T, T \subseteq Nat, T # {}
  PROVE  Min(T) \in T /\ \A y \in T : Min(T) <= y
<1>1. \E x \in T : \A y \in T : x <= y
  BY LeastNatural
<1> QED
  BY <1>1, Zenon DEF Min

\* Where the run that an element is part of ends.
LEMMA RunEndFacts ==
  ASSUME NEW els, Len(els) \in Nat, NEW e \in 1 .. Len(els)
  PROVE  /\ RunEnd(els, e) \in e .. Len(els)
         /\ ~ IsBoundary(els[e]) => RunEnd(els, e) = e
         /\ \A p \in e .. Len(els) :
              /\ \A h \in e .. p : IsBoundary(els[h])
              /\ p = Len(els) \/ ~ IsBoundary(els[p + 1])
              => RunEnd(els, e) = p
<1> DEFINE T == {g \in e .. Len(els) : g = e \/ \A h \in e .. g : IsBoundary(els[h])}
           r == RunEnd(els, e)
<1>1. \A g : g \in T <=> g \in e .. Len(els) /\ (g = e \/ \A h \in e .. g : IsBoundary(els[h]))
  OBVIOUS
<1>2. T \subseteq 0 .. Len(els) /\ e \in T
  OBVIOUS
<1>3. r = Max(T)
  BY DEF RunEnd
<1> HIDE DEF T, r
<1>4. r \in T /\ \A y \in T : y <= r
  BY <1>2, <1>3, GreatestNatural
<1>5. r \in e .. Len(els) /\ (r = e \/ \A h \in e .. r : IsBoundary(els[h]))
  BY <1>1, <1>4
<1>6. e \in e .. r
  BY <1>5
<1>7. ASSUME NEW p \in e .. Len(els), \A h \in e .. p : IsBoundary(els[h]),
             p = Len(els) \/ ~ IsBoundary(els[p + 1])
      PROVE  r = p
  <2>1. p <= r
    BY <1>1, <1>4, <1>7
  <2>2. SUFFICES ASSUME p < r
                 PROVE  FALSE
    BY <1>5, <2>1
  <2>3. p + 1 \in e .. r /\ p # Len(els) /\ r # e
    BY <1>5, <2>2
  <2> QED
    BY <1>5, <1>7, <2>3
<1> QED
  BY <1>5, <1>6, <1>7 DEF r


\* What a place is made of.
LEMMA PlaceFacts ==
  ASSUME NEW in \in Inputs, NEW x \in ChainPlaces(in)
  PROVE  /\ x = <<x[1], x[2], x[3]>>
         /\ x[1] \in DOMAIN in.chains /\ x[1] \in Nat /\ x[2] \in Nat /\ x[3] \in Nat
         /\ IsChain(in.chains[x[1]]) /\ Feasible(in.chains[x[1]])
         /\ Len(in.chains[x[1]].elements) \in Nat
         /\ x[2] \in 1 .. Len(in.chains[x[1]].elements)
         /\ IsElement(ElementAt(in, x))
         /\ LinkAt(in, x) \in Links
         /\ EndAt(in, x) \in x[2] .. Len(in.chains[x[1]].elements)
<1> DEFINE c == in.chains[x[1]]
<1>1. /\ x \in Nat \X Nat \X Nat
      /\ x[1] \in DOMAIN in.chains /\ Feasible(c)
      /\ x[2] \in DOMAIN c.elements
      /\ x[3] \in DOMAIN LinksOf(ElementAt(in, x))
  BY DEF ChainPlaces
<1>2. x = <<x[1], x[2], x[3]>> /\ x[1] \in Nat /\ x[2] \in Nat /\ x[3] \in Nat
  BY <1>1
<1>3. IsChain(c)
  BY <1>1, InputFacts
<1> HIDE DEF c
<1>4. /\ Len(c.elements) \in Nat /\ x[2] \in 1 .. Len(c.elements)
      /\ c.elements[x[2]] \in Range(c.elements)
  BY <1>1, <1>3 DEF IsChain, Range
<1>5. ElementAt(in, x) = c.elements[x[2]]
  BY DEF ElementAt, c
<1>6. IsElement(ElementAt(in, x))
  BY <1>3, <1>4, <1>5 DEF IsChain
<1>7. LinkAt(in, x) \in Links
  BY <1>1, <1>6 DEF LinkAt, LinksOf, IsElement, IsBoundary
<1>8. EndAt(in, x) \in x[2] .. Len(c.elements)
  BY <1>4, RunEndFacts DEF EndAt, c
<1> QED
  BY <1>1, <1>2, <1>3, <1>4, <1>6, <1>7, <1>8 DEF c

-----------------------------------------------------------------------------
(***************************************************************************)
(* The walk.  w gives the place of every item that has been emitted.       *)
(***************************************************************************)
\* The items stand for the places S, in the order of the design; groups of the design
\* are groups of the plan, numbered below cnt.
Walked(in, S, w, its, cnt) ==
  /\ cnt \in Nat
  /\ its \in Seq(PlanItem)
  /\ w \in [DOMAIN its -> S]
  /\ \A x \in S : \E i \in DOMAIN its : w[i] = x
  /\ \A i \in DOMAIN its :
       /\ its[i].link = LinkAt(in, w[i]) /\ its[i].fine < cnt
       /\ its[i].coarse = in.chains[w[i][1]].name /\ its[i].tie = NoTie
  /\ \A i, j \in DOMAIN its :
       /\ i < j => PlaceBefore(in, w[i], w[j]) /\ its[i].fine <= its[j].fine
       /\ its[i].fine = its[j].fine <=> SameGroup(in, w[i], w[j])

\* v lists the places of one group in the order of the design.
ListsGroup(in, G, v, m) ==
  /\ v \in [1 .. m -> G]
  /\ \A y \in G : \E k \in 1 .. m : v[k] = y
  /\ \A j, k \in 1 .. m : j < k => PlaceBefore(in, v[j], v[k])
  /\ \A x, y \in G : SameGroup(in, x, y)

\* The items of one group.
GroupItems(in, v, m, cnt, name) ==
  [k \in 1 .. m |-> [link |-> LinkAt(in, v[k]), fine |-> cnt, coarse |-> name, tie |-> NoTie]]

\* r is s with t behind it.
IsJoined(r, S, s, t) ==
  /\ r \in Seq(S) /\ Len(r) = Len(s) + Len(t)
  /\ DOMAIN r = 1 .. Len(s) + Len(t)
  /\ \A i \in 1 .. Len(s) : r[i] = s[i]
  /\ \A k \in 1 .. Len(t) : r[Len(s) + k] = t[k]

LEMMA Concatenation ==
  ASSUME NEW S, NEW s \in Seq(S), NEW t \in Seq(S)
  PROVE  IsJoined(s \o t, S, s, t)
<1>1. Len(s) \in Nat /\ Len(t) \in Nat
  OBVIOUS
<1>2. \A i \in 1 .. Len(s) : i \in 1 .. Len(s) + Len(t) /\ i <= Len(s)
  BY <1>1
<1>3. \A k \in 1 .. Len(t) : /\ Len(s) + k \in 1 .. Len(s) + Len(t)
                             /\ ~ (Len(s) + k <= Len(s)) /\ (Len(s) + k) - Len(s) = k
  BY <1>1
<1>4. s \o t \in Seq(S) /\ Len(s \o t) = Len(s) + Len(t)
  OBVIOUS
<1>5. DOMAIN (s \o t) = 1 .. Len(s) + Len(t)
  BY <1>4
<1>6. \A i \in 1 .. Len(s) : (s \o t)[i] = s[i]
  BY <1>1, <1>2
<1>7. \A k \in 1 .. Len(t) : (s \o t)[Len(s) + k] = t[k]
  BY <1>1, <1>3
<1> QED
  BY <1>4, <1>5, <1>6, <1>7 DEF IsJoined

\* A new group joins the plan.
LEMMA AppendGroup ==
  ASSUME NEW in \in Inputs, NEW S, NEW w, NEW its, NEW cnt, Walked(in, S, w, its, cnt),
         NEW G, G \subseteq ChainPlaces(in), NEW m \in Nat, NEW v, ListsGroup(in, G, v, m),
         NEW name \in Nat, \A y \in G : in.chains[y[1]].name = name,
         \A x \in S : \A y \in G : PlaceBefore(in, x, y) /\ ~ SameGroup(in, x, y)
  PROVE  \E u : Walked(in, S \cup G, u, its \o GroupItems(in, v, m, cnt, name), cnt + 1)
<1> DEFINE l == Len(its)
           more == GroupItems(in, v, m, cnt, name)
           all == its \o more
           u == [i \in 1 .. l + m |-> IF i <= l THEN w[i] ELSE v[i - l]]
<1>1. /\ cnt \in Nat /\ its \in Seq(PlanItem) /\ l \in Nat /\ DOMAIN its = 1 .. l
      /\ \A i \in 1 .. l : its[i] \in PlanItem /\ its[i].fine \in Nat /\ its[i].fine < cnt
  <2>1. cnt \in Nat /\ its \in Seq(PlanItem) /\ \A i \in DOMAIN its : its[i].fine < cnt
    BY DEF Walked
  <2>2. \A i \in DOMAIN its : its[i] \in PlanItem
    BY <2>1
  <2> QED
    BY <2>1, <2>2 DEF PlanItem
<1>2. \A k \in 1 .. m : v[k] \in G /\ LinkAt(in, v[k]) \in Links
  BY PlaceFacts DEF ListsGroup
<1>3. /\ more \in Seq(PlanItem) /\ Len(more) = m
      /\ \A k \in 1 .. m : more[k] = [link |-> LinkAt(in, v[k]), fine |-> cnt,
                                      coarse |-> name, tie |-> NoTie]
  <2>1. \A k \in 1 .. m : [link |-> LinkAt(in, v[k]), fine |-> cnt,
                           coarse |-> name, tie |-> NoTie] \in PlanItem
    BY <1>1, <1>2 DEF PlanItem
  <2> QED
    BY <2>1 DEF GroupItems
<1> HIDE DEF more, l
<1>4. /\ all \in Seq(PlanItem) /\ Len(all) = l + m /\ DOMAIN all = 1 .. l + m
      /\ \A i \in 1 .. l : all[i] = its[i]
      /\ \A k \in 1 .. m : all[l + k] = more[k]
  <2>1. /\ all \in Seq(PlanItem) /\ Len(all) = Len(its) + Len(more)
        /\ DOMAIN all = 1 .. Len(its) + Len(more)
        /\ \A i \in 1 .. Len(its) : all[i] = its[i]
        /\ \A k \in 1 .. Len(more) : all[Len(its) + k] = more[k]
    <3>1. IsJoined(all, PlanItem, its, more)
      BY <1>1, <1>3, Concatenation
    <3> HIDE DEF all
    <3> QED
      BY <3>1 DEF IsJoined
  <2>2. Len(its) = l
    BY DEF l
  <2>3. Len(more) = m
    BY <1>3
  <2> QED
    BY ONLY <2>1, <2>2, <2>3, Zenon
<1> HIDE DEF all
<1>5. \A i \in 1 .. l + m : \/ i \in 1 .. l /\ i <= l
                            \/ i - l \in 1 .. m /\ ~ (i <= l) /\ i = l + (i - l)
  BY <1>1
<1>6. /\ \A i \in 1 .. l : i \in 1 .. l + m /\ u[i] = w[i]
      /\ \A k \in 1 .. m : l + k \in 1 .. l + m /\ u[l + k] = v[k]
  <2>1. \A k \in 1 .. m : l + k \in 1 .. l + m /\ ~ (l + k <= l) /\ (l + k) - l = k
    BY <1>1
  <2>2. \A i \in 1 .. l : i \in 1 .. l + m /\ i <= l
    BY <1>1
  <2> QED
    BY <2>1, <2>2
<1>7. u \in [1 .. l + m -> S \cup G]
  <2>1. \A i \in 1 .. l : w[i] \in S
    BY <1>1 DEF Walked
  <2> QED
    BY <2>1, <1>2, <1>5
<1> HIDE DEF u
<1>8. \A x \in S \cup G : \E i \in 1 .. l + m : u[i] = x
  <2>1. ASSUME NEW x \in S
        PROVE  \E i \in 1 .. l + m : u[i] = x
    BY <1>1, <1>6 DEF Walked
  <2>2. ASSUME NEW x \in G
        PROVE  \E i \in 1 .. l + m : u[i] = x
    BY <1>6 DEF ListsGroup
  <2> QED
    BY <2>1, <2>2
<1>9. \A i \in 1 .. l : /\ all[i] = its[i] /\ u[i] = w[i] /\ u[i] \in S
                        /\ all[i].link = LinkAt(in, u[i]) /\ all[i].fine < cnt + 1
                        /\ all[i].coarse = in.chains[u[i][1]].name /\ all[i].tie = NoTie
  BY <1>1, <1>4, <1>6 DEF Walked
<1>10. \A k \in 1 .. m : /\ all[l + k] = more[k] /\ u[l + k] = v[k] /\ u[l + k] \in G
                         /\ all[l + k].fine = cnt
                         /\ all[l + k].link = LinkAt(in, u[l + k]) /\ all[l + k].fine < cnt + 1
                         /\ all[l + k].coarse = in.chains[u[l + k][1]].name
                         /\ all[l + k].tie = NoTie
  <2> SUFFICES ASSUME NEW k \in 1 .. m
               PROVE  /\ all[l + k] = more[k] /\ u[l + k] = v[k] /\ u[l + k] \in G
                      /\ all[l + k].fine = cnt
                      /\ all[l + k].link = LinkAt(in, u[l + k]) /\ all[l + k].fine < cnt + 1
                      /\ all[l + k].coarse = in.chains[u[l + k][1]].name
                      /\ all[l + k].tie = NoTie
    OBVIOUS
  <2>1. all[l + k] = more[k] /\ u[l + k] = v[k] /\ v[k] \in G
    BY <1>2, <1>4, <1>6
  <2>2. /\ more[k].link = LinkAt(in, v[k]) /\ more[k].fine = cnt /\ more[k].coarse = name
        /\ more[k].tie = NoTie
    BY <1>3
  <2>3. cnt < cnt + 1
    BY <1>1
  <2> QED
    BY <2>1, <2>2, <2>3
<1>11. \A i \in 1 .. l + m :
         /\ all[i].link = LinkAt(in, u[i]) /\ all[i].fine < cnt + 1
         /\ all[i].coarse = in.chains[u[i][1]].name /\ all[i].tie = NoTie
  BY <1>5, <1>9, <1>10
<1>12. ASSUME NEW i \in 1 .. l + m, NEW j \in 1 .. l + m
       PROVE  /\ i < j => PlaceBefore(in, u[i], u[j]) /\ all[i].fine <= all[j].fine
              /\ all[i].fine = all[j].fine <=> SameGroup(in, u[i], u[j])
  <2>1. CASE i \in 1 .. l /\ j \in 1 .. l
    BY <1>1, <1>9, <2>1 DEF Walked
  <2>2. CASE i \in 1 .. l /\ j - l \in 1 .. m /\ j = l + (j - l)
    <3>1. u[i] \in S /\ u[j] \in G /\ all[i].fine = its[i].fine /\ all[j].fine = cnt
      BY <1>9, <1>10, <2>2
    <3>2. PlaceBefore(in, u[i], u[j]) /\ ~ SameGroup(in, u[i], u[j])
      BY <3>1
    <3>3. its[i].fine <= cnt /\ its[i].fine # cnt
      BY <1>1, <2>2
    <3> QED
      BY <3>1, <3>2, <3>3
  <2>3. CASE i - l \in 1 .. m /\ j \in 1 .. l /\ i = l + (i - l)
    <3>1. u[j] \in S /\ u[i] \in G /\ all[j].fine = its[j].fine /\ all[i].fine = cnt
      BY <1>9, <1>10, <2>3
    <3>2. ~ SameGroup(in, u[j], u[i])
      BY <3>1
    <3>3. its[j].fine # cnt /\ ~ (i < j)
      BY <1>1, <2>3
    <3> QED
      BY <3>1, <3>2, <3>3 DEF SameGroup
  <2>4. CASE i - l \in 1 .. m /\ j - l \in 1 .. m /\ i = l + (i - l) /\ j = l + (j - l)
    <3>1. /\ u[i] = v[i - l] /\ u[j] = v[j - l] /\ u[i] \in G /\ u[j] \in G
          /\ all[i].fine = cnt /\ all[j].fine = cnt
      BY <1>10, <2>4
    <3>2. SameGroup(in, u[i], u[j])
      BY <3>1 DEF ListsGroup
    <3>3. i < j => i - l < j - l
      BY <1>1
    <3>4. i < j => PlaceBefore(in, u[i], u[j])
      BY <2>4, <3>1, <3>3 DEF ListsGroup
    <3> QED
      BY <1>1, <3>1, <3>2, <3>4
  <2> QED
    BY <1>5, <2>1, <2>2, <2>3, <2>4
<1>13. cnt + 1 \in Nat
  BY <1>1
<1>14. Walked(in, S \cup G, u, all, cnt + 1)
  BY <1>4, <1>7, <1>8, <1>11, <1>12, <1>13 DEF Walked
<1> QED
  BY <1>14 DEF all, more


\* The places the walk has been at, when p elements of the a-th candidate are left.
Emitted(in, cs, g, a, p) ==
  {x \in ChainPlaces(in) :
     \E b \in DOMAIN cs : x[1] = g[b] /\ b <= a /\ (b = a => x[2] > p)}

\* The places on the elements from f to p of a chain.
Stretch(in, c, f, p) == {x \in ChainPlaces(in) : x[1] = c /\ x[2] \in f .. p}

\* What the choice of the candidates says of one of them.
LEMMA CandidateFacts ==
  ASSUME NEW in \in Inputs, NEW cs, NEW g, Chosen(in, cs, g), NEW a \in DOMAIN cs
  PROVE  /\ a \in Nat /\ g[a] \in DOMAIN in.chains /\ g[a] \in Nat
         /\ cs[a] = in.chains[g[a]]
         /\ IsChain(cs[a]) /\ Feasible(cs[a])
         /\ Len(cs[a].elements) \in Nat
         /\ DOMAIN cs[a].elements = 1 .. Len(cs[a].elements)
         /\ \A e \in 1 .. Len(cs[a].elements) : IsElement(cs[a].elements[e])
<1>1. cs \in Seq(Range(in.chains))
  BY DEF Chosen
<1>2. a \in 1 .. Len(cs) /\ a \in Nat
  BY <1>1
<1>3. g[a] \in DOMAIN in.chains /\ cs[a] = in.chains[g[a]] /\ Feasible(cs[a])
  BY <1>2 DEF Chosen
<1>4. IsChain(cs[a]) /\ g[a] \in Nat
  BY <1>3, InputFacts
<1>5. /\ Len(cs[a].elements) \in Nat
      /\ DOMAIN cs[a].elements = 1 .. Len(cs[a].elements)
  BY <1>4 DEF IsChain
<1>6. \A e \in 1 .. Len(cs[a].elements) : IsElement(cs[a].elements[e])
  BY <1>4, <1>5 DEF IsChain, Range
<1> QED
  BY <1>2, <1>3, <1>4, <1>5, <1>6

\* A stretch of elements that the design takes for one group joins the plan.
LEMMA GroupJoins ==
  ASSUME NEW in \in Inputs, NEW cs, NEW g, Chosen(in, cs, g), NEW a \in DOMAIN cs,
         NEW p \in 1 .. Len(cs[a].elements), NEW f \in 1 .. p,
         \A y \in Stretch(in, g[a], f, p) : EndAt(in, y) = p,
         NEW m \in Nat, NEW v, ListsGroup(in, Stretch(in, g[a], f, p), v, m),
         NEW w, NEW its, NEW cnt, Walked(in, Emitted(in, cs, g, a, p), w, its, cnt)
  PROVE  \E u : Walked(in, Emitted(in, cs, g, a, f - 1), u,
                       its \o GroupItems(in, v, m, cnt, cs[a].name), cnt + 1)
<1> DEFINE S == Emitted(in, cs, g, a, p)
           G == Stretch(in, g[a], f, p)
<1>1. /\ a \in Nat /\ g[a] \in Nat /\ cs[a] = in.chains[g[a]] /\ cs[a].name \in Nat
      /\ Len(cs[a].elements) \in Nat /\ p \in Nat /\ f \in Nat /\ f <= p
  BY CandidateFacts DEF IsChain
<1>2. ASSUME NEW x \in S, NEW y \in G
      PROVE  PlaceBefore(in, x, y) /\ ~ SameGroup(in, x, y)
  <2>1. y[1] = g[a] /\ EndAt(in, y) = p
    BY <1>2 DEF Stretch
  <2>2. PICK b \in DOMAIN cs : x[1] = g[b] /\ b <= a /\ (b = a => x[2] > p)
    BY <1>2 DEF Emitted
  <2>3. CASE b = a
    <3>1. x \in ChainPlaces(in)
      BY <1>2 DEF Emitted
    <3>2. EndAt(in, x) \in Nat /\ x[2] \in Nat /\ x[2] <= EndAt(in, x)
      BY <3>1, PlaceFacts
    <3>3. EndAt(in, x) > p /\ EndAt(in, x) # p
      BY <2>2, <2>3, <3>2, <1>1
    <3> QED
      BY <2>1, <2>2, <2>3, <3>3 DEF PlaceBefore, SameGroup
  <2>4. CASE b # a
    <3>1. b \in Nat /\ b \in 1 .. Len(cs) /\ a \in 1 .. Len(cs)
      BY DEF Chosen
    <3>2. b < a
      BY <2>2, <2>4, <3>1
    <3>3. g[b] # g[a] /\ Ahead(in, g[b], g[a])
      BY <3>1, <3>2 DEF Chosen
    <3> QED
      BY <2>1, <2>2, <3>3 DEF PlaceBefore, SameGroup
  <2> QED
    BY <2>3, <2>4
<1>3. Emitted(in, cs, g, a, f - 1) = S \cup G
  <2>1. ASSUME NEW x \in ChainPlaces(in)
        PROVE  x \in Emitted(in, cs, g, a, f - 1) <=> x \in S \cup G
    <3>1. x[2] \in Nat
      BY <2>1, PlaceFacts
    <3>2. x[2] > f - 1 <=> x[2] > p \/ x[2] \in f .. p
      BY <1>1, <3>1
    <3>3. x[2] > p => x[2] > f - 1
      BY <3>2
    <3>4. \A b \in DOMAIN cs : b \in Nat
      BY DEF Chosen
    <3>5. a <= a
      BY <1>1
    <3> QED
      BY <3>2, <3>3, <3>5 DEF Emitted, Stretch
  <2> QED
    BY <2>1 DEF Emitted, Stretch
<1>4. G \subseteq ChainPlaces(in) /\ \A y \in G : in.chains[y[1]].name = cs[a].name
  BY <1>1 DEF Stretch
<1> HIDE DEF S, G
<1>5. Walked(in, S, w, its, cnt) /\ ListsGroup(in, G, v, m)
  BY DEF S, G
<1>6. \E u : Walked(in, S \cup G, u, its \o GroupItems(in, v, m, cnt, cs[a].name), cnt + 1)
  BY <1>1, <1>2, <1>4, <1>5, AppendGroup
<1> QED
  BY <1>3, <1>6

\* v lists the links of the segment p from its sink.
ListsSegment(in, els, c, p, v) ==
  LET links == Reverse(els[p].links)
      m == Len(els[p].links)
  IN  /\ m \in Nat
      /\ DOMAIN links = 1 .. m
      /\ ListsGroup(in, Stretch(in, c, p, p), v, m)
      /\ \A k \in 1 .. m : LinkAt(in, v[k]) = links[k]

\* A segment, drained from its sink.
LEMMA SegmentLists ==
  ASSUME NEW in \in Inputs, NEW cs, NEW g, Chosen(in, cs, g), NEW a \in DOMAIN cs,
         NEW p \in 1 .. Len(cs[a].elements), ~ IsBoundary(cs[a].elements[p])
  PROVE  /\ \A y \in Stretch(in, g[a], p, p) : EndAt(in, y) = p
         /\ \E v : ListsSegment(in, cs[a].elements, g[a], p, v)
<1> DEFINE els == cs[a].elements
           links == els[p].links
           m == Len(links)
           v == [k \in 1 .. m |-> <<g[a], p, m + 1 - k>>]
           c == g[a]
           G == Stretch(in, c, p, p)
<1>1. /\ c \in DOMAIN in.chains /\ c \in Nat /\ cs[a] = in.chains[c] /\ Feasible(cs[a])
      /\ Len(els) \in Nat /\ DOMAIN els = 1 .. Len(els) /\ p \in Nat
      /\ IsElement(els[p])
  BY CandidateFacts
<1>2. links \in Seq(Links) /\ m \in Nat /\ DOMAIN links = 1 .. m
  <2>1. links \in Seq(Links)
    <3> DEFINE e == els[p]
    <3>1. IsElement(e) /\ ~ IsBoundary(e)
      BY <1>1
    <3> HIDE DEF e
    <3>2. e.links \in Seq(Links)
      BY <3>1 DEF IsElement, IsBoundary
    <3> QED
      BY <3>2 DEF e
  <2> HIDE DEF links
  <2> QED
    BY <2>1
<1>3. LinksOf(els[p]) = links
  BY DEF LinksOf
<1>4. \A k \in 1 .. m : m + 1 - k \in 1 .. m /\ m + 1 - (m + 1 - k) = k
  BY <1>2
<1>5. \A k \in 1 .. m : Reverse(links)[k] = links[m + 1 - k]
  <2>1. \A k \in 1 .. m : (m - k) + 1 = m + 1 - k
    BY <1>2
  <2> QED
    BY <2>1 DEF Reverse
<1>6. DOMAIN Reverse(links) = 1 .. m
  BY DEF Reverse
<1> HIDE DEF m, links, els, c
<1>7. \A k \in 1 .. m : <<c, p, k>> \in G
  <2> SUFFICES ASSUME NEW k \in 1 .. m
               PROVE  <<c, p, k>> \in G
    OBVIOUS
  <2>1. k \in Nat /\ p \in p .. p
    BY <1>1, <1>2
  <2>2. ElementAt(in, <<c, p, k>>) = els[p]
    BY <1>1 DEF ElementAt, els
  <2>3. p \in DOMAIN in.chains[c].elements
    BY <1>1 DEF els
  <2>4. <<c, p, k>> \in ChainPlaces(in)
    BY <1>1, <1>2, <1>3, <2>1, <2>2, <2>3 DEF ChainPlaces
  <2> QED
    BY <2>1, <2>4 DEF Stretch
<1>8. ASSUME NEW y \in G
      PROVE  /\ y = <<c, p, y[3]>> /\ y[3] \in 1 .. m
             /\ ElementAt(in, y) = els[p] /\ EndAt(in, y) = p
  <2>1. y \in ChainPlaces(in) /\ y[1] = c /\ y[2] = p
    BY <1>1, <1>8 DEF Stretch
  <2>2. ElementAt(in, y) = els[p]
    BY <1>1, <2>1 DEF ElementAt, els
  <2>3. y[3] \in 1 .. m
    BY <1>2, <1>3, <2>1, <2>2 DEF ChainPlaces
  <2>4. y = <<y[1], y[2], y[3]>>
    BY <2>1, PlaceFacts
  <2>5. RunEnd(els, p) = p
    BY <1>1, RunEndFacts DEF els
  <2>6. EndAt(in, y) = p
    BY <1>1, <2>1, <2>5 DEF EndAt, els
  <2> QED
    BY <2>1, <2>2, <2>3, <2>4, <2>6
<1>9. v \in [1 .. m -> G]
  BY <1>4, <1>7 DEF c
<1>10. \A y \in G : \E k \in 1 .. m : v[k] = y
  <2> SUFFICES ASSUME NEW y \in G
               PROVE  \E k \in 1 .. m : v[k] = y
    OBVIOUS
  <2>1. v[m + 1 - y[3]] = <<c, p, y[3]>>
    BY <1>4, <1>8 DEF c
  <2> QED
    BY <1>4, <1>8, <2>1
<1>11. ASSUME NEW j \in 1 .. m, NEW k \in 1 .. m, j < k
       PROVE  PlaceBefore(in, v[j], v[k])
  <2>1. v[j] \in G /\ v[k] \in G
    BY <1>9
  <2>2. /\ v[j][1] = c /\ v[k][1] = c
        /\ EndAt(in, v[j]) = p /\ EndAt(in, v[k]) = p
        /\ ElementAt(in, v[j]) = els[p] /\ ElementAt(in, v[k]) = els[p]
    BY <1>8, <2>1
  <2>3. v[j][3] > v[k][3]
    BY <1>2, <1>11
  <2> HIDE DEF v
  <2>4. ~ IsBoundary(els[p])
    BY DEF els
  <2> QED
    BY <2>2, <2>3, <2>4 DEF PlaceBefore, Leads
<1>12. \A x, y \in G : SameGroup(in, x, y)
  <2>1. \A y \in G : y[1] = c /\ EndAt(in, y) = p
    BY <1>8 DEF Stretch
  <2> QED
    BY <2>1 DEF SameGroup
<1>13. \A k \in 1 .. m : LinkAt(in, v[k]) = Reverse(links)[k]
  <2> SUFFICES ASSUME NEW k \in 1 .. m
               PROVE  LinkAt(in, v[k]) = Reverse(links)[k]
    OBVIOUS
  <2>1. v[k] \in G /\ v[k][3] = m + 1 - k
    BY <1>9
  <2>2. LinksOf(ElementAt(in, v[k])) = links
    BY <1>3, <1>8, <2>1
  <2> QED
    BY <1>5, <2>1, <2>2 DEF LinkAt
<1> HIDE DEF v
<1>14. ListsGroup(in, G, v, m)
  BY <1>9, <1>10, <1>11, <1>12 DEF ListsGroup
<1>15. \A y \in G : EndAt(in, y) = p
  BY <1>8
<1>16. ListsSegment(in, els, c, p, v)
  BY <1>2, <1>6, <1>13, <1>14 DEF ListsSegment, m, links
<1> QED
  BY <1>15, <1>16 DEF els, c


\* Where the run of boundaries that ends at p begins.
LEMMA RunStartFacts ==
  ASSUME NEW els, NEW p \in Nat, p >= 1, IsBoundary(els[p])
  PROVE  /\ RunStart(els, p) \in 1 .. p
         /\ \A h \in RunStart(els, p) .. p : IsBoundary(els[h])
         /\ RunStart(els, p) = 1 \/ ~ IsBoundary(els[RunStart(els, p) - 1])
<1> DEFINE T == {s \in 1 .. p : \A k \in s .. p : IsBoundary(els[k])}
           f == RunStart(els, p)
<1>1. \A s : s \in T <=> s \in 1 .. p /\ \A k \in s .. p : IsBoundary(els[k])
  OBVIOUS
<1>2. p \in T /\ T \subseteq Nat
  OBVIOUS
<1>3. f = Min(T)
  BY DEF RunStart
<1> HIDE DEF T, f
<1>4. f \in T /\ \A s \in T : f <= s
  BY <1>2, <1>3, LeastInRange
<1>5. f \in 1 .. p /\ \A k \in f .. p : IsBoundary(els[k])
  BY <1>1, <1>4
<1>6. ASSUME f # 1, IsBoundary(els[f - 1])
      PROVE  FALSE
  <2>1. f - 1 \in 1 .. p /\ ~ (f <= f - 1)
    BY <1>5, <1>6
  <2>2. \A k \in f - 1 .. p : k = f - 1 \/ k \in f .. p
    BY <1>5
  <2>3. f - 1 \in T
    BY <1>1, <1>5, <1>6, <2>1, <2>2
  <2> QED
    BY <1>4, <2>1, <2>3
<1> QED
  BY <1>5, <1>6 DEF f

\* Two numbers, compared one after the other, order the boundaries of a run.
LEMMA BoundariesOrder ==
  ASSUME NEW D, NEW s, \A i \in D : IsElement(s[i]) /\ IsBoundary(s[i])
  PROVE  Orders({ij \in D \X D : RateMonotonic(s[ij[1]], s[ij[2]])}, D)
<1> DEFINE before == {ij \in D \X D : RateMonotonic(s[ij[1]], s[ij[2]])}
<1>1. \A i, j \in D : <<i, j>> \in before <=> RateMonotonic(s[i], s[j])
  OBVIOUS
<1>2. ASSUME NEW i \in D
      PROVE  s[i].period \in Int /\ s[i].link[1] \in Int
  <2>1. IsElement(s[i]) /\ IsBoundary(s[i])
    OBVIOUS
  <2>2. s[i].period \in Int /\ s[i].link \in Links
    BY <2>1 DEF IsElement, IsBoundary
  <2> QED
    BY <2>2 DEF Links
<1> HIDE DEF before
<1>3. ASSUME NEW i \in D, NEW j \in D, NEW k \in D
      PROVE  /\ RateMonotonic(s[i], s[j]) => ~ RateMonotonic(s[j], s[i])
             /\ ~ RateMonotonic(s[i], s[j]) /\ ~ RateMonotonic(s[j], s[k]) =>
                  ~ RateMonotonic(s[i], s[k])
  BY <1>2 DEF RateMonotonic
<1> QED
  BY <1>1, <1>3 DEF Orders

\* What a part of a sequence holds.
LEMMA PartFacts ==
  ASSUME NEW S, NEW s \in Seq(S), NEW p \in 1 .. Len(s), NEW f \in 1 .. p
  PROVE  /\ SubSeq(s, f, p) \in Seq(S)
         /\ DOMAIN SubSeq(s, f, p) = 1 .. p - f + 1
         /\ \A i \in 1 .. p - f + 1 : f + i - 1 \in f .. p /\ SubSeq(s, f, p)[i] = s[f + i - 1]
<1> DEFINE t == SubSeq(s, f, p)
<1>1. Len(s) \in Nat /\ p \in Nat /\ f \in Nat /\ p - f + 1 \in Nat
  OBVIOUS
<1>2. t \in Seq(S) /\ Len(t) = p - f + 1
  OBVIOUS
<1>3. \A i \in 1 .. p - f + 1 : t[i] = s[f + i - 1]
  BY <1>1
<1>4. \A i \in 1 .. p - f + 1 : f + i - 1 \in f .. p
  BY <1>1
<1> HIDE DEF t
<1>5. DOMAIN t = 1 .. p - f + 1
  BY <1>2
<1> QED
  BY <1>2, <1>3, <1>4, <1>5 DEF t

\* v lists the links of a run as the code sorts them.
ListsRun(in, els, c, f, p, v) ==
  LET run == SortedBy(SubSeq(els, f, p), RateMonotonic)
      m == p - f + 1
  IN  /\ m \in Nat
      /\ DOMAIN run = 1 .. m
      /\ ListsGroup(in, Stretch(in, c, f, p), v, m)
      /\ \A k \in 1 .. m : LinkAt(in, v[k]) = run[k].link

\* A run of boundaries, sorted by rate.
LEMMA RunLists ==
  ASSUME NEW in \in Inputs, NEW cs, NEW g, Chosen(in, cs, g), NEW a \in DOMAIN cs,
         NEW p \in 1 .. Len(cs[a].elements), NEW f \in 1 .. p,
         \A h \in f .. p : IsBoundary(cs[a].elements[h]),
         p = Len(cs[a].elements) \/ ~ IsBoundary(cs[a].elements[p + 1])
  PROVE  /\ \A y \in Stretch(in, g[a], f, p) : EndAt(in, y) = p
         /\ \E v : ListsRun(in, cs[a].elements, g[a], f, p, v)
<1> DEFINE els == cs[a].elements
           m == p - f + 1
           c == g[a]
           G == Stretch(in, c, f, p)
           sub == SubSeq(els, f, p)
           D == 1 .. m
           before == {ij \in D \X D : RateMonotonic(sub[ij[1]], sub[ij[2]])}
           run == SortedBy(sub, RateMonotonic)
<1>1. /\ c \in DOMAIN in.chains /\ c \in Nat /\ cs[a] = in.chains[c] /\ Feasible(cs[a])
      /\ Len(els) \in Nat /\ DOMAIN els = 1 .. Len(els) /\ p \in Nat /\ f \in Nat /\ f <= p
      /\ els \in Seq(Range(els))
      /\ \A e \in 1 .. Len(els) : IsElement(els[e])
  BY CandidateFacts DEF IsChain
<1>2. m \in Nat
  BY <1>1
<1>3. /\ sub \in Seq(Range(els)) /\ DOMAIN sub = D
      /\ \A i \in D : f + i - 1 \in f .. p /\ sub[i] = els[f + i - 1]
  <2> HIDE DEF els
  <2> QED
    BY <1>1, PartFacts DEF els
<1>4. \A h \in f .. p : /\ h \in 1 .. Len(els) /\ IsElement(els[h]) /\ IsBoundary(els[h])
                        /\ LinksOf(els[h]) = <<els[h].link>>
  BY <1>1 DEF LinksOf
<1>5. run = Arranged(sub, D, before)
  BY <1>3 DEF SortedBy
<1>6. \A i, j \in D : <<i, j>> \in before <=> RateMonotonic(sub[i], sub[j])
  OBVIOUS
<1>7. Orders(before, D)
  <2>1. \A i \in D : IsElement(sub[i]) /\ IsBoundary(sub[i])
    BY <1>3, <1>4
  <2> HIDE DEF sub
  <2> QED
    BY <2>1, BoundariesOrder
<1>8. p = Len(els) \/ ~ IsBoundary(els[p + 1])
  OBVIOUS
<1> HIDE DEF run, before, sub, els, D, m, c
<1>9. IsStablySorted(run, Range(els), sub, before)
  BY <1>3, <1>5, <1>7, SortedFacts
<1>10. DOMAIN run = D
  BY <1>3, <1>9 DEF IsStablySorted
<1>11. PICK q \in Bijection(D, D) :
         \A k \in D : /\ run[k] = sub[q[k]]
                      /\ \A j \in D : j < k => /\ <<q[k], q[j]>> \notin before
                                               /\ <<q[j], q[k]>> \notin before => q[j] < q[k]
  BY <1>3, <1>9 DEF IsStablySorted
<1>12. /\ \A k \in D : q[k] \in D
       /\ \A i \in D : \E k \in D : q[k] = i
  BY DEF Bijection, Injection, Surjection
<1>13. \A i \in D : i \in Nat /\ f + i - 1 \in Nat /\ f + i - 1 \in f .. p
  BY <1>1, <1>3 DEF D
<1> DEFINE v == [k \in D |-> <<c, f + q[k] - 1, 1>>]
<1>14. ASSUME NEW h \in f .. p
       PROVE  <<c, h, 1>> \in G /\ ElementAt(in, <<c, h, 1>>) = els[h]
  <2>1. h \in Nat /\ h \in DOMAIN els
    BY <1>1, <1>4
  <2>2. ElementAt(in, <<c, h, 1>>) = els[h]
    BY <1>1 DEF ElementAt, els
  <2>3. 1 \in DOMAIN LinksOf(els[h])
    BY <1>4
  <2>4. <<c, h, 1>> \in ChainPlaces(in)
    BY <1>1, <2>1, <2>2, <2>3 DEF ChainPlaces, els
  <2> QED
    BY <2>2, <2>4 DEF Stretch
<1>15. ASSUME NEW y \in G
       PROVE  /\ y[1] = c /\ y[2] \in f .. p /\ y = <<c, y[2], 1>>
              /\ ElementAt(in, y) = els[y[2]] /\ EndAt(in, y) = p
  <2>1. y \in ChainPlaces(in) /\ y[1] = c /\ y[2] \in f .. p
    BY <1>15 DEF Stretch
  <2>2. ElementAt(in, y) = els[y[2]]
    BY <1>1, <2>1 DEF ElementAt, els
  <2>3. y[3] \in DOMAIN LinksOf(els[y[2]])
    BY <2>1, <2>2 DEF ChainPlaces
  <2>4. DOMAIN LinksOf(els[y[2]]) = {1}
    BY <1>4, <2>1
  <2>5. y = <<y[1], y[2], y[3]>>
    BY <2>1, PlaceFacts
  <2>6. \A h \in y[2] .. p : IsBoundary(els[h])
    BY <1>1, <1>4, <2>1
  <2>7. y[2] \in 1 .. Len(els) /\ p \in y[2] .. Len(els)
    BY <1>1, <2>1 DEF els
  <2>8. RunEnd(els, y[2]) = p
    BY <1>1, <1>8, <2>6, <2>7, RunEndFacts
  <2>9. EndAt(in, y) = p
    BY <1>1, <2>1, <2>8 DEF EndAt, els
  <2> QED
    BY <2>1, <2>2, <2>3, <2>4, <2>5, <2>9
<1>16. ASSUME NEW k \in D
       PROVE  /\ v[k] = <<c, f + q[k] - 1, 1>> /\ v[k] \in G
              /\ ElementAt(in, v[k]) = sub[q[k]] /\ run[k] = sub[q[k]]
              /\ IsBoundary(sub[q[k]])
  <2>1. q[k] \in D /\ f + q[k] - 1 \in f .. p
    BY <1>12, <1>13
  <2>2. v[k] = <<c, f + q[k] - 1, 1>>
    OBVIOUS
  <2> HIDE DEF v
  <2>3. sub[q[k]] = els[f + q[k] - 1]
    BY <1>3, <2>1
  <2>4. IsBoundary(sub[q[k]])
    BY <1>4, <2>1, <2>3
  <2>5. v[k] \in G /\ ElementAt(in, v[k]) = sub[q[k]]
    BY <1>14, <2>1, <2>2, <2>3
  <2> QED
    BY <1>11, <2>2, <2>4, <2>5
<1>17. v \in [D -> G]
  BY <1>16
<1>18. \A y \in G : \E k \in D : v[k] = y
  <2> SUFFICES ASSUME NEW y \in G
               PROVE  \E k \in D : v[k] = y
    OBVIOUS
  <2>1. y[2] - f + 1 \in D /\ f + (y[2] - f + 1) - 1 = y[2]
    BY <1>1, <1>15 DEF D, m
  <2>2. PICK k \in D : q[k] = y[2] - f + 1
    BY <1>12, <2>1
  <2>3. v[k] = <<c, y[2], 1>>
    BY <1>16, <2>1, <2>2
  <2> QED
    BY <1>15, <2>3
<1>19. ASSUME NEW j \in D, NEW k \in D, j < k
       PROVE  PlaceBefore(in, v[j], v[k])
  <2>1. /\ v[j] \in G /\ v[k] \in G
        /\ ElementAt(in, v[j]) = sub[q[j]] /\ ElementAt(in, v[k]) = sub[q[k]]
        /\ v[j][2] = f + q[j] - 1 /\ v[k][2] = f + q[k] - 1
        /\ IsBoundary(sub[q[j]]) /\ IsBoundary(sub[q[k]])
    BY <1>16
  <2> HIDE DEF v
  <2>2. /\ v[j][1] = c /\ v[k][1] = c
        /\ EndAt(in, v[j]) = p /\ EndAt(in, v[k]) = p
    BY <1>15, <2>1
  <2>3. q[j] \in D /\ q[k] \in D /\ q[j] \in Nat /\ q[k] \in Nat
    BY <1>12, <1>13
  <2>4. /\ ~ RateMonotonic(sub[q[k]], sub[q[j]])
        /\ ~ RateMonotonic(sub[q[j]], sub[q[k]]) => q[j] < q[k]
    BY <1>6, <1>11, <1>19, <2>3
  <2>5. q[j] < q[k] => v[j][2] < v[k][2]
    BY <1>1, <2>1, <2>3
  <2>6. Leads(in, v[j], v[k])
    BY <2>1, <2>4, <2>5 DEF Leads
  <2> QED
    BY <2>2, <2>6 DEF PlaceBefore
<1>20. \A x, y \in G : SameGroup(in, x, y)
  <2>1. \A y \in G : y[1] = c /\ EndAt(in, y) = p
    BY <1>15
  <2> QED
    BY <2>1 DEF SameGroup
<1>21. \A k \in D : LinkAt(in, v[k]) = run[k].link
  <2> SUFFICES ASSUME NEW k \in D
               PROVE  LinkAt(in, v[k]) = run[k].link
    OBVIOUS
  <2>1. /\ ElementAt(in, v[k]) = sub[q[k]] /\ IsBoundary(sub[q[k]]) /\ v[k][3] = 1
        /\ run[k] = sub[q[k]]
    BY <1>16
  <2> HIDE DEF v
  <2> QED
    BY <2>1 DEF LinkAt, LinksOf
<1> HIDE DEF v
<1>22. ListsGroup(in, G, v, m)
  BY <1>17, <1>18, <1>19, <1>20 DEF ListsGroup, D
<1>23. ListsRun(in, els, c, f, p, v)
  BY <1>2, <1>10, <1>21, <1>22 DEF ListsRun, run, sub, D, m
<1> QED
  BY <1>15, <1>23 DEF els, c


-----------------------------------------------------------------------------
(***************************************************************************)
(* The loops of the ranker, step by step.                                  *)
(***************************************************************************)
\* A run of boundaries is never left in the middle.
AtBorder(els, p) ==
  p = 0 \/ p = Len(els) \/ ~ (IsBoundary(els[p]) /\ IsBoundary(els[p + 1]))

OnTheWay(cs, a, p) ==
  /\ a \in 1 .. Len(cs) + 1
  /\ a > Len(cs) => p = 0
  /\ a <= Len(cs) => p \in 0 .. Len(cs[a].elements) /\ AtBorder(cs[a].elements, p)

Walking(in, cs, a, p, its, cnt) ==
  /\ OnTheWay(cs, a, p)
  /\ \E g : /\ Chosen(in, cs, g)
            /\ \E w : Walked(in, Emitted(in, cs, g, a, p), w, its, cnt)

\* The walk begins with nothing.
LEMMA WalkBegins ==
  ASSUME NEW in \in Inputs, NEW cs, NEW g, Chosen(in, cs, g)
  PROVE  Walking(in, cs, 1, ElementsOf(cs, 1), <<>>, 0)
<1> DEFINE p == ElementsOf(cs, 1)
<1>1. Len(cs) \in Nat /\ DOMAIN cs = 1 .. Len(cs)
  BY DEF Chosen
<1>2. Len(cs) >= 1 => p = Len(cs[1].elements) /\ Len(cs[1].elements) \in Nat
  BY <1>1, CandidateFacts DEF ElementsOf
<1>3. Len(cs) = 0 => p = 0
  BY DEF ElementsOf
<1>4. OnTheWay(cs, 1, p)
  BY <1>1, <1>2, <1>3 DEF OnTheWay, AtBorder
<1>5. Emitted(in, cs, g, 1, p) = {}
  <2> SUFFICES ASSUME NEW x \in ChainPlaces(in), NEW b \in DOMAIN cs, x[1] = g[b], b <= 1,
                      b = 1 => x[2] > p
               PROVE  FALSE
    BY DEF Emitted
  <2>1. b = 1 /\ Len(cs) >= 1
    BY <1>1
  <2>2. cs[1] = in.chains[x[1]]
    BY <2>1, CandidateFacts
  <2>3. x[2] <= Len(in.chains[x[1]].elements) /\ x[2] \in Nat
    BY PlaceFacts
  <2> QED
    BY <1>2, <2>1, <2>2, <2>3
<1>6. Walked(in, {}, [i \in {} |-> 0], <<>>, 0)
  BY DEF Walked
<1> QED
  BY <1>4, <1>5, <1>6 DEF Walking

\* From one chain to the next.
LEMMA WalkGoesOn ==
  ASSUME NEW in \in Inputs, NEW cs, NEW a, a <= Len(cs), NEW its, NEW cnt,
         Walking(in, cs, a, 0, its, cnt)
  PROVE  Walking(in, cs, a + 1, ElementsOf(cs, a + 1), its, cnt)
<1>1. PICK g : /\ Chosen(in, cs, g)
               /\ \E w : Walked(in, Emitted(in, cs, g, a, 0), w, its, cnt)
  BY DEF Walking
<1>2. Len(cs) \in Nat /\ DOMAIN cs = 1 .. Len(cs) /\ a \in Nat /\ a >= 1 /\ a \in DOMAIN cs
  BY <1>1 DEF Chosen, Walking, OnTheWay
<1> DEFINE p == ElementsOf(cs, a + 1)
<1>3. a + 1 <= Len(cs) => /\ p = Len(cs[a + 1].elements)
                          /\ Len(cs[a + 1].elements) \in Nat
                          /\ a + 1 \in DOMAIN cs
  BY <1>1, <1>2, CandidateFacts DEF ElementsOf
<1>4. ~ (a + 1 <= Len(cs)) => p = 0
  BY DEF ElementsOf
<1>5. OnTheWay(cs, a + 1, p)
  BY <1>2, <1>3, <1>4 DEF OnTheWay, AtBorder
<1>6. Emitted(in, cs, g, a + 1, p) = Emitted(in, cs, g, a, 0)
  <2>1. ASSUME NEW x \in ChainPlaces(in), NEW b \in DOMAIN cs, x[1] = g[b]
        PROVE  b <= a + 1 /\ (b = a + 1 => x[2] > p) <=> b <= a /\ (b = a => x[2] > 0)
    <3>1. /\ b \in Nat /\ x[2] \in Nat /\ x[2] >= 1
          /\ x[2] <= Len(cs[b].elements) /\ Len(cs[b].elements) \in Nat
      BY <1>1, <1>2, <2>1, PlaceFacts, CandidateFacts
    <3>2. CASE b = a + 1
      BY <1>2, <1>3, <3>1, <3>2
    <3>3. CASE b # a + 1
      BY <1>2, <3>1, <3>3
    <3> QED
      BY <3>2, <3>3
  <2> QED
    BY <2>1 DEF Emitted
<1> QED
  BY <1>1, <1>5, <1>6 DEF Walking

\* Over a segment.
LEMMA WalkOverSegment ==
  ASSUME NEW in \in Inputs, NEW cs, NEW a, NEW p, p > 0, NEW its, NEW cnt,
         Walking(in, cs, a, p, its, cnt), ~ IsBoundary(cs[a].elements[p])
  PROVE  LET links == Reverse(cs[a].elements[p].links)
         IN  Walking(in, cs, a, p - 1,
                     its \o [k \in DOMAIN links |->
                               [link |-> links[k], fine |-> cnt, coarse |-> cs[a].name,
                                tie |-> NoTie]],
                     cnt + 1)
<1> DEFINE els == cs[a].elements
           links == Reverse(els[p].links)
           more == [k \in DOMAIN links |-> [link |-> links[k], fine |-> cnt,
                                            coarse |-> cs[a].name, tie |-> NoTie]]
<1>1. PICK g : /\ Chosen(in, cs, g)
               /\ \E w : Walked(in, Emitted(in, cs, g, a, p), w, its, cnt)
  BY DEF Walking
<1>2. /\ Len(cs) \in Nat /\ DOMAIN cs = 1 .. Len(cs) /\ a \in DOMAIN cs
      /\ p \in 0 .. Len(els) /\ AtBorder(els, p)
  BY <1>1 DEF Chosen, Walking, OnTheWay
<1>3. Len(els) \in Nat
  BY <1>1, <1>2, CandidateFacts
<1>4. p \in 1 .. Len(els) /\ p \in 1 .. p /\ p - 1 \in 0 .. Len(els)
  BY <1>2, <1>3
<1> DEFINE m == Len(els[p].links)
<1>5. /\ \A y \in Stretch(in, g[a], p, p) : EndAt(in, y) = p
      /\ \E v : ListsSegment(in, els, g[a], p, v)
  BY <1>1, <1>2, <1>4, SegmentLists
<1>6. PICK v : ListsSegment(in, els, g[a], p, v)
  BY <1>5
<1>7. /\ m \in Nat /\ DOMAIN links = 1 .. m
      /\ ListsGroup(in, Stretch(in, g[a], p, p), v, m)
      /\ \A k \in 1 .. m : LinkAt(in, v[k]) = links[k]
  BY <1>6, Zenon DEF ListsSegment
<1> HIDE DEF links, m
<1>8. more = GroupItems(in, v, m, cnt, cs[a].name)
  BY <1>7 DEF GroupItems
<1> HIDE DEF more
<1>9. PICK w : Walked(in, Emitted(in, cs, g, a, p), w, its, cnt)
  BY <1>1
<1>10. \E u : Walked(in, Emitted(in, cs, g, a, p - 1), u, its \o more, cnt + 1)
  BY <1>1, <1>2, <1>4, <1>5, <1>7, <1>8, <1>9, GroupJoins
<1>11. AtBorder(els, p - 1)
  <2>1. p - 1 + 1 = p
    BY <1>4
  <2> QED
    BY <2>1 DEF AtBorder
<1>12. OnTheWay(cs, a, p - 1)
  BY <1>2, <1>4, <1>11 DEF OnTheWay
<1> QED
  BY <1>1, <1>10, <1>12 DEF Walking, more, links

\* Over a run of boundaries.
LEMMA WalkOverRun ==
  ASSUME NEW in \in Inputs, NEW cs, NEW a, NEW p, p > 0, NEW its, NEW cnt,
         Walking(in, cs, a, p, its, cnt), IsBoundary(cs[a].elements[p])
  PROVE  LET f == RunStart(cs[a].elements, p)
             run == SortedBy(SubSeq(cs[a].elements, f, p), RateMonotonic)
         IN  Walking(in, cs, a, f - 1,
                     its \o [k \in DOMAIN run |->
                               [link |-> run[k].link, fine |-> cnt, coarse |-> cs[a].name,
                                tie |-> NoTie]],
                     cnt + 1)
<1> DEFINE els == cs[a].elements
           f == RunStart(els, p)
           run == SortedBy(SubSeq(els, f, p), RateMonotonic)
           m == p - f + 1
           more == [k \in DOMAIN run |-> [link |-> run[k].link, fine |-> cnt,
                                          coarse |-> cs[a].name, tie |-> NoTie]]
<1>1. PICK g : /\ Chosen(in, cs, g)
               /\ \E w : Walked(in, Emitted(in, cs, g, a, p), w, its, cnt)
  BY DEF Walking
<1>2. /\ Len(cs) \in Nat /\ DOMAIN cs = 1 .. Len(cs) /\ a \in DOMAIN cs
      /\ p \in 0 .. Len(els) /\ AtBorder(els, p)
  BY <1>1 DEF Chosen, Walking, OnTheWay
<1>3. Len(els) \in Nat
  BY <1>1, <1>2, CandidateFacts
<1>4. p \in 1 .. Len(els) /\ p \in Nat /\ p >= 1
  BY <1>2, <1>3
<1>5. /\ f \in 1 .. p /\ \A h \in f .. p : IsBoundary(els[h])
      /\ f = 1 \/ ~ IsBoundary(els[f - 1])
  BY <1>4, RunStartFacts
<1>6. p = Len(els) \/ ~ IsBoundary(els[p + 1])
  BY <1>2, <1>4 DEF AtBorder
<1> HIDE DEF f
<1>7. /\ \A y \in Stretch(in, g[a], f, p) : EndAt(in, y) = p
      /\ \E v : ListsRun(in, els, g[a], f, p, v)
  BY <1>1, <1>2, <1>4, <1>5, <1>6, RunLists
<1>8. PICK v : ListsRun(in, els, g[a], f, p, v)
  BY <1>7
<1>9. /\ m \in Nat /\ DOMAIN run = 1 .. m
      /\ ListsGroup(in, Stretch(in, g[a], f, p), v, m)
      /\ \A k \in 1 .. m : LinkAt(in, v[k]) = run[k].link
  BY <1>8 DEF ListsRun
<1> HIDE DEF run, m
<1>10. more = GroupItems(in, v, m, cnt, cs[a].name)
  BY <1>9 DEF GroupItems
<1> HIDE DEF more
<1>11. PICK w : Walked(in, Emitted(in, cs, g, a, p), w, its, cnt)
  BY <1>1
<1>12. \E u : Walked(in, Emitted(in, cs, g, a, f - 1), u, its \o more, cnt + 1)
  BY <1>1, <1>2, <1>4, <1>5, <1>7, <1>9, <1>10, <1>11, GroupJoins
<1>13. f - 1 \in 0 .. Len(els) /\ AtBorder(els, f - 1)
  BY <1>3, <1>4, <1>5 DEF AtBorder
<1>14. OnTheWay(cs, a, f - 1)
  BY <1>2, <1>13 DEF OnTheWay
<1> QED
  BY <1>1, <1>12, <1>14 DEF Walking, more, run, f


-----------------------------------------------------------------------------
(***************************************************************************)
(* Claims.  Every place has a claim, and the order of the places is that   *)
(* of the keys.                                                            *)
(***************************************************************************)
ClaimAt(x) == ChainClaim(x[1], x[2], x[3])

\* The numbers of a key, read in turn.
LEMMA LexAt ==
  ASSUME NEW s, NEW t, NEW i \in DOMAIN s, \A j \in 1 .. i - 1 : s[j] = t[j], s[i] < t[i]
  PROVE  LexLess(s, t)
BY DEF LexLess

\* Two keys cannot both lead.
LEMMA LexAsymmetric ==
  ASSUME NEW s \in Seq(Int), NEW t \in Seq(Int), LexLess(s, t)
  PROVE  ~ LexLess(t, s)
<1>1. PICK i \in DOMAIN s : (\A j \in 1 .. i - 1 : s[j] = t[j]) /\ s[i] < t[i]
  BY DEF LexLess
<1>2. SUFFICES ASSUME NEW k \in DOMAIN t, \A j \in 1 .. k - 1 : t[j] = s[j], t[k] < s[k]
               PROVE  FALSE
  BY DEF LexLess
<1>3. i \in Nat /\ i >= 1 /\ k \in Nat /\ k >= 1 /\ s[i] \in Int /\ t[k] \in Int
  OBVIOUS
<1>4. CASE i < k
  <2>1. i \in 1 .. k - 1
    BY <1>3, <1>4
  <2>2. t[i] = s[i]
    BY <1>2, <2>1
  <2> QED
    BY <1>1, <1>3, <2>2
<1>5. CASE k < i
  <2>1. k \in 1 .. i - 1
    BY <1>3, <1>5
  <2>2. s[k] = t[k]
    BY <1>1, <2>1
  <2> QED
    BY <1>2, <1>3, <2>2
<1>6. CASE k = i
  <2>1. t[i] \in Int
    BY <1>3, <1>6
  <2> QED
    BY <1>1, <1>2, <1>3, <1>6, <2>1
<1> QED
  BY <1>3, <1>4, <1>5, <1>6

\* What the claim of a place says.
ClaimSays(x) ==
  LET c == input.chains[x[1]]
      e == ElementAt(input, x)
      key == ClaimAt(x).key
  IN  /\ key \in Seq(Int) /\ DOMAIN key = 1 .. (IF IsBoundary(e) THEN 9 ELSE 7)
      /\ key[1] = 0 /\ key[2] = c.criticality /\ key[3] = Controllable(c)
      /\ key[4] = c.name /\ key[5] = x[1] /\ key[6] = 0 - EndAt(input, x)
      /\ IsBoundary(e) => key[7] = e.period /\ key[8] = e.link[1] /\ key[9] = x[2]
      /\ ~ IsBoundary(e) => key[7] = 0 - x[3]
      /\ ClaimAt(x).link = LinkAt(input, x)
      /\ ClaimAt(x).group = <<0, c.criticality, Controllable(c), c.name, x[1],
                              0 - EndAt(input, x)>>
      /\ ClaimAt(x).owner = <<c.name>>

LEMMA ClaimFacts ==
  ASSUME input \in Inputs, NEW x \in ChainPlaces(input)
  PROVE  ClaimSays(x)
<1> DEFINE c == input.chains[x[1]]
           e == ElementAt(input, x)
           group == <<0, c.criticality, Controllable(c), c.name, x[1], 0 - EndAt(input, x)>>
           tail == IF IsBoundary(e) THEN <<e.period, e.link[1], x[2]>> ELSE <<0 - x[3]>>
           key == ClaimAt(x).key
<1>1. /\ c.criticality \in Int /\ Controllable(c) \in Int /\ c.name \in Int
      /\ x[1] \in Int /\ x[2] \in Int /\ x[3] \in Int /\ EndAt(input, x) \in Int
      /\ IsElement(e)
  <2>1. IsChain(c) /\ Controllable(c) \in Int
    BY PlaceFacts, SlackIsNumber
  <2> QED
    BY <2>1, PlaceFacts DEF IsChain
<1>2. IsBoundary(e) => e.period \in Int /\ e.link[1] \in Int
  BY <1>1 DEF IsElement, IsBoundary, Links
<1>3. /\ ClaimAt(x).link = LinkAt(input, x) /\ ClaimAt(x).group = group
      /\ ClaimAt(x).owner = <<c.name>> /\ key = group \o tail
  BY DEF ClaimAt, ChainClaim, ElementAt, EndAt, LinkAt, Controllable
<1> HIDE DEF c, e, key
<1>4. group \in Seq(Int) /\ Len(group) = 6
  BY <1>1
<1>5. tail \in Seq(Int) /\ Len(tail) = IF IsBoundary(e) THEN 3 ELSE 1
  BY <1>1, <1>2
<1>6. /\ group[1] = 0 /\ group[2] = c.criticality /\ group[3] = Controllable(c)
      /\ group[4] = c.name /\ group[5] = x[1] /\ group[6] = 0 - EndAt(input, x)
  OBVIOUS
<1>7. /\ IsBoundary(e) => tail[1] = e.period /\ tail[2] = e.link[1] /\ tail[3] = x[2]
      /\ ~ IsBoundary(e) => tail[1] = 0 - x[3]
  OBVIOUS
<1> HIDE DEF group, tail
<1>8. IsJoined(key, Int, group, tail)
  BY <1>3, <1>4, <1>5, Concatenation
<1>9. /\ key \in Seq(Int) /\ DOMAIN key = 1 .. 6 + Len(tail)
      /\ \A i \in 1 .. 6 : key[i] = group[i]
      /\ \A i \in 1 .. Len(tail) : key[6 + i] = tail[i]
  BY <1>4, <1>8 DEF IsJoined
<1>10. /\ key[1] = group[1] /\ key[2] = group[2] /\ key[3] = group[3]
       /\ key[4] = group[4] /\ key[5] = group[5] /\ key[6] = group[6]
  BY <1>9
<1>11. key[7] = tail[1] /\ (IsBoundary(e) => key[8] = tail[2] /\ key[9] = tail[3])
  <2>1. 1 \in 1 .. Len(tail) /\ (IsBoundary(e) => 2 \in 1 .. Len(tail) /\ 3 \in 1 .. Len(tail))
    BY <1>5
  <2>2. key[6 + 1] = tail[1] /\ (IsBoundary(e) => key[6 + 2] = tail[2] /\ key[6 + 3] = tail[3])
    BY <1>9, <2>1
  <2>3. 6 + 1 = 7 /\ 6 + 2 = 8 /\ 6 + 3 = 9
    OBVIOUS
  <2> QED
    BY <2>2, <2>3
<1>12. DOMAIN key = 1 .. (IF IsBoundary(e) THEN 9 ELSE 7)
  BY <1>5, <1>9
<1> QED
  BY <1>3, <1>6, <1>7, <1>9, <1>10, <1>11, <1>12 DEF ClaimSays, c, e, key, group


\* Where numbers lead, the key leads.
LEMMA PlacesByKey ==
  ASSUME input \in Inputs, NEW x \in ChainPlaces(input), NEW y \in ChainPlaces(input),
         PlaceBefore(input, x, y)
  PROVE  LexLess(ClaimAt(x).key, ClaimAt(y).key)
<1> DEFINE c == input.chains[x[1]]
           d == input.chains[y[1]]
           e == ElementAt(input, x)
           f == ElementAt(input, y)
           s == ClaimAt(x).key
           t == ClaimAt(y).key
<1>1. /\ 1 \in DOMAIN s /\ 2 \in DOMAIN s /\ 3 \in DOMAIN s /\ 4 \in DOMAIN s
      /\ 5 \in DOMAIN s /\ 6 \in DOMAIN s /\ 7 \in DOMAIN s
      /\ IsBoundary(e) => 8 \in DOMAIN s /\ 9 \in DOMAIN s
      /\ s[1] = 0 /\ s[2] = c.criticality /\ s[3] = Controllable(c)
      /\ s[4] = c.name /\ s[5] = x[1] /\ s[6] = 0 - EndAt(input, x)
      /\ IsBoundary(e) => s[7] = e.period /\ s[8] = e.link[1] /\ s[9] = x[2]
      /\ ~ IsBoundary(e) => s[7] = 0 - x[3]
  <2>1. ClaimSays(x)
    BY ClaimFacts
  <2>2. DOMAIN s = 1 .. (IF IsBoundary(e) THEN 9 ELSE 7)
    BY <2>1 DEF ClaimSays
  <2>3. /\ s[1] = 0 /\ s[2] = c.criticality /\ s[3] = Controllable(c)
        /\ s[4] = c.name /\ s[5] = x[1] /\ s[6] = 0 - EndAt(input, x)
        /\ IsBoundary(e) => s[7] = e.period /\ s[8] = e.link[1] /\ s[9] = x[2]
        /\ ~ IsBoundary(e) => s[7] = 0 - x[3]
    BY <2>1 DEF ClaimSays
  <2> HIDE DEF s, c, e
  <2> QED
    BY <2>2, <2>3
<1>2. /\ t[1] = 0 /\ t[2] = d.criticality /\ t[3] = Controllable(d)
      /\ t[4] = d.name /\ t[5] = y[1] /\ t[6] = 0 - EndAt(input, y)
      /\ IsBoundary(f) => t[7] = f.period /\ t[8] = f.link[1] /\ t[9] = y[2]
      /\ ~ IsBoundary(f) => t[7] = 0 - y[3]
  BY ClaimFacts DEF ClaimSays
<1>3. \A z \in ChainPlaces(input) :
        /\ input.chains[z[1]].criticality \in Int /\ Controllable(input.chains[z[1]]) \in Int
        /\ input.chains[z[1]].name \in Int
        /\ z[1] \in Int /\ z[2] \in Int /\ z[3] \in Int /\ EndAt(input, z) \in Int
        /\ IsElement(ElementAt(input, z))
  <2> SUFFICES ASSUME NEW z \in ChainPlaces(input)
               PROVE  /\ input.chains[z[1]].criticality \in Int
                      /\ Controllable(input.chains[z[1]]) \in Int
                      /\ input.chains[z[1]].name \in Int
                      /\ z[1] \in Int /\ z[2] \in Int /\ z[3] \in Int
                      /\ EndAt(input, z) \in Int
                      /\ IsElement(ElementAt(input, z))
    OBVIOUS
  <2>1. IsChain(input.chains[z[1]]) /\ Controllable(input.chains[z[1]]) \in Int
    BY PlaceFacts, SlackIsNumber
  <2>2. /\ z[1] \in Int /\ z[2] \in Int /\ z[3] \in Int /\ EndAt(input, z) \in Int
        /\ IsElement(ElementAt(input, z))
    BY PlaceFacts
  <2>3. /\ input.chains[z[1]].criticality \in Int /\ input.chains[z[1]].name \in Int
    BY <2>1 DEF IsChain
  <2> QED
    BY <2>1, <2>2, <2>3
<1>4. /\ c.criticality \in Int /\ Controllable(c) \in Int /\ c.name \in Int
      /\ d.criticality \in Int /\ Controllable(d) \in Int /\ d.name \in Int
      /\ x[1] \in Int /\ x[2] \in Int /\ x[3] \in Int /\ EndAt(input, x) \in Int
      /\ y[1] \in Int /\ y[2] \in Int /\ y[3] \in Int /\ EndAt(input, y) \in Int
      /\ IsBoundary(e) => e.period \in Int /\ e.link[1] \in Int
      /\ IsBoundary(f) => f.period \in Int /\ f.link[1] \in Int
  <2>1. IsElement(e) /\ IsElement(f)
    BY <1>3
  <2> HIDE DEF e, f
  <2>2. /\ IsBoundary(e) => e.period \in Int /\ e.link[1] \in Int
        /\ IsBoundary(f) => f.period \in Int /\ f.link[1] \in Int
    BY <2>1 DEF IsElement, IsBoundary, Links
  <2> QED
    BY <1>3, <2>2
<1>5. CASE x[1] # y[1]
  <2>1. Ahead(input, x[1], y[1])
    BY <1>5 DEF PlaceBefore
  <2>2. \/ c.criticality < d.criticality
        \/ c.criticality = d.criticality /\ Controllable(c) < Controllable(d)
        \/ c.criticality = d.criticality /\ Controllable(c) = Controllable(d) /\ c.name < d.name
        \/ /\ c.criticality = d.criticality /\ Controllable(c) = Controllable(d)
           /\ c.name = d.name /\ x[1] < y[1]
    BY <1>4, <2>1 DEF Ahead, ChainBefore
  <2> HIDE DEF c, d, e, f, s, t
  <2>3. CASE c.criticality < d.criticality
    <3>1. s[2] < t[2] /\ \A j \in 1 .. 2 - 1 : s[j] = t[j]
      BY <1>1, <1>2, <2>3
    <3> QED
      BY <1>1, <3>1, LexAt DEF s, t
  <2>4. CASE c.criticality = d.criticality /\ Controllable(c) < Controllable(d)
    <3>1. s[3] < t[3] /\ \A j \in 1 .. 3 - 1 : s[j] = t[j]
      BY <1>1, <1>2, <2>4
    <3> QED
      BY <1>1, <3>1, LexAt DEF s, t
  <2>5. CASE c.criticality = d.criticality /\ Controllable(c) = Controllable(d) /\ c.name < d.name
    <3>1. s[4] < t[4] /\ \A j \in 1 .. 4 - 1 : s[j] = t[j]
      BY <1>1, <1>2, <2>5
    <3> QED
      BY <1>1, <3>1, LexAt DEF s, t
  <2>6. CASE /\ c.criticality = d.criticality /\ Controllable(c) = Controllable(d)
             /\ c.name = d.name /\ x[1] < y[1]
    <3>1. s[5] < t[5] /\ \A j \in 1 .. 5 - 1 : s[j] = t[j]
      BY <1>1, <1>2, <2>6
    <3> QED
      BY <1>1, <3>1, LexAt DEF s, t
  <2> QED
    BY <2>2, <2>3, <2>4, <2>5, <2>6
<1>6. CASE x[1] = y[1]
  <2>1. \/ EndAt(input, x) > EndAt(input, y)
        \/ EndAt(input, x) = EndAt(input, y) /\ Leads(input, x, y)
    BY <1>6 DEF PlaceBefore
  <2>2. c = d
    BY <1>6
  <2> HIDE DEF c, d, s, t
  <2>3. \A j \in 1 .. 5 : s[j] = t[j]
    BY <1>1, <1>2, <1>6, <2>2
  <2>4. CASE EndAt(input, x) > EndAt(input, y)
    <3>1. s[6] < t[6] /\ \A j \in 1 .. 6 - 1 : s[j] = t[j]
      BY <1>1, <1>2, <1>4, <2>3, <2>4
    <3> QED
      BY <1>1, <3>1, LexAt DEF s, t
  <2>5. CASE EndAt(input, x) = EndAt(input, y) /\ Leads(input, x, y)
    <3>1. \A j \in 1 .. 6 : s[j] = t[j]
      BY <1>1, <1>2, <1>4, <2>3, <2>5
    <3>2. \/ /\ IsBoundary(e) /\ IsBoundary(f)
             /\ ~ RateMonotonic(f, e)
             /\ ~ RateMonotonic(e, f) => x[2] < y[2]
          \/ ~ IsBoundary(e) /\ ~ IsBoundary(f) /\ x[3] > y[3]
      BY <2>5 DEF Leads
    <3> HIDE DEF e, f
    <3>3. CASE ~ IsBoundary(e) /\ ~ IsBoundary(f) /\ x[3] > y[3]
      <4>1. s[7] < t[7] /\ \A j \in 1 .. 7 - 1 : s[j] = t[j]
        BY <1>1, <1>2, <1>4, <3>1, <3>3
      <4> QED
        BY <1>1, <4>1, LexAt DEF s, t
    <3>4. CASE /\ IsBoundary(e) /\ IsBoundary(f)
               /\ ~ RateMonotonic(f, e)
               /\ ~ RateMonotonic(e, f) => x[2] < y[2]
      <4>1. \/ e.period < f.period
            \/ e.period = f.period /\ e.link[1] < f.link[1]
            \/ e.period = f.period /\ e.link[1] = f.link[1] /\ x[2] < y[2]
        BY <1>4, <3>4 DEF RateMonotonic
      <4>2. CASE e.period < f.period
        <5>1. s[7] < t[7] /\ \A j \in 1 .. 7 - 1 : s[j] = t[j]
          BY <1>1, <1>2, <3>1, <3>4, <4>2
        <5> QED
          BY <1>1, <5>1, LexAt DEF s, t
      <4>3. CASE e.period = f.period /\ e.link[1] < f.link[1]
        <5>1. s[8] < t[8] /\ s[7] = t[7]
          BY <1>1, <1>2, <3>4, <4>3
        <5>2. \A j \in 1 .. 8 - 1 : s[j] = t[j]
          BY <3>1, <5>1
        <5> QED
          BY <1>1, <3>4, <5>1, <5>2, LexAt DEF s, t
      <4>4. CASE e.period = f.period /\ e.link[1] = f.link[1] /\ x[2] < y[2]
        <5>1. s[9] < t[9] /\ s[8] = t[8] /\ s[7] = t[7]
          BY <1>1, <1>2, <3>4, <4>4
        <5>2. \A j \in 1 .. 9 - 1 : s[j] = t[j]
          BY <3>1, <5>1
        <5> QED
          BY <1>1, <3>4, <5>1, <5>2, LexAt DEF s, t
      <4> QED
        BY <4>1, <4>2, <4>3, <4>4
    <3> QED
      BY <3>2, <3>3, <3>4
  <2> QED
    BY <2>1, <2>4, <2>5
<1> QED
  BY <1>5, <1>6

\* The groups of the walk are those of the claims.
LEMMA GroupsOfPlaces ==
  ASSUME input \in Inputs, NEW x \in ChainPlaces(input), NEW y \in ChainPlaces(input)
  PROVE  SameGroup(input, x, y) <=> ClaimAt(x).group = ClaimAt(y).group
<1>1. EndAt(input, x) \in Int /\ EndAt(input, y) \in Int
  BY PlaceFacts
<1> DEFINE c == input.chains[x[1]]
           d == input.chains[y[1]]
<1>2. /\ ClaimAt(x).group = <<0, c.criticality, Controllable(c), c.name, x[1],
                              0 - EndAt(input, x)>>
      /\ ClaimAt(y).group = <<0, d.criticality, Controllable(d), d.name, y[1],
                              0 - EndAt(input, y)>>
  BY ClaimFacts DEF ClaimSays
<1>3. x[1] = y[1] => c = d
  OBVIOUS
<1> HIDE DEF c, d
<1>4. 0 - EndAt(input, x) = 0 - EndAt(input, y) <=> EndAt(input, x) = EndAt(input, y)
  BY <1>1
<1> QED
  BY <1>2, <1>3, <1>4 DEF SameGroup


-----------------------------------------------------------------------------
(***************************************************************************)
(* The paths outside every chain.                                          *)
(***************************************************************************)
\* The order of the paths, by their numbers.
PathLeads(v, w) ==
  LET f == FactAt(v)
      g == FactAt(w)
  IN  \/ f.criticality < g.criticality
      \/ f.criticality = g.criticality /\ f.budget < g.budget
      \/ f.criticality = g.criticality /\ f.budget = g.budget /\ f.link[1] < g.link[1]
      \/ /\ f.criticality = g.criticality /\ f.budget = g.budget /\ f.link[1] = g.link[1]
         /\ v[2] < w[2]

Fact == [link : Links, criticality : Int, budget : Int]

LEMMA UncoveredFacts ==
  ASSUME input \in Inputs, NEW w \in Uncovered
  PROVE  /\ w = <<w[1], w[2]>> /\ w[1] \in Nat /\ w[2] \in Nat
         /\ w[1] \in DOMAIN input.nodes /\ w[2] \in DOMAIN input.nodes[w[1]].paths
         /\ FactAt(w) \in Fact
         /\ FactAt(w).link[1] = input.nodes[w[1]].name
<1>1. PICK a \in DOMAIN input.nodes : w \in {<<a, b>> : b \in DOMAIN input.nodes[a].paths}
  BY DEF Uncovered
<1>2. PICK b \in DOMAIN input.nodes[a].paths : w = <<a, b>>
  BY <1>1
<1>3. w[1] = a /\ w[2] = b
  BY <1>2
<1>4. a \in Nat /\ IsNode(input.nodes[a])
  BY InputFacts
<1>5. b \in Nat /\ input.nodes[a].paths[b] \in Range(input.nodes[a].paths)
  BY <1>4 DEF IsNode, Range
<1> DEFINE nd == input.nodes[a]
           path == nd.paths[b]
<1>6. /\ nd.name \in Nat /\ nd.criticality \in Int
      /\ path.name \in Nat /\ path.period \in Int \cup {NoPeriod}
      /\ path.latency \in Int \cup {NoPeriod}
  BY <1>4, <1>5 DEF IsNode
<1>7. PathBudget(path) # NoPeriod
  BY <1>3 DEF Uncovered
<1>8. FactAt(w) = [link |-> <<nd.name, path.name>>, criticality |-> nd.criticality,
                   budget |-> PathBudget(path)]
  BY <1>3 DEF FactAt, PathLink
<1> HIDE DEF path, nd
<1>9. PathBudget(path) \in Int
  BY <1>6, <1>7 DEF PathBudget
<1>10. FactAt(w) \in Fact /\ FactAt(w).link[1] = nd.name
  BY <1>6, <1>8, <1>9 DEF Fact, Links
<1> QED
  BY <1>2, <1>3, <1>4, <1>5, <1>10 DEF nd

LEMMA UncoveredFinite ==
  ASSUME input \in Inputs
  PROVE  IsFiniteSet(Uncovered)
<1> DEFINE of == [a \in DOMAIN input.nodes |-> {<<a, b>> : b \in DOMAIN input.nodes[a].paths}]
           family == {of[a] : a \in DOMAIN input.nodes}
<1>1. \A a \in DOMAIN input.nodes : IsFiniteSet(of[a])
  <2> SUFFICES ASSUME NEW a \in DOMAIN input.nodes
               PROVE  IsFiniteSet({<<a, b>> : b \in DOMAIN input.nodes[a].paths})
    OBVIOUS
  <2> DEFINE B == DOMAIN input.nodes[a].paths
             T == {<<a, b>> : b \in B}
             h == [b \in B |-> <<a, b>>]
  <2>1. IsNode(input.nodes[a])
    BY InputFacts
  <2>2. Len(input.nodes[a].paths) \in Nat /\ B = 1 .. Len(input.nodes[a].paths)
    BY <2>1 DEF IsNode
  <2>3. IsFiniteSet(B)
    BY <2>2, FS_Interval
  <2> HIDE DEF B
  <2>4. h \in Surjection(B, T)
    BY DEF Surjection
  <2> HIDE DEF h, T
  <2>5. IsFiniteSet(T)
    BY <2>3, <2>4, FS_Surjection
  <2> QED
    BY <2>5 DEF T, B
<1> HIDE DEF of
<1>2. IsFiniteSet(family)
  <2> DEFINE A == DOMAIN input.nodes
             h == [a \in A |-> of[a]]
  <2>1. IsFiniteSet(A)
    BY InputFacts, FS_Interval
  <2>2. h \in Surjection(A, family)
    BY DEF Surjection
  <2> HIDE DEF h, family, A
  <2> QED
    BY <2>1, <2>2, FS_Surjection
<1>3. \A T \in family : IsFiniteSet(T)
  BY <1>1
<1>4. Uncovered \subseteq UNION family
  <2> SUFFICES ASSUME NEW w \in Uncovered
               PROVE  w \in UNION family
    OBVIOUS
  <2>1. PICK a \in DOMAIN input.nodes : w \in {<<a, b>> : b \in DOMAIN input.nodes[a].paths}
    BY DEF Uncovered
  <2>2. w \in of[a]
    BY <2>1 DEF of
  <2> QED
    BY <2>2
<1> HIDE DEF family
<1>5. IsFiniteSet(UNION family)
  BY <1>2, <1>3, FS_UNION
<1> QED
  BY <1>4, <1>5, FS_Subset

\* v lists the uncovered paths, and the code sorts their facts the same way.
ListsRest(v, m) ==
  LET facts == SortedBy(Facts, FactBefore)
  IN  /\ m \in Nat /\ DOMAIN facts = 1 .. m
      /\ v \in [1 .. m -> Uncovered]
      /\ \A w \in Uncovered : \E k \in 1 .. m : v[k] = w
      /\ \A k \in 1 .. m : facts[k] = FactAt(v[k])
      /\ \A j, k \in 1 .. m : j < k => PathLeads(v[j], v[k])

\* Node by node and path by path.
IsVisit(visited) ==
  /\ visited \in Seq(Uncovered)
  /\ \A w \in Uncovered : \E k \in DOMAIN visited : visited[k] = w
  /\ \A j, k \in DOMAIN visited :
       j < k => \/ visited[j][1] < visited[k][1]
                \/ visited[j][1] = visited[k][1] /\ visited[j][2] < visited[k][2]

LEMMA VisitedFacts ==
  ASSUME input \in Inputs
  PROVE  IsVisit(SortedBy(SetToSeq(Uncovered), LexLess))
<1> DEFINE s == SetToSeq(Uncovered)
           D == DOMAIN s
           before == {ij \in D \X D : LexLess(s[ij[1]], s[ij[2]])}
           visited == SortedBy(s, LexLess)
<1>1. /\ s \in Seq(Uncovered) /\ Range(s) = Uncovered /\ IsInjective(s)
  BY UncoveredFinite, SetToSeqFacts
<1> HIDE DEF s
<1>2. visited = Arranged(s, D, before)
  BY DEF SortedBy
<1>3. \A i, j \in D : <<i, j>> \in before <=> LexLess(s[i], s[j])
  OBVIOUS
<1>4. \A i \in D : s[i] \in Uncovered
  BY <1>1
<1>5. ASSUME NEW v \in Uncovered, NEW w \in Uncovered
      PROVE  /\ v[1] \in Nat /\ v[2] \in Nat /\ v = <<v[1], v[2]>>
             /\ LexLess(v, w) <=> v[1] < w[1] \/ (v[1] = w[1] /\ v[2] < w[2])
  <2>1. /\ v = <<v[1], v[2]>> /\ v[1] \in Nat /\ v[2] \in Nat
        /\ w = <<w[1], w[2]>> /\ w[1] \in Nat /\ w[2] \in Nat
    BY UncoveredFacts
  <2>2. DOMAIN v = {1, 2}
    BY <2>1
  <2>3. LexLess(v, w) => v[1] < w[1] \/ (v[1] = w[1] /\ v[2] < w[2])
    <3> SUFFICES ASSUME NEW i \in DOMAIN v, \A j \in 1 .. i - 1 : v[j] = w[j], v[i] < w[i]
                 PROVE  v[1] < w[1] \/ (v[1] = w[1] /\ v[2] < w[2])
      BY DEF LexLess
    <3>1. CASE i = 1
      BY <3>1
    <3>2. CASE i = 2
      <4>1. 1 \in 1 .. i - 1
        BY <3>2
      <4> QED
        BY <3>2, <4>1
    <3> QED
      BY <2>2, <3>1, <3>2
  <2>4. v[1] < w[1] => LexLess(v, w)
    <3>1. 1 \in DOMAIN v /\ \A j \in 1 .. 1 - 1 : v[j] = w[j]
      BY <2>2
    <3> QED
      BY <3>1, LexAt
  <2>5. v[1] = w[1] /\ v[2] < w[2] => LexLess(v, w)
    <3>1. v[1] = w[1] => 2 \in DOMAIN v /\ \A j \in 1 .. 2 - 1 : v[j] = w[j]
      BY <2>2
    <3> QED
      BY <3>1, LexAt
  <2> QED
    BY <2>1, <2>3, <2>4, <2>5
<1>6. Orders(before, D)
  <2>1. ASSUME NEW i \in D, NEW j \in D, NEW k \in D
        PROVE  /\ LexLess(s[i], s[j]) => ~ LexLess(s[j], s[i])
               /\ ~ LexLess(s[i], s[j]) /\ ~ LexLess(s[j], s[k]) => ~ LexLess(s[i], s[k])
    <3>1. s[i] \in Uncovered /\ s[j] \in Uncovered /\ s[k] \in Uncovered
      BY <1>4
    <3> DEFINE a == s[i]
               b == s[j]
               c == s[k]
    <3>2. /\ a[1] \in Nat /\ a[2] \in Nat /\ b[1] \in Nat /\ b[2] \in Nat
          /\ c[1] \in Nat /\ c[2] \in Nat
          /\ LexLess(a, b) <=> a[1] < b[1] \/ (a[1] = b[1] /\ a[2] < b[2])
          /\ LexLess(b, a) <=> b[1] < a[1] \/ (b[1] = a[1] /\ b[2] < a[2])
          /\ LexLess(b, c) <=> b[1] < c[1] \/ (b[1] = c[1] /\ b[2] < c[2])
          /\ LexLess(a, c) <=> a[1] < c[1] \/ (a[1] = c[1] /\ a[2] < c[2])
      BY <1>5, <3>1
    <3> HIDE DEF a, b, c
    <3>3. /\ LexLess(a, b) => ~ LexLess(b, a)
          /\ ~ LexLess(a, b) /\ ~ LexLess(b, c) => ~ LexLess(a, c)
      BY <3>2
    <3> QED
      BY <3>3 DEF a, b, c
  <2> HIDE DEF before
  <2> QED
    BY <1>3, <2>1 DEF Orders
<1> HIDE DEF before, visited
<1>7. IsStablySorted(visited, Uncovered, s, before)
  BY <1>1, <1>2, <1>6, SortedFacts
<1>8. visited \in Seq(Uncovered) /\ DOMAIN visited = D /\ Range(visited) = Uncovered
  BY <1>1, <1>7 DEF IsStablySorted
<1>9. PICK p \in Bijection(D, D) :
        \A k \in D : /\ visited[k] = s[p[k]]
                     /\ \A j \in D : j < k => <<p[k], p[j]>> \notin before
  BY <1>7 DEF IsStablySorted
<1>10. /\ \A k \in D : p[k] \in D
       /\ \A j, k \in D : p[j] = p[k] => j = k
  BY DEF Bijection, Injection, IsInjective
<1>11. \A w \in Uncovered : \E k \in D : visited[k] = w
  BY <1>8 DEF Range
<1>12. ASSUME NEW j \in D, NEW k \in D, j < k
       PROVE  \/ visited[j][1] < visited[k][1]
              \/ visited[j][1] = visited[k][1] /\ visited[j][2] < visited[k][2]
  <2>1. p[j] \in D /\ p[k] \in D /\ p[j] # p[k]
    <3>1. j \in Nat /\ k \in Nat
      BY <1>1
    <3>2. j # k
      BY <1>12, <3>1
    <3> QED
      BY <1>10, <3>2
  <2>2. visited[j] = s[p[j]] /\ visited[k] = s[p[k]] /\ visited[j] # visited[k]
    BY <1>1, <1>9, <2>1 DEF IsInjective
  <2>3. ~ LexLess(visited[k], visited[j])
    BY <1>3, <1>9, <1>12, <2>1, <2>2
  <2> DEFINE a == visited[j]
             b == visited[k]
  <2>4. a \in Uncovered /\ b \in Uncovered
    BY <1>4, <2>1, <2>2
  <2>5. /\ a = <<a[1], a[2]>> /\ b = <<b[1], b[2]>>
        /\ a[1] \in Nat /\ a[2] \in Nat /\ b[1] \in Nat /\ b[2] \in Nat
        /\ LexLess(a, b) <=> a[1] < b[1] \/ (a[1] = b[1] /\ a[2] < b[2])
        /\ LexLess(b, a) <=> b[1] < a[1] \/ (b[1] = a[1] /\ b[2] < a[2])
    BY <1>5, <2>4
  <2>6. a # b /\ ~ LexLess(b, a)
    BY <2>2, <2>3
  <2> HIDE DEF a, b
  <2>7. a[1] < b[1] \/ (a[1] = b[1] /\ a[2] < b[2])
    BY <2>5, <2>6
  <2> QED
    BY <2>7 DEF a, b
<1> QED
  BY <1>8, <1>11, <1>12 DEF IsVisit, visited, s


LEMMA RestIsListed ==
  ASSUME input \in Inputs
  PROVE  \E m, v : ListsRest(v, m)
<1> DEFINE visited == SortedBy(SetToSeq(Uncovered), LexLess)
           m == Len(visited)
           D == 1 .. m
           before == {ij \in D \X D : FactBefore(Facts[ij[1]], Facts[ij[2]])}
           facts == SortedBy(Facts, FactBefore)
<1>1. IsVisit(visited)
  BY VisitedFacts
<1>2. Facts = [k \in DOMAIN visited |-> FactAt(visited[k])]
  BY DEF Facts
<1> HIDE DEF visited
<1>3. m \in Nat /\ DOMAIN visited = D /\ \A k \in D : visited[k] \in Uncovered /\ k \in Nat
  BY <1>1 DEF IsVisit
<1>4. \A k \in D : FactAt(visited[k]) \in Fact
  BY <1>3, UncoveredFacts
<1> HIDE DEF m
<1>5. Facts \in Seq(Fact) /\ DOMAIN Facts = D /\ \A k \in D : Facts[k] = FactAt(visited[k])
  BY <1>2, <1>3, <1>4
<1>6. facts = Arranged(Facts, D, before)
  BY <1>5 DEF SortedBy
<1>7. \A i, j \in D : <<i, j>> \in before <=> FactBefore(Facts[i], Facts[j])
  OBVIOUS
<1> HIDE DEF before, facts, D
<1>8. Orders(before, D)
  <2>1. \A i \in D : /\ Facts[i].criticality \in Int /\ Facts[i].budget \in Int
                     /\ Facts[i].link[1] \in Int
    BY <1>4, <1>5 DEF Fact, Links
  <2>2. ASSUME NEW i \in D, NEW j \in D, NEW k \in D
        PROVE  /\ FactBefore(Facts[i], Facts[j]) => ~ FactBefore(Facts[j], Facts[i])
               /\ ~ FactBefore(Facts[i], Facts[j]) /\ ~ FactBefore(Facts[j], Facts[k]) =>
                    ~ FactBefore(Facts[i], Facts[k])
    BY <2>1 DEF FactBefore
  <2> QED
    BY <1>7, <2>2 DEF Orders
<1>9. IsStablySorted(facts, Fact, Facts, before)
  BY <1>5, <1>6, <1>8, SortedFacts
<1>10. DOMAIN facts = D
  BY <1>5, <1>9 DEF IsStablySorted
<1>11. PICK p \in Bijection(D, D) :
         \A k \in D : /\ facts[k] = Facts[p[k]]
                      /\ \A j \in D : j < k => /\ <<p[k], p[j]>> \notin before
                                               /\ <<p[j], p[k]>> \notin before => p[j] < p[k]
  BY <1>5, <1>9 DEF IsStablySorted
<1>12. /\ \A k \in D : p[k] \in D
       /\ \A i \in D : \E k \in D : p[k] = i
  BY DEF Bijection, Injection, Surjection
<1> DEFINE v == [k \in D |-> visited[p[k]]]
<1>13. v \in [D -> Uncovered] /\ \A k \in D : v[k] = visited[p[k]]
  BY <1>3, <1>12
<1> HIDE DEF v
<1>14. \A k \in D : v[k] = visited[p[k]] /\ v[k] \in Uncovered /\ facts[k] = FactAt(v[k])
  BY <1>5, <1>11, <1>12, <1>13
<1>15. \A w \in Uncovered : \E k \in D : v[k] = w
  <2> SUFFICES ASSUME NEW w \in Uncovered
               PROVE  \E k \in D : v[k] = w
    OBVIOUS
  <2>1. PICK i \in D : visited[i] = w
    BY <1>1, <1>3 DEF IsVisit
  <2>2. PICK k \in D : p[k] = i
    BY <1>12
  <2> QED
    BY <1>14, <2>1, <2>2
<1>16. ASSUME NEW j \in D, NEW k \in D, j < k
       PROVE  PathLeads(v[j], v[k])
  <2> DEFINE f == facts[j]
             g == facts[k]
             a == v[j]
             b == v[k]
  <2>1. p[j] \in D /\ p[k] \in D /\ f = Facts[p[j]] /\ g = Facts[p[k]]
    BY <1>11, <1>12
  <2>2. ~ FactBefore(g, f) /\ (~ FactBefore(f, g) => p[j] < p[k])
    BY <1>7, <1>11, <1>16, <2>1
  <2>3. /\ a \in Uncovered /\ b \in Uncovered /\ f = FactAt(a) /\ g = FactAt(b)
        /\ a = visited[p[j]] /\ b = visited[p[k]]
    BY <1>14
  <2> HIDE DEF a, b, f, g
  <2>4. /\ f \in Fact /\ g \in Fact
        /\ a[1] \in DOMAIN input.nodes /\ b[1] \in DOMAIN input.nodes
        /\ f.link[1] = input.nodes[a[1]].name /\ g.link[1] = input.nodes[b[1]].name
    BY <2>3, UncoveredFacts
  <2>5. /\ f.criticality \in Int /\ f.budget \in Int /\ f.link[1] \in Int
        /\ g.criticality \in Int /\ g.budget \in Int /\ g.link[1] \in Int
    BY <2>4 DEF Fact, Links
  <2>6. p[j] < p[k] => a[1] < b[1] \/ (a[1] = b[1] /\ a[2] < b[2])
    BY <1>1, <1>3, <2>1, <2>3 DEF IsVisit
  <2>7. a[1] \in Nat /\ b[1] \in Nat /\ a[2] \in Nat /\ b[2] \in Nat
    BY <2>3, UncoveredFacts
  <2>8. f.link[1] = g.link[1] => a[1] = b[1]
    BY <2>4, InputFacts
  <2>9. \/ f.criticality < g.criticality
        \/ f.criticality = g.criticality /\ f.budget < g.budget
        \/ f.criticality = g.criticality /\ f.budget = g.budget /\ f.link[1] < g.link[1]
        \/ /\ f.criticality = g.criticality /\ f.budget = g.budget /\ f.link[1] = g.link[1]
           /\ p[j] < p[k]
    BY <2>2, <2>5 DEF FactBefore
  <2>10. PathLeads(a, b)
    BY <2>3, <2>6, <2>7, <2>8, <2>9 DEF PathLeads
  <2> QED
    BY <2>10 DEF a, b
<1>17. ListsRest(v, m)
  BY <1>3, <1>10, <1>13, <1>14, <1>15, <1>16 DEF ListsRest, facts, D
<1> QED
  BY <1>17


PathClaimAt(w) == PathClaim(w[1], w[2])

\* What the claim of an uncovered path says.
PathClaimSays(w) ==
  LET f == FactAt(w)
      key == PathClaimAt(w).key
  IN  /\ key \in Seq(Int) /\ DOMAIN key = 1 .. 5
      /\ key[1] = 1 /\ key[2] = f.criticality /\ key[3] = f.budget
      /\ key[4] = f.link[1] /\ key[5] = w[2]
      /\ PathClaimAt(w).link = f.link
      /\ PathClaimAt(w).group = <<1, f.criticality, f.budget>>
      /\ PathClaimAt(w).owner = <<1, f.criticality, f.budget>>

LEMMA PathClaimFacts ==
  ASSUME input \in Inputs, NEW w \in Uncovered
  PROVE  PathClaimSays(w)
<1> DEFINE f == FactAt(w)
           group == <<1, f.criticality, f.budget>>
           tail == <<f.link[1], w[2]>>
           key == PathClaimAt(w).key
<1>1. f \in Fact /\ w[2] \in Nat /\ f.link[1] = input.nodes[w[1]].name
  BY UncoveredFacts
<1>2. f.criticality \in Int /\ f.budget \in Int /\ f.link[1] \in Int /\ w[2] \in Int
  BY <1>1 DEF Fact, Links
<1>3. /\ PathClaimAt(w).link = f.link /\ PathClaimAt(w).group = group
      /\ PathClaimAt(w).owner = group /\ key = group \o tail
  BY <1>1 DEF PathClaimAt, PathClaim, FactAt, PathLink
<1> HIDE DEF f, key
<1>4. group \in Seq(Int) /\ Len(group) = 3 /\ tail \in Seq(Int) /\ Len(tail) = 2
  BY <1>2
<1>5. /\ group[1] = 1 /\ group[2] = f.criticality /\ group[3] = f.budget
      /\ tail[1] = f.link[1] /\ tail[2] = w[2]
  OBVIOUS
<1> HIDE DEF group, tail
<1>6. IsJoined(key, Int, group, tail)
  BY <1>3, <1>4, Concatenation
<1>7. /\ key \in Seq(Int) /\ DOMAIN key = 1 .. 5
      /\ \A i \in 1 .. 3 : key[i] = group[i]
      /\ \A i \in 1 .. 2 : key[3 + i] = tail[i]
  <2>1. 3 + 2 = 5
    OBVIOUS
  <2> QED
    BY <1>4, <1>6, <2>1 DEF IsJoined
<1>8. key[1] = group[1] /\ key[2] = group[2] /\ key[3] = group[3]
  BY <1>7
<1>9. key[4] = tail[1] /\ key[5] = tail[2]
  <2>1. key[3 + 1] = tail[1] /\ key[3 + 2] = tail[2]
    BY <1>7
  <2>2. 3 + 1 = 4 /\ 3 + 2 = 5
    OBVIOUS
  <2> QED
    BY <2>1, <2>2
<1> QED
  BY <1>3, <1>5, <1>7, <1>8, <1>9 DEF PathClaimSays, f, key, group

LEMMA PathsByKey ==
  ASSUME input \in Inputs, NEW v \in Uncovered, NEW w \in Uncovered, PathLeads(v, w)
  PROVE  LexLess(PathClaimAt(v).key, PathClaimAt(w).key)
<1> DEFINE f == FactAt(v)
           g == FactAt(w)
           s == PathClaimAt(v).key
           t == PathClaimAt(w).key
<1>1. PathClaimSays(v) /\ PathClaimSays(w)
  BY PathClaimFacts
<1>2. /\ DOMAIN s = 1 .. 5
      /\ s[1] = 1 /\ s[2] = f.criticality /\ s[3] = f.budget /\ s[4] = f.link[1] /\ s[5] = v[2]
      /\ t[1] = 1 /\ t[2] = g.criticality /\ t[3] = g.budget /\ t[4] = g.link[1] /\ t[5] = w[2]
  BY <1>1 DEF PathClaimSays
<1>3. \/ f.criticality < g.criticality
      \/ f.criticality = g.criticality /\ f.budget < g.budget
      \/ f.criticality = g.criticality /\ f.budget = g.budget /\ f.link[1] < g.link[1]
      \/ /\ f.criticality = g.criticality /\ f.budget = g.budget /\ f.link[1] = g.link[1]
         /\ v[2] < w[2]
  BY DEF PathLeads
<1> HIDE DEF f, g, s, t
<1>4. 2 \in DOMAIN s /\ 3 \in DOMAIN s /\ 4 \in DOMAIN s /\ 5 \in DOMAIN s
  BY <1>2
<1>5. CASE f.criticality < g.criticality
  <2>1. s[2] < t[2] /\ \A j \in 1 .. 2 - 1 : s[j] = t[j]
    BY <1>2, <1>5
  <2> QED
    BY <1>4, <2>1, LexAt DEF s, t
<1>6. CASE f.criticality = g.criticality /\ f.budget < g.budget
  <2>1. s[3] < t[3] /\ \A j \in 1 .. 3 - 1 : s[j] = t[j]
    BY <1>2, <1>6
  <2> QED
    BY <1>4, <2>1, LexAt DEF s, t
<1>7. CASE f.criticality = g.criticality /\ f.budget = g.budget /\ f.link[1] < g.link[1]
  <2>1. s[4] < t[4] /\ \A j \in 1 .. 4 - 1 : s[j] = t[j]
    BY <1>2, <1>7
  <2> QED
    BY <1>4, <2>1, LexAt DEF s, t
<1>8. CASE /\ f.criticality = g.criticality /\ f.budget = g.budget /\ f.link[1] = g.link[1]
           /\ v[2] < w[2]
  <2>1. s[5] < t[5] /\ \A j \in 1 .. 5 - 1 : s[j] = t[j]
    BY <1>2, <1>8
  <2> QED
    BY <1>4, <2>1, LexAt DEF s, t
<1> QED
  BY <1>3, <1>5, <1>6, <1>7, <1>8

\* Chains lead, then the rest.
LEMMA ChainsLead ==
  ASSUME input \in Inputs, NEW x \in ChainPlaces(input), NEW w \in Uncovered
  PROVE  /\ LexLess(ClaimAt(x).key, PathClaimAt(w).key)
         /\ ClaimAt(x).group # PathClaimAt(w).group
<1> DEFINE s == ClaimAt(x).key
           t == PathClaimAt(w).key
<1>1. ClaimSays(x) /\ PathClaimSays(w)
  BY ClaimFacts, PathClaimFacts
<1>2. DOMAIN s = 1 .. (IF IsBoundary(ElementAt(input, x)) THEN 9 ELSE 7) /\ s[1] = 0 /\ t[1] = 1
  BY <1>1 DEF ClaimSays, PathClaimSays
<1>3. ClaimAt(x).group[1] = 0 /\ PathClaimAt(w).group[1] = 1
  BY <1>1 DEF ClaimSays, PathClaimSays
<1> HIDE DEF s, t
<1>4. 1 \in DOMAIN s /\ s[1] < t[1] /\ \A j \in 1 .. 1 - 1 : s[j] = t[j]
  BY <1>2
<1>5. LexLess(s, t)
  BY <1>4, LexAt
<1> QED
  BY <1>3, <1>5 DEF s, t

\* The numbers of the buckets.
Buckets(facts, m) ==
  \A j, k \in 1 .. m :
    /\ Bucket(facts, k) \in Nat
    /\ j <= k => Bucket(facts, j) <= Bucket(facts, k)
    /\ Bucket(facts, j) = Bucket(facts, k) <=> SameFact(facts[j], facts[k])

LEMMA BucketFacts ==
  ASSUME input \in Inputs, NEW m, NEW v, ListsRest(v, m)
  PROVE  Buckets(SortedBy(Facts, FactBefore), m)
<1> DEFINE facts == SortedBy(Facts, FactBefore)
           S == {x \in 2 .. m : ~ SameFact(facts[x - 1], facts[x])}
<1>1. /\ m \in Nat
      /\ \A k \in 1 .. m : v[k] \in Uncovered /\ facts[k] = FactAt(v[k])
      /\ \A j, k \in 1 .. m : j < k => PathLeads(v[j], v[k])
  BY DEF ListsRest
<1> HIDE DEF facts
<1>2. \A k \in 1 .. m : facts[k].criticality \in Int /\ facts[k].budget \in Int
  <2> SUFFICES ASSUME NEW k \in 1 .. m
               PROVE  facts[k].criticality \in Int /\ facts[k].budget \in Int
    OBVIOUS
  <2>1. facts[k] \in Fact
    BY <1>1, UncoveredFacts
  <2> QED
    BY <2>1 DEF Fact
<1>3. ASSUME NEW j \in 1 .. m, NEW k \in 1 .. m, j < k
      PROVE  \/ facts[j].criticality < facts[k].criticality
             \/ /\ facts[j].criticality = facts[k].criticality
                /\ facts[j].budget <= facts[k].budget
  <2>1. PathLeads(v[j], v[k]) /\ facts[j] = FactAt(v[j]) /\ facts[k] = FactAt(v[k])
    BY <1>1, <1>3
  <2> QED
    BY <1>2, <2>1 DEF PathLeads
<1>4. \A x \in S : x \in 1 .. m /\ x >= 2 /\ x - 1 \in 1 .. m /\ ~ SameFact(facts[x - 1], facts[x])
  BY <1>1
<1>5. \A x \in 1 .. m : x >= 2 /\ ~ SameFact(facts[x - 1], facts[x]) => x \in S
  BY <1>1
<1>6. \A k \in 1 .. m : Bucket(facts, k) = RunOf(S, k)
  <2> SUFFICES ASSUME NEW k \in 1 .. m
               PROVE  Bucket(facts, k) = RunOf(S, k)
    OBVIOUS
  <2>1. \A x : x \in 2 .. k <=> x \in 2 .. m /\ x <= k
    BY <1>1
  <2>2. {x \in 2 .. k : ~ SameFact(facts[x - 1], facts[x])} = {s \in S : s <= k}
    BY <2>1
  <2> QED
    BY <2>2 DEF Bucket, RunOf
<1> HIDE DEF S
<1>7. S \subseteq 1 .. m /\ \A k \in 1 .. m : k \in Int
  BY <1>4
<1>8. \A j, k \in 1 .. m : /\ RunOf(S, k) \in Nat
                           /\ j <= k => RunOf(S, j) <= RunOf(S, k)
  BY <1>1, <1>7, RunOfBounds
<1>9. ASSUME NEW j \in 1 .. m, NEW k \in 1 .. m, j <= k
      PROVE  RunOf(S, j) = RunOf(S, k) <=> SameFact(facts[j], facts[k])
  <2>1. /\ (\A s \in S : ~ (j < s /\ s <= k)) => RunOf(S, j) = RunOf(S, k)
        /\ \A s \in S : j < s /\ s <= k => RunOf(S, j) < RunOf(S, k)
    BY <1>1, <1>7, <1>9, RunOfSeparates
  <2>2. ASSUME NEW s \in S, j < s, s <= k
        PROVE  ~ SameFact(facts[j], facts[k]) /\ RunOf(S, j) # RunOf(S, k)
    <3>1. RunOf(S, j) < RunOf(S, k) /\ RunOf(S, j) \in Nat /\ RunOf(S, k) \in Nat
      BY <1>8, <2>1, <2>2
    <3>2. s \in 1 .. m /\ s - 1 \in 1 .. m /\ ~ SameFact(facts[s - 1], facts[s])
      BY <1>4
    <3>3. (j = s - 1 \/ j < s - 1) /\ (s = k \/ s < k) /\ s - 1 < s
      BY <2>2, <3>2
    <3> DEFINE C(x) == facts[x].criticality
               B(x) == facts[x].budget
    <3>4. /\ C(j) < C(s - 1) \/ (C(j) = C(s - 1) /\ B(j) <= B(s - 1))
          /\ C(s) < C(k) \/ (C(s) = C(k) /\ B(s) <= B(k))
          /\ C(s - 1) < C(s) \/ (C(s - 1) = C(s) /\ B(s - 1) <= B(s))
          /\ ~ (C(s - 1) = C(s) /\ B(s - 1) = B(s))
      <4>1. C(j) < C(s - 1) \/ (C(j) = C(s - 1) /\ B(j) <= B(s - 1))
        BY <1>2, <1>3, <3>2, <3>3
      <4>2. C(s) < C(k) \/ (C(s) = C(k) /\ B(s) <= B(k))
        BY <1>2, <1>3, <3>2, <3>3
      <4>3. C(s - 1) < C(s) \/ (C(s - 1) = C(s) /\ B(s - 1) <= B(s))
        BY <1>3, <3>2, <3>3
      <4> QED
        BY <4>1, <4>2, <4>3, <3>2 DEF SameFact
    <3>5. /\ C(j) \in Int /\ C(k) \in Int /\ C(s) \in Int /\ C(s - 1) \in Int
          /\ B(j) \in Int /\ B(k) \in Int /\ B(s) \in Int /\ B(s - 1) \in Int
      BY <1>2, <3>2
    <3> HIDE DEF C, B
    <3>6. ~ (C(j) = C(k) /\ B(j) = B(k))
      BY <3>4, <3>5
    <3> QED
      BY <3>1, <3>6 DEF SameFact, C, B
  <2>3. ASSUME \A s \in S : ~ (j < s /\ s <= k)
        PROVE  SameFact(facts[j], facts[k])
    <3> DEFINE C == {x \in 1 .. m : SameFact(facts[j], facts[x])}
    <3>1. \A x : x \in C <=> x \in 1 .. m /\ SameFact(facts[j], facts[x])
      OBVIOUS
    <3>2. j \in C
      BY <3>1 DEF SameFact
    <3> HIDE DEF C
    <3>3. SUFFICES ASSUME k \notin C
                   PROVE  FALSE
      BY <3>1
    <3>4. j \in Nat /\ k \in Nat /\ j < k
      <4>1. j # k
        BY <3>2, <3>3
      <4> QED
        BY <1>9, <4>1
    <3>5. PICK s \in j + 1 .. k : s - 1 \in C /\ s \notin C
      BY <3>2, <3>3, <3>4, Boundary
    <3>6. s \in 1 .. m /\ s >= 2 /\ j < s /\ s <= k
      <4>1. j >= 1 /\ k <= m
        BY <1>1
      <4>2. s \in j + 1 .. k
        BY <3>5
      <4> QED
        BY <1>1, <3>4, <4>1, <4>2
    <3>7. SameFact(facts[s - 1], facts[s])
      BY <1>5, <2>3, <3>6
    <3>8. SameFact(facts[j], facts[s])
      BY <3>1, <3>5, <3>7 DEF SameFact
    <3> QED
      BY <3>1, <3>5, <3>6, <3>8
  <2> QED
    BY <2>1, <2>2, <2>3
<1>10. ASSUME NEW j \in 1 .. m, NEW k \in 1 .. m
       PROVE  RunOf(S, j) = RunOf(S, k) <=> SameFact(facts[j], facts[k])
  <2>1. CASE j <= k
    BY <1>9, <2>1
  <2>2. CASE k <= j
    BY <1>9, <2>2 DEF SameFact
  <2> QED
    BY <2>1, <2>2
<1> QED
  BY <1>6, <1>8, <1>10 DEF Buckets, facts


-----------------------------------------------------------------------------
(***************************************************************************)
(* The plan.  cl gives the claim behind every item.                        *)
(***************************************************************************)
Designed(claims, cl, its) ==
  /\ its \in Seq(PlanItem)
  /\ IsRankedPlan(its)
  /\ cl \in [DOMAIN its -> claims]
  /\ \A x \in claims : x.key \in Seq(Int) /\ \E i \in DOMAIN its : cl[i] = x
  /\ \A i \in DOMAIN its : its[i].link = cl[i].link
  /\ \A i, j \in DOMAIN its :
       /\ i < j => LexLess(cl[i].key, cl[j].key)
       /\ its[i].fine = its[j].fine <=> cl[i].group = cl[j].group
       /\ SameClass(its, i, j) => cl[i].owner = cl[j].owner

\* At its end the walk has been everywhere.
LEMMA WalkEnds ==
  ASSUME NEW in \in Inputs, NEW cs, NEW a, a > Len(cs), NEW p, NEW its, NEW cnt,
         Walking(in, cs, a, p, its, cnt)
  PROVE  \E w : Walked(in, ChainPlaces(in), w, its, cnt)
<1>1. PICK g : /\ Chosen(in, cs, g)
               /\ \E w : Walked(in, Emitted(in, cs, g, a, p), w, its, cnt)
  BY DEF Walking
<1>2. Len(cs) \in Nat /\ DOMAIN cs = 1 .. Len(cs) /\ a \in Nat
  BY <1>1 DEF Chosen, Walking, OnTheWay
<1>3. ASSUME NEW x \in ChainPlaces(in)
      PROVE  x \in Emitted(in, cs, g, a, p)
  <2>1. x[1] \in DOMAIN in.chains /\ Feasible(in.chains[x[1]])
    BY <1>3 DEF ChainPlaces
  <2>2. PICK b \in 1 .. Len(cs) : g[b] = x[1]
    BY <1>1, <2>1 DEF Chosen
  <2>3. b \in DOMAIN cs /\ b <= a /\ b # a
    BY <1>2
  <2> QED
    BY <1>3, <2>2, <2>3 DEF Emitted
<1>4. Emitted(in, cs, g, a, p) = ChainPlaces(in)
  BY <1>3 DEF Emitted
<1> QED
  BY <1>1, <1>4

\* The claims of the chains are those of the places ...
LEMMA ChainClaimsOfPlaces ==
  ASSUME input \in Inputs
  PROVE  ChainClaims = {ClaimAt(x) : x \in ChainPlaces(input)}
<1> DEFINE OfElement(c, e) ==
             {<<c, e, k>> : k \in DOMAIN LinksOf(input.chains[c].elements[e])}
           OfChain(c) == UNION {OfElement(c, e) : e \in DOMAIN input.chains[c].elements}
           P == UNION {OfChain(c) : c \in {d \in DOMAIN input.chains :
                                              Feasible(input.chains[d])}}
<1>1. ASSUME NEW x \in ChainPlaces(input)
      PROVE  x \in P
  <2>1. /\ x = <<x[1], x[2], x[3]>>
        /\ x[1] \in DOMAIN input.chains /\ Feasible(input.chains[x[1]])
        /\ x[2] \in DOMAIN input.chains[x[1]].elements
        /\ x[3] \in DOMAIN LinksOf(input.chains[x[1]].elements[x[2]])
    BY <1>1, PlaceFacts DEF ChainPlaces, ElementAt
  <2>2. x \in OfElement(x[1], x[2])
    BY <2>1
  <2> HIDE DEF OfElement
  <2>3. x \in OfChain(x[1])
    BY <2>1, <2>2
  <2> HIDE DEF OfChain
  <2> QED
    BY <2>1, <2>3
<1>2. ASSUME NEW x \in P
      PROVE  x \in ChainPlaces(input)
  <2>1. PICK c \in {d \in DOMAIN input.chains : Feasible(input.chains[d])} :
          x \in OfChain(c)
    BY <1>2
  <2>2. PICK e \in DOMAIN input.chains[c].elements :
          x \in OfElement(c, e)
    BY <2>1
  <2>3. PICK k \in DOMAIN LinksOf(input.chains[c].elements[e]) : x = <<c, e, k>>
    BY <2>2
  <2>4. IsChain(input.chains[c]) /\ c \in Nat
    BY InputFacts
  <2>5. e \in Nat /\ input.chains[c].elements[e] \in Range(input.chains[c].elements)
    BY <2>4 DEF IsChain, Range
  <2> DEFINE f == input.chains[c].elements[e]
  <2>6. IsElement(f)
    BY <2>4, <2>5 DEF IsChain
  <2>7. k \in DOMAIN LinksOf(f)
    OBVIOUS
  <2>8. ElementAt(input, x) = f
    BY <2>3 DEF ElementAt
  <2> HIDE DEF f
  <2>9. k \in Nat
    BY <2>6, <2>7 DEF IsElement, LinksOf, IsBoundary
  <2> QED
    BY <2>3, <2>4, <2>5, <2>7, <2>8, <2>9 DEF ChainPlaces
<1>3. P = ChainPlaces(input)
  BY <1>1, <1>2
<1>4. ChainClaims = {ChainClaim(x[1], x[2], x[3]) : x \in P}
  BY DEF ChainClaims
<1> QED
  BY <1>3, <1>4 DEF ClaimAt

\* ... and those of the paths are those of the paths that the walk has not met.
LEMMA PathClaimsOfRest ==
  ASSUME input \in Inputs, NEW w, NEW cnt, Walked(input, ChainPlaces(input), w, items, cnt)
  PROVE  PathClaims = {PathClaimAt(v) : v \in Uncovered}
<1> DEFINE W == UNION {{<<a, b>> : b \in DOMAIN input.nodes[a].paths} :
                       a \in DOMAIN input.nodes}
           Link(v) == PathLink(input.nodes[v[1]], input.nodes[v[1]].paths[v[2]])
           Open(v) == PathBudget(input.nodes[v[1]].paths[v[2]]) # NoPeriod
<1>1. ASSUME NEW l
      PROVE  l \in Covered <=> \E x \in ChainClaims : x.link = l
  <2>1. ASSUME NEW i \in DOMAIN items, l = items[i].link
        PROVE  \E x \in ChainClaims : x.link = l
    <3>1. w[i] \in ChainPlaces(input) /\ l = LinkAt(input, w[i])
      BY <2>1 DEF Walked
    <3>2. ClaimAt(w[i]) \in ChainClaims
      BY <3>1, ChainClaimsOfPlaces
    <3>3. ClaimAt(w[i]).link = l
      BY <3>1, ClaimFacts DEF ClaimSays
    <3> QED
      BY <3>2, <3>3
  <2>2. ASSUME NEW x \in ChainClaims, x.link = l
        PROVE  \E i \in DOMAIN items : l = items[i].link
    <3>1. PICK y \in ChainPlaces(input) : x = ClaimAt(y)
      BY ChainClaimsOfPlaces
    <3>2. l = LinkAt(input, y)
      BY <2>2, <3>1, ClaimFacts DEF ClaimSays
    <3>3. PICK i \in DOMAIN items : w[i] = y
      BY DEF Walked
    <3> QED
      BY <3>2, <3>3 DEF Walked
  <2> QED
    BY <2>1, <2>2 DEF Covered, Range
<1>2. Uncovered = {v \in W : Open(v) /\ Link(v) \notin Covered}
  BY DEF Uncovered
<1>3. PathClaims = {PathClaimAt(v) :
                      v \in {u \in W : Open(u) /\ \A x \in ChainClaims : x.link # Link(u)}}
  BY DEF PathClaims, PathClaimAt, PathLink
<1> HIDE DEF W, Open, Link
<1>4. {u \in W : Open(u) /\ \A x \in ChainClaims : x.link # Link(u)} = Uncovered
  BY <1>1, <1>2
<1> QED
  BY <1>3, <1>4


\* The items of the paths outside the chains.
RestItems(facts, cnt) ==
  [k \in DOMAIN facts |->
     [link |-> facts[k].link, fine |-> cnt + Bucket(facts, k), coarse |-> NoChain,
      tie |-> cnt + Bucket(facts, k)]]

\* What an item of a chain and its claim have in common ...
OfChain(it, x, cnt) ==
  /\ x \in ChainPlaces(input)
  /\ it.link = ClaimAt(x).link
  /\ it.fine \in Nat /\ it.fine < cnt /\ it.tie = NoTie
  /\ it.coarse \in Nat /\ ClaimAt(x).owner = <<it.coarse>>

\* ... and an item outside the chains and its claim.
OfRest(it, v, cnt) ==
  /\ v \in Uncovered
  /\ it.link = PathClaimAt(v).link
  /\ it.fine \in Nat /\ it.fine >= cnt /\ it.tie = it.fine
  /\ it.coarse = NoChain
  /\ PathClaimAt(v).owner = PathClaimAt(v).group

\* The plan is the one the design asks for.
LEMMA PlanIsDesigned ==
  ASSUME input \in Inputs, NEW w, NEW cnt, Walked(input, ChainPlaces(input), w, items, cnt)
  PROVE  \E cl : Designed(Claims, cl, items \o RestItems(SortedBy(Facts, FactBefore), cnt))
<1> DEFINE l == Len(items)
           facts == SortedBy(Facts, FactBefore)
           more == RestItems(facts, cnt)
           all == items \o more
<1>1. PICK m, v : ListsRest(v, m)
  BY RestIsListed
<1>2. /\ m \in Nat /\ DOMAIN facts = 1 .. m
      /\ \A k \in 1 .. m : v[k] \in Uncovered /\ facts[k] = FactAt(v[k])
      /\ \A u \in Uncovered : \E k \in 1 .. m : v[k] = u
      /\ \A j, k \in 1 .. m : j < k => PathLeads(v[j], v[k])
  BY <1>1 DEF ListsRest
<1>3. Buckets(facts, m)
  BY <1>1, BucketFacts
<1>4. /\ cnt \in Nat /\ items \in Seq(PlanItem) /\ l \in Nat /\ DOMAIN items = 1 .. l
  BY DEF Walked
<1> HIDE DEF facts, l
<1>5. \A k \in 1 .. m : cnt + Bucket(facts, k) \in Nat /\ cnt + Bucket(facts, k) >= cnt
  BY <1>3, <1>4 DEF Buckets
<1>6. /\ DOMAIN more = 1 .. m
      /\ \A k \in 1 .. m : more[k] = [link |-> facts[k].link, fine |-> cnt + Bucket(facts, k),
                                      coarse |-> NoChain, tie |-> cnt + Bucket(facts, k)]
  BY <1>2 DEF RestItems
<1>7. \A k \in 1 .. m : OfRest(more[k], v[k], cnt) /\ more[k] \in PlanItem
  <2> SUFFICES ASSUME NEW k \in 1 .. m
               PROVE  OfRest(more[k], v[k], cnt) /\ more[k] \in PlanItem
    OBVIOUS
  <2>1. v[k] \in Uncovered /\ facts[k] = FactAt(v[k])
    BY <1>2
  <2>2. PathClaimSays(v[k]) /\ FactAt(v[k]) \in Fact
    BY <2>1, PathClaimFacts, UncoveredFacts
  <2>3. /\ more[k].link = facts[k].link /\ more[k].fine = cnt + Bucket(facts, k)
        /\ more[k].coarse = NoChain /\ more[k].tie = cnt + Bucket(facts, k)
    BY <1>6
  <2>4. OfRest(more[k], v[k], cnt)
    BY <1>5, <2>1, <2>2, <2>3 DEF OfRest, PathClaimSays
  <2>5. facts[k].link \in Links
    BY <2>1, <2>2 DEF Fact
  <2>6. more[k] \in PlanItem
    BY <1>5, <1>6, <2>5 DEF PlanItem
  <2> QED
    BY <2>4, <2>6
<1>8. /\ more \in Seq(PlanItem) /\ Len(more) = m
  <2>1. more = [k \in 1 .. m |-> more[k]]
    BY <1>2 DEF RestItems
  <2> HIDE DEF more
  <2> QED
    BY <1>2, <1>7, <2>1
<1>9. \A i \in 1 .. l : /\ OfChain(items[i], w[i], cnt)
                        /\ \A j \in 1 .. l :
                             /\ i < j => /\ PlaceBefore(input, w[i], w[j])
                                         /\ items[i].fine <= items[j].fine
                             /\ items[i].fine = items[j].fine <=> SameGroup(input, w[i], w[j])
  <2> SUFFICES ASSUME NEW i \in 1 .. l
               PROVE  /\ OfChain(items[i], w[i], cnt)
                      /\ \A j \in 1 .. l :
                           /\ i < j => /\ PlaceBefore(input, w[i], w[j])
                                       /\ items[i].fine <= items[j].fine
                           /\ items[i].fine = items[j].fine <=> SameGroup(input, w[i], w[j])
    OBVIOUS
  <2>1. /\ w[i] \in ChainPlaces(input) /\ items[i].link = LinkAt(input, w[i])
        /\ items[i].fine < cnt /\ items[i].tie = NoTie
        /\ items[i].coarse = input.chains[w[i][1]].name
    BY <1>4 DEF Walked
  <2>2. items[i].fine \in Nat
    <3>1. items[i] \in PlanItem
      BY <1>4
    <3> QED
      BY <3>1 DEF PlanItem
  <2>3. ClaimSays(w[i]) /\ IsChain(input.chains[w[i][1]])
    BY <2>1, ClaimFacts, PlaceFacts
  <2>4. OfChain(items[i], w[i], cnt)
    BY <2>1, <2>2, <2>3 DEF OfChain, ClaimSays, IsChain
  <2> QED
    BY <1>4, <2>4 DEF Walked
<1>10. IsJoined(all, PlanItem, items, more)
  <2> HIDE DEF more
  <2> QED
    BY <1>4, <1>8, Concatenation
<1> HIDE DEF all, more
<1>11. /\ all \in Seq(PlanItem) /\ DOMAIN all = 1 .. l + m
       /\ \A i \in 1 .. l : all[i] = items[i]
       /\ \A k \in 1 .. m : all[l + k] = more[k]
  BY <1>8, <1>10 DEF IsJoined, l
<1> DEFINE cl == [i \in 1 .. l + m |-> IF i <= l THEN ClaimAt(w[i]) ELSE PathClaimAt(v[i - l])]
<1>12. \A i \in 1 .. l + m : \/ i \in 1 .. l /\ i <= l
                             \/ i - l \in 1 .. m /\ ~ (i <= l) /\ i = l + (i - l)
  BY <1>2, <1>4
<1>13. /\ \A i \in 1 .. l : i \in 1 .. l + m /\ i <= l
       /\ \A k \in 1 .. m : l + k \in 1 .. l + m /\ ~ (l + k <= l) /\ (l + k) - l = k
  BY <1>2, <1>4
<1>14. /\ cl = [i \in 1 .. l + m |-> cl[i]]
       /\ \A i \in 1 .. l : cl[i] = ClaimAt(w[i])
       /\ \A k \in 1 .. m : cl[l + k] = PathClaimAt(v[k])
  BY <1>13
<1> HIDE DEF cl
<1>15. /\ ChainClaims = {ClaimAt(x) : x \in ChainPlaces(input)}
       /\ PathClaims = {PathClaimAt(u) : u \in Uncovered}
  BY ChainClaimsOfPlaces, PathClaimsOfRest
<1>16. \A i \in 1 .. l + m : cl[i] \in Claims /\ all[i].link = cl[i].link
  <2> SUFFICES ASSUME NEW i \in 1 .. l + m
               PROVE  cl[i] \in Claims /\ all[i].link = cl[i].link
    OBVIOUS
  <2>1. CASE i \in 1 .. l
    <3>1. w[i] \in ChainPlaces(input) /\ items[i].link = ClaimAt(w[i]).link
      BY <1>9, <2>1 DEF OfChain
    <3> QED
      BY <1>11, <1>14, <1>15, <2>1, <3>1 DEF Claims
  <2>2. CASE i - l \in 1 .. m /\ i = l + (i - l)
    <3>1. v[i - l] \in Uncovered /\ more[i - l].link = PathClaimAt(v[i - l]).link
      BY <1>7, <2>2 DEF OfRest
    <3>2. all[i] = more[i - l] /\ cl[i] = PathClaimAt(v[i - l])
      BY <1>11, <1>14, <2>2
    <3> QED
      BY <1>15, <3>1, <3>2 DEF Claims
  <2> QED
    BY <1>12, <2>1, <2>2
<1>17. \A x \in Claims : x.key \in Seq(Int) /\ \E i \in 1 .. l + m : cl[i] = x
  <2>1. ASSUME NEW x \in ChainClaims
        PROVE  x.key \in Seq(Int) /\ \E i \in 1 .. l + m : cl[i] = x
    <3>1. PICK y \in ChainPlaces(input) : x = ClaimAt(y)
      BY <1>15
    <3>2. PICK i \in 1 .. l : w[i] = y
      BY <1>4 DEF Walked
    <3> QED
      BY <1>13, <1>14, <3>1, <3>2, ClaimFacts DEF ClaimSays
  <2>2. ASSUME NEW x \in PathClaims
        PROVE  x.key \in Seq(Int) /\ \E i \in 1 .. l + m : cl[i] = x
    <3>1. PICK y \in Uncovered : x = PathClaimAt(y)
      BY <1>15
    <3>2. PICK k \in 1 .. m : v[k] = y
      BY <1>2
    <3> QED
      BY <1>13, <1>14, <3>1, <3>2, PathClaimFacts DEF PathClaimSays
  <2> QED
    BY <2>1, <2>2 DEF Claims
<1>18. ASSUME NEW i \in 1 .. l, NEW j \in 1 .. l
       PROVE  /\ i < j => /\ LexLess(cl[i].key, cl[j].key)
                          /\ all[i].fine <= all[j].fine
              /\ all[i].fine = all[j].fine <=> cl[i].group = cl[j].group
              /\ all[i].fine = all[j].fine => all[i].coarse = all[j].coarse
              /\ all[i].coarse = all[j].coarse => cl[i].owner = cl[j].owner
  <2>1. /\ all[i] = items[i] /\ cl[i] = ClaimAt(w[i]) /\ OfChain(items[i], w[i], cnt)
        /\ all[j] = items[j] /\ cl[j] = ClaimAt(w[j]) /\ OfChain(items[j], w[j], cnt)
    BY <1>9, <1>11, <1>14
  <2>2. w[i] \in ChainPlaces(input) /\ w[j] \in ChainPlaces(input)
    BY <2>1 DEF OfChain
  <2>3. i < j => LexLess(cl[i].key, cl[j].key) /\ all[i].fine <= all[j].fine
    BY <1>9, <2>1, <2>2, PlacesByKey
  <2>4. SameGroup(input, w[i], w[j]) <=> cl[i].group = cl[j].group
    BY <2>1, <2>2, GroupsOfPlaces
  <2>5. all[i].fine = all[j].fine <=> SameGroup(input, w[i], w[j])
    BY <1>9, <2>1
  <2>6. SameGroup(input, w[i], w[j]) => all[i].coarse = all[j].coarse
    <3>1. /\ items[i].coarse = input.chains[w[i][1]].name
          /\ items[j].coarse = input.chains[w[j][1]].name
      BY <1>4 DEF Walked
    <3>2. SameGroup(input, w[i], w[j]) => w[i][1] = w[j][1]
      BY DEF SameGroup
    <3> QED
      BY <2>1, <3>1, <3>2
  <2>7. all[i].coarse = all[j].coarse => cl[i].owner = cl[j].owner
    BY <2>1 DEF OfChain
  <2> QED
    BY <2>3, <2>4, <2>5, <2>6, <2>7
<1>19. ASSUME NEW i \in 1 .. m, NEW j \in 1 .. m
       PROVE  /\ i < j => LexLess(cl[l + i].key, cl[l + j].key)
              /\ i <= j => all[l + i].fine <= all[l + j].fine
              /\ all[l + i].fine = all[l + j].fine <=> cl[l + i].group = cl[l + j].group
              /\ all[l + i].fine = all[l + j].fine => cl[l + i].owner = cl[l + j].owner
  <2>1. /\ all[l + i] = more[i] /\ cl[l + i] = PathClaimAt(v[i]) /\ v[i] \in Uncovered
        /\ all[l + j] = more[j] /\ cl[l + j] = PathClaimAt(v[j]) /\ v[j] \in Uncovered
        /\ facts[i] = FactAt(v[i]) /\ facts[j] = FactAt(v[j])
    BY <1>2, <1>11, <1>14
  <2>2. i < j => LexLess(cl[l + i].key, cl[l + j].key)
    BY <1>2, <2>1, PathsByKey
  <2>3. /\ more[i].fine = cnt + Bucket(facts, i) /\ more[j].fine = cnt + Bucket(facts, j)
        /\ Bucket(facts, i) \in Nat /\ Bucket(facts, j) \in Nat
        /\ i <= j => Bucket(facts, i) <= Bucket(facts, j)
        /\ Bucket(facts, i) = Bucket(facts, j) <=> SameFact(facts[i], facts[j])
    BY <1>3, <1>6 DEF Buckets
  <2>4. /\ cl[l + i].group = <<1, facts[i].criticality, facts[i].budget>>
        /\ cl[l + j].group = <<1, facts[j].criticality, facts[j].budget>>
        /\ cl[l + i].owner = cl[l + i].group /\ cl[l + j].owner = cl[l + j].group
    BY <2>1, PathClaimFacts DEF PathClaimSays
  <2>5. SameFact(facts[i], facts[j]) <=> cl[l + i].group = cl[l + j].group
    BY <2>4 DEF SameFact
  <2>6. /\ i <= j => all[l + i].fine <= all[l + j].fine
        /\ all[l + i].fine = all[l + j].fine <=> SameFact(facts[i], facts[j])
    BY <1>4, <2>1, <2>3
  <2> QED
    BY <2>2, <2>4, <2>5, <2>6
<1>20. ASSUME NEW i \in 1 .. l, NEW k \in 1 .. m
       PROVE  /\ LexLess(cl[i].key, cl[l + k].key)
              /\ all[i].fine < all[l + k].fine
              /\ cl[i].group # cl[l + k].group
              /\ all[i].fine \in Nat /\ all[l + k].fine \in Nat
              /\ all[i].coarse # NoChain /\ all[l + k].coarse = NoChain
              /\ all[i].tie = NoTie /\ all[l + k].tie # NoTie
              /\ all[l + k].tie = all[l + k].fine
  <2>1. /\ all[i] = items[i] /\ cl[i] = ClaimAt(w[i]) /\ OfChain(items[i], w[i], cnt)
        /\ all[l + k] = more[k] /\ cl[l + k] = PathClaimAt(v[k]) /\ OfRest(more[k], v[k], cnt)
    BY <1>7, <1>9, <1>11, <1>14
  <2>2. LexLess(cl[i].key, cl[l + k].key) /\ cl[i].group # cl[l + k].group
    BY <2>1, ChainsLead DEF OfChain, OfRest
  <2>3. /\ all[i].fine < cnt /\ all[i].fine \in Nat /\ all[l + k].fine \in Nat
        /\ all[l + k].fine >= cnt
    BY <2>1 DEF OfChain, OfRest
  <2>4. all[i].fine < all[l + k].fine
    BY <1>4, <2>3
  <2>5. /\ all[i].coarse # NoChain /\ all[l + k].coarse = NoChain
        /\ all[i].tie = NoTie /\ all[l + k].tie # NoTie /\ all[l + k].tie = all[l + k].fine
    BY <2>1, AbsenceAssumption DEF OfChain, OfRest
  <2> QED
    BY <2>2, <2>3, <2>4, <2>5
<1>21. \A i \in 1 .. l : all[i].coarse # NoChain /\ all[i].tie = NoTie
  BY <1>9, <1>11, AbsenceAssumption DEF OfChain
<1>22. \A k \in 1 .. m : /\ all[l + k].coarse = NoChain /\ all[l + k].tie = all[l + k].fine
                         /\ all[l + k].tie # NoTie
  BY <1>7, <1>11, AbsenceAssumption DEF OfRest
<1>23. \A i \in 1 .. l + m : all[i].fine \in Nat
  <2>1. \A i \in 1 .. l : all[i].fine \in Nat
    BY <1>9, <1>11 DEF OfChain
  <2>2. \A k \in 1 .. m : all[l + k].fine \in Nat
    BY <1>7, <1>11 DEF OfRest
  <2> QED
    BY <1>12, <2>1, <2>2
<1>24. ASSUME NEW i \in 1 .. l + m, NEW j \in 1 .. l + m
       PROVE  /\ i < j => LexLess(cl[i].key, cl[j].key)
              /\ i <= j => all[i].fine <= all[j].fine
              /\ all[i].fine = all[j].fine <=> cl[i].group = cl[j].group
              /\ all[i].fine = all[j].fine =>
                   all[i].coarse = all[j].coarse /\ all[i].tie = all[j].tie
              /\ i < j /\ all[i].coarse = NoChain => all[j].coarse = NoChain
              /\ all[i].tie # NoTie /\ all[i].tie = all[j].tie => all[i].fine = all[j].fine
              /\ all[i].coarse = NoChain <=> all[i].tie # NoTie
              /\ SameClass(all, i, j) => cl[i].owner = cl[j].owner
  <2>1. CASE i \in 1 .. l /\ j \in 1 .. l
    <3>1. i <= j => i < j \/ i = j
      BY <1>4
    <3>2. all[i].fine \in Nat /\ all[i].fine <= all[i].fine
      BY <1>23
    <3> QED
      BY <1>18, <1>21, <2>1, <3>1, <3>2 DEF SameClass
  <2>2. CASE i \in 1 .. l /\ j - l \in 1 .. m /\ j = l + (j - l)
    <3> DEFINE k == j - l
    <3>1. k \in 1 .. m /\ j = l + k
      BY <2>2
    <3> HIDE DEF k
    <3>2. all[i].fine # all[j].fine /\ all[i].fine <= all[j].fine
      BY <1>20, <2>2, <3>1
    <3> QED
      BY <1>20, <2>2, <3>1, <3>2 DEF SameClass
  <2>3. CASE i - l \in 1 .. m /\ i = l + (i - l) /\ j \in 1 .. l
    <3> DEFINE k == i - l
    <3>1. k \in 1 .. m /\ i = l + k /\ ~ (i <= j)
      BY <1>4, <2>3
    <3> HIDE DEF k
    <3>2. ~ (i < j)
      BY <3>1
    <3>3. all[i].fine # all[j].fine
      BY <1>20, <2>3, <3>1
    <3> QED
      BY <1>20, <2>3, <3>1, <3>2, <3>3 DEF SameClass
  <2>4. CASE i - l \in 1 .. m /\ i = l + (i - l) /\ j - l \in 1 .. m /\ j = l + (j - l)
    <3> DEFINE a == i - l
               b == j - l
    <3>1. a \in 1 .. m /\ i = l + a /\ b \in 1 .. m /\ j = l + b
      BY <2>4
    <3>2. (i < j => a < b) /\ (i <= j => a <= b)
      BY <1>4
    <3> HIDE DEF a, b
    <3>3. /\ i < j => LexLess(cl[i].key, cl[j].key)
          /\ i <= j => all[i].fine <= all[j].fine
          /\ all[i].fine = all[j].fine <=> cl[i].group = cl[j].group
          /\ all[i].fine = all[j].fine => cl[i].owner = cl[j].owner
      BY <1>19, <3>1, <3>2
    <3> QED
      BY <1>22, <3>1, <3>3 DEF SameClass
  <2> QED
    BY <1>12, <2>1, <2>2, <2>3, <2>4
<1>25. IsRankedPlan(all)
  BY <1>11, <1>24 DEF IsRankedPlan
<1>26. cl \in [1 .. l + m -> Claims]
  BY <1>14, <1>16
<1>27. Designed(Claims, cl, all)
  BY <1>11, <1>16, <1>17, <1>24, <1>25, <1>26 DEF Designed
<1> QED
  BY <1>27 DEF all, more, facts


\* The rank of a claim is the position of its item.
RanksItems(cl) ==
  /\ Len(items) \in Nat /\ DOMAIN items = 1 .. Len(items)
  /\ DOMAIN RankOf = Claims /\ Cardinality(Claims) = Len(items)
  /\ \A i \in 1 .. Len(items) : cl[i] \in Claims /\ RankOf[cl[i]] = i
  /\ \A x \in Claims : RankOf[x] \in 1 .. Len(items) /\ cl[RankOf[x]] = x

LEMMA RanksArePositions ==
  ASSUME NEW cl, Designed(Claims, cl, items)
  PROVE  RanksItems(cl)
<1> DEFINE l == Len(items)
           C == Claims
           Ahd(x) == {y \in C : LexLess(y.key, x.key)}
<1>1. /\ l \in Nat /\ DOMAIN items = 1 .. l
      /\ cl \in [1 .. l -> C]
      /\ \A x \in C : x.key \in Seq(Int) /\ \E i \in 1 .. l : cl[i] = x
      /\ \A i, j \in 1 .. l : i < j => LexLess(cl[i].key, cl[j].key)
  <2>1. items \in Seq(PlanItem)
    BY DEF Designed
  <2>2. l \in Nat /\ DOMAIN items = 1 .. l
    BY <2>1
  <2> HIDE DEF l, C
  <2> QED
    BY <2>2 DEF Designed, C
<1>2. /\ DOMAIN RankOf = C
      /\ \A x \in C : RankOf[x] = 1 + Cardinality(Ahd(x))
  BY DEF RankOf
<1> HIDE DEF l, C
<1>3. \A i, j \in 1 .. l : LexLess(cl[i].key, cl[j].key) <=> i < j
  <2> SUFFICES ASSUME NEW i \in 1 .. l, NEW j \in 1 .. l
               PROVE  LexLess(cl[i].key, cl[j].key) <=> i < j
    OBVIOUS
  <2>1. cl[i].key \in Seq(Int) /\ cl[j].key \in Seq(Int)
    BY <1>1
  <2>2. i < j \/ j < i \/ i = j
    BY <1>1
  <2>3. CASE i < j
    BY <1>1, <2>3
  <2>4. CASE j < i
    <3>1. LexLess(cl[j].key, cl[i].key)
      BY <1>1, <2>4
    <3>2. ~ LexLess(cl[i].key, cl[j].key)
      BY <2>1, <3>1, LexAsymmetric
    <3> QED
      BY <1>1, <2>4, <3>2
  <2>5. CASE i = j
    <3>1. ~ LexLess(cl[i].key, cl[i].key)
      BY <2>1, LexAsymmetric
    <3> QED
      BY <1>1, <2>5, <3>1
  <2> QED
    BY <2>2, <2>3, <2>4, <2>5
<1>4. \A i, j \in 1 .. l : cl[i] = cl[j] => i = j
  <2> SUFFICES ASSUME NEW i \in 1 .. l, NEW j \in 1 .. l, cl[i] = cl[j]
               PROVE  i = j
    OBVIOUS
  <2>1. ~ (i < j) /\ ~ (j < i)
    <3>1. ~ (i < i) /\ ~ (j < j)
      BY <1>1
    <3> QED
      BY <1>3, <3>1
  <2> QED
    BY <1>1, <2>1
<1>5. Cardinality(C) = l
  <2>1. cl \in Bijection(1 .. l, C)
    BY <1>1, <1>4 DEF Bijection, Injection, Surjection, IsInjective
  <2> QED
    BY <1>1, <2>1, Counted
<1>6. ASSUME NEW i \in 1 .. l
      PROVE  cl[i] \in C /\ RankOf[cl[i]] = i
  <2> DEFINE f == [j \in 1 .. i - 1 |-> cl[j]]
             T == Ahd(cl[i])
  <2>1. i - 1 \in Nat /\ \A j \in 1 .. i - 1 : j \in 1 .. l /\ j < i
    BY <1>1
  <2>2. \A y : y \in T <=> y \in C /\ LexLess(y.key, cl[i].key)
    OBVIOUS
  <2> HIDE DEF T
  <2>3. \A j \in 1 .. i - 1 : cl[j] \in T
    BY <1>1, <1>3, <2>1, <2>2
  <2>4. \A y \in T : \E j \in 1 .. i - 1 : cl[j] = y
    <3> SUFFICES ASSUME NEW y \in T
                 PROVE  \E j \in 1 .. i - 1 : cl[j] = y
      OBVIOUS
    <3>1. PICK j \in 1 .. l : cl[j] = y
      BY <1>1, <2>2
    <3>2. j < i
      BY <1>3, <2>2, <3>1
    <3>3. j \in 1 .. i - 1
      BY <1>1, <3>2
    <3> QED
      BY <3>1, <3>3
  <2>5. f \in Bijection(1 .. i - 1, T)
    BY <1>4, <2>1, <2>3, <2>4 DEF Bijection, Injection, Surjection, IsInjective
  <2>6. Cardinality(T) = i - 1
    BY <2>1, <2>5, Counted
  <2>7. cl[i] \in C /\ RankOf[cl[i]] = 1 + Cardinality(T)
    BY <1>1, <1>2 DEF T
  <2> QED
    BY <1>1, <2>6, <2>7
<1>7. \A x \in C : RankOf[x] \in 1 .. l /\ cl[RankOf[x]] = x
  BY <1>1, <1>6
<1> QED
  BY <1>1, <1>2, <1>5, <1>6, <1>7 DEF RanksItems, l, C

-----------------------------------------------------------------------------
(***************************************************************************)
(* The invariant.  While the ranker runs it says how far the plan has got; *)
(* from then on the plan stays what it is, the compression loop keeps its  *)
(* own invariant (LoopInv), and the answer is built from what it left.     *)
(***************************************************************************)
Judging ==
  /\ items = <<>> /\ counter = 0
  /\ at \in 1 .. Len(input.chains) + 1
  /\ \E g : Judged(input, candidates, at - 1, g)

\* The loop has not run yet.
Fresh == stage = "seed" /\ idx = 1 /\ starts = {} /\ overflow = NoOverflow

Ranked == \E cl : Designed(Claims, cl, items)

Narrow == [kind |-> "narrow", report |-> overflow]

Projected ==
  /\ stage = "done"
  /\ best = [m \in RankedNodes |->
               Max({prio[i] : i \in {k \in DOMAIN items : items[k].link[1] = m}})]
  /\ overflow # NoOverflow => Narrow \in warnings

Planned ==
  {TaskOf(m, RRNodes(best, NodeBudget, SliceOf(platform))) : m \in DOMAIN best}
    \cup DefaultTasks

Placed ==
  /\ Range(tasks) = Planned
  /\ \A t \in UnmitigatedTies(best, NodeBudget, SliceOf(platform)) : Tie(t) \in warnings

IInv ==
  /\ input \in Inputs
  /\ pc \in {"judge", "walk", "realize", "compress", "place", "done", "error"}
  /\ pc = "judge" => Judging
  /\ pc = "walk" => Walking(input, candidates, at, pos, items, counter)
  /\ pc \in {"judge", "walk", "realize"} => Fresh
  /\ pc \in {"realize", "compress", "place", "done"} => Ranked
  /\ pc \in {"compress", "place", "done"} =>
       LoopInv /\ band = platform.band /\ ValidPosix(band)
  /\ pc \in {"place", "done"} => Projected
  /\ pc = "done" => Placed

LEMMA InitInv == Init => IInv
<1> SUFFICES ASSUME Init
             PROVE  IInv
  OBVIOUS
<1>1. input \in Inputs /\ pc = "judge" /\ Fresh
  BY DEF Init, Fresh
<1>2. \E g : Judged(input, <<>>, 0, g)
  BY <1>1, JudgeNone
<1>3. Len(input.chains) \in Nat
  BY <1>1, InputFacts
<1>4. candidates = <<>> /\ at = 1 /\ items = <<>> /\ counter = 0
  BY DEF Init
<1>5. at - 1 = 0 /\ at \in 1 .. Len(input.chains) + 1
  BY <1>3, <1>4
<1>6. Judging
  BY <1>2, <1>4, <1>5 DEF Judging
<1> QED
  BY <1>1, <1>6 DEF IInv


-----------------------------------------------------------------------------
(***************************************************************************)
(* The ranker's steps.                                                     *)
(***************************************************************************)
LEMMA FreshStays ==
  ASSUME Fresh, UNCHANGED compressing
  PROVE  Fresh'
BY DEF Fresh, compressing

LEMMA AdmitInv ==
  ASSUME IInv, Admit
  PROVE  IInv'
<1> DEFINE c == input.chains[at]
<1>1. /\ input \in Inputs /\ Judging /\ Fresh /\ pc = "judge" /\ at <= Len(input.chains)
      /\ Feasible(c) /\ candidates' = Append(candidates, c) /\ at' = at + 1
      /\ pc' = pc /\ input' = input /\ counter' = counter /\ items' = items
      /\ UNCHANGED compressing
  BY DEF IInv, Admit, args
<1>2. Fresh'
  BY <1>1, FreshStays
<1>3. Len(input.chains) \in Nat /\ at \in 1 .. Len(input.chains)
  BY <1>1, InputFacts DEF Judging
<1>4. PICK g : Judged(input, candidates, at - 1, g)
  BY <1>1 DEF Judging
<1> HIDE DEF c
<1>5. \E h : Judged(input, Append(candidates, c), at, h)
  BY <1>1, <1>3, <1>4, JudgeFeasible DEF c
<1>6. at' - 1 = at /\ at' \in 1 .. Len(input.chains) + 1
  BY <1>1, <1>3
<1>7. Judging'
  BY <1>1, <1>5, <1>6 DEF Judging
<1> QED
  BY <1>1, <1>2, <1>7 DEF IInv

LEMMA RejectInv ==
  ASSUME IInv, Reject
  PROVE  IInv'
<1>1. /\ input \in Inputs /\ Judging /\ Fresh /\ pc = "judge" /\ at <= Len(input.chains)
      /\ ~ Feasible(input.chains[at]) /\ candidates' = candidates /\ at' = at + 1
      /\ pc' = pc /\ input' = input /\ counter' = counter /\ items' = items
      /\ UNCHANGED compressing
  BY DEF IInv, Reject, args
<1>2. Fresh'
  BY <1>1, FreshStays
<1>3. Len(input.chains) \in Nat /\ at \in 1 .. Len(input.chains)
  BY <1>1, InputFacts DEF Judging
<1>4. PICK g : Judged(input, candidates, at - 1, g)
  BY <1>1 DEF Judging
<1>5. Judged(input, candidates, at, g)
  BY <1>1, <1>3, <1>4, JudgeInfeasible
<1>6. at' - 1 = at /\ at' \in 1 .. Len(input.chains) + 1
  BY <1>1, <1>3
<1>7. Judging'
  BY <1>1, <1>5, <1>6 DEF Judging
<1> QED
  BY <1>1, <1>2, <1>7 DEF IInv

LEMMA OrderChainsInv ==
  ASSUME IInv, OrderChains
  PROVE  IInv'
<1> DEFINE cs == SortedBy(candidates, ChainBefore)
<1>1. /\ input \in Inputs /\ Judging /\ Fresh /\ at > Len(input.chains)
      /\ candidates' = cs /\ at' = 1 /\ pos' = ElementsOf(cs, 1)
      /\ pc' = "walk" /\ input' = input /\ counter' = counter /\ items' = items
      /\ UNCHANGED compressing
  BY DEF IInv, OrderChains, args
<1>2. Fresh'
  BY <1>1, FreshStays
<1>3. Len(input.chains) \in Nat /\ at - 1 = Len(input.chains)
  BY <1>1, InputFacts DEF Judging
<1>4. PICK g : Judged(input, candidates, Len(input.chains), g)
  BY <1>1, <1>3 DEF Judging
<1>5. PICK h : Chosen(input, cs, h)
  BY <1>1, <1>4, ChainsAreChosen
<1> HIDE DEF cs
<1>6. Walking(input, cs, 1, ElementsOf(cs, 1), <<>>, 0)
  BY <1>1, <1>5, WalkBegins
<1>7. Walking(input, candidates, at, pos, items, counter)'
  BY <1>1, <1>6 DEF Judging
<1> QED
  BY <1>1, <1>2, <1>7 DEF IInv

LEMMA EmitSegmentInv ==
  ASSUME IInv, EmitSegment
  PROVE  IInv'
<1> DEFINE links == Reverse(candidates[at].elements[pos].links)
           more == [k \in DOMAIN links |-> [link |-> links[k], fine |-> counter,
                                            coarse |-> candidates[at].name, tie |-> NoTie]]
<1>1. /\ input \in Inputs /\ Fresh /\ pc = "walk" /\ pos > 0
      /\ Walking(input, candidates, at, pos, items, counter)
      /\ ~ IsBoundary(candidates[at].elements[pos])
      /\ items' = items \o more /\ counter' = counter + 1 /\ pos' = pos - 1
      /\ pc' = pc /\ input' = input /\ at' = at /\ candidates' = candidates
      /\ UNCHANGED compressing
  BY DEF IInv, EmitSegment, args, ChainItem
<1>2. Fresh'
  BY <1>1, FreshStays
<1>3. Walking(input, candidates, at, pos - 1, items \o more, counter + 1)
  BY <1>1, WalkOverSegment
<1> HIDE DEF more
<1>4. Walking(input, candidates, at, pos, items, counter)'
  BY <1>1, <1>3
<1> QED
  BY <1>1, <1>2, <1>4 DEF IInv

LEMMA EmitBoundaryRunInv ==
  ASSUME IInv, EmitBoundaryRun
  PROVE  IInv'
<1> DEFINE f == RunStart(candidates[at].elements, pos)
           run == SortedBy(SubSeq(candidates[at].elements, f, pos), RateMonotonic)
           more == [k \in DOMAIN run |-> [link |-> run[k].link, fine |-> counter,
                                          coarse |-> candidates[at].name, tie |-> NoTie]]
<1>1. /\ input \in Inputs /\ Fresh /\ pc = "walk" /\ pos > 0
      /\ Walking(input, candidates, at, pos, items, counter)
      /\ IsBoundary(candidates[at].elements[pos])
      /\ items' = items \o more /\ counter' = counter + 1 /\ pos' = f - 1
      /\ pc' = pc /\ input' = input /\ at' = at /\ candidates' = candidates
      /\ UNCHANGED compressing
  BY DEF IInv, EmitBoundaryRun, args, ChainItem
<1>2. Fresh'
  BY <1>1, FreshStays
<1>3. Walking(input, candidates, at, f - 1, items \o more, counter + 1)
  BY <1>1, WalkOverRun
<1> HIDE DEF more, f
<1>4. Walking(input, candidates, at, pos, items, counter)'
  BY <1>1, <1>3
<1> QED
  BY <1>1, <1>2, <1>4 DEF IInv

LEMMA NextChainInv ==
  ASSUME IInv, NextChain
  PROVE  IInv'
<1>1. /\ input \in Inputs /\ Fresh /\ pc = "walk" /\ pos = 0 /\ at <= Len(candidates)
      /\ Walking(input, candidates, at, pos, items, counter)
      /\ at' = at + 1 /\ pos' = ElementsOf(candidates, at + 1)
      /\ pc' = pc /\ input' = input /\ candidates' = candidates
      /\ items' = items /\ counter' = counter
      /\ UNCHANGED compressing
  BY DEF IInv, NextChain, args
<1>2. Fresh'
  BY <1>1, FreshStays
<1>3. Walking(input, candidates, at + 1, ElementsOf(candidates, at + 1), items, counter)
  BY <1>1, WalkGoesOn
<1>4. Walking(input, candidates, at, pos, items, counter)'
  BY <1>1, <1>3
<1> QED
  BY <1>1, <1>2, <1>4 DEF IInv

\* The claims are a matter of the input.
LEMMA ClaimsStay ==
  ASSUME input' = input
  PROVE  Claims' = Claims
<1>1. ChainClaims' = ChainClaims
  BY DEF ChainClaims, ChainClaim
<1>2. PathClaims' = PathClaims
  BY <1>1 DEF PathClaims, PathClaim
<1> QED
  BY <1>1, <1>2 DEF Claims

LEMMA RankedStays ==
  ASSUME Ranked, input' = input, items' = items
  PROVE  Ranked'
BY ClaimsStay DEF Ranked

LEMMA EmitRestInv ==
  ASSUME IInv, EmitRest
  PROVE  IInv'
<1> DEFINE facts == SortedBy(Facts, FactBefore)
<1>1. /\ input \in Inputs /\ Fresh /\ at > Len(candidates)
      /\ Walking(input, candidates, at, pos, items, counter)
      /\ items' = items \o RestItems(facts, counter)
      /\ pc' = "realize" /\ input' = input
      /\ UNCHANGED compressing
  BY DEF IInv, EmitRest, args, RestItems
<1> HIDE DEF facts
<1>2. Fresh'
  BY <1>1, FreshStays
<1>3. PICK w : Walked(input, ChainPlaces(input), w, items, counter)
  BY <1>1, WalkEnds
<1>4. PICK cl : Designed(Claims, cl, items \o RestItems(facts, counter))
  BY <1>1, <1>3, PlanIsDesigned DEF facts
<1>5. Designed(Claims, cl, items)'
  BY <1>1, <1>4, ClaimsStay
<1>6. Ranked'
  BY <1>5 DEF Ranked
<1> QED
  BY <1>1, <1>2, <1>6 DEF IInv

LEMMA RankInv ==
  ASSUME IInv, Rank
  PROVE  IInv'
BY AdmitInv, RejectInv, OrderChainsInv, EmitSegmentInv, EmitBoundaryRunInv, NextChainInv,
   EmitRestInv DEF Rank


-----------------------------------------------------------------------------
(***************************************************************************)
(* The steps of realize_posix.  What the ranker left is a plan the loop    *)
(* may be called with; the loop ends with a priority of the band for every *)
(* item, so that every node's best priority is a number of the band too.   *)
(***************************************************************************)
LEMMA ItemFacts ==
  ASSUME Ranked
  PROVE  /\ n = Len(items) /\ n \in Nat /\ DOMAIN items = 1 .. n
         /\ IsRankedPlan(items)
         /\ \A i \in 1 .. n : items[i] \in PlanItem
<1>1. PICK cl : Designed(Claims, cl, items)
  BY DEF Ranked
<1>2. items \in Seq(PlanItem) /\ IsRankedPlan(items)
  BY <1>1 DEF Designed
<1> QED
  BY <1>2 DEF n

LEMMA PlanIsGiven ==
  ASSUME Ranked, ValidPosix(band)
  PROVE  Given
<1>1. \A i \in 1 .. n : items[i].fine \in Nat
  BY ItemFacts DEF PlanItem
<1>2. band.min \in Int /\ band.max \in Int /\ band.min <= band.max
  BY DEF ValidPosix, PosixPriorities
<1> QED
  BY <1>1, <1>2, ItemFacts DEF Given

LEMMA AcceptBandInv ==
  ASSUME IInv, AcceptBand
  PROVE  IInv'
<1>1. /\ input \in Inputs /\ Fresh /\ Ranked /\ pc' = "compress"
      /\ BandVerdict(platform) = "ok" /\ band' = platform.band
      /\ platform' = platform /\ input' = input /\ items' = items
      /\ stage' = stage /\ idx' = idx /\ starts' = starts
  BY DEF IInv, AcceptBand, args
<1>2. ValidPosix(platform.band)
  BY <1>1 DEF BandVerdict
<1>3. Ranked'
  BY <1>1, RankedStays
<1>4. ValidPosix(band)' /\ (band = platform.band)'
  BY <1>1, <1>2
<1>5. (Ranked /\ ValidPosix(band) => Given)'
  BY PlanIsGiven, PTL
<1>6. (Given /\ stage = "seed" /\ idx = 1 /\ starts = {} => LoopInv)'
  BY StartInv, PTL
<1>7. LoopInv'
  BY <1>1, <1>3, <1>4, <1>5, <1>6 DEF Fresh
<1> QED
  BY <1>1, <1>3, <1>4, <1>7 DEF IInv

LEMMA RefuseBandInv ==
  ASSUME IInv, RefuseBand
  PROVE  IInv'
BY DEF IInv, RefuseBand, args

LEMMA CompressInv ==
  ASSUME IInv, Compress
  PROVE  IInv'
<1>1. /\ input \in Inputs /\ Ranked /\ LoopInv /\ band = platform.band /\ ValidPosix(band)
      /\ pc = "compress" /\ pc' = pc /\ platform' = platform /\ input' = input /\ Step
  BY DEF IInv, Compress, args
<1>2. LoopInv' /\ items' = items /\ band' = band
  BY <1>1, LoopStep
<1>3. Ranked'
  BY <1>1, <1>2, RankedStays
<1>4. ValidPosix(band)' /\ (band = platform.band)'
  BY <1>1, <1>2
<1> QED
  BY <1>1, <1>2, <1>3, <1>4 DEF IInv

LEMMA ProjectInv ==
  ASSUME IInv, Project
  PROVE  IInv'
<1>1. /\ input \in Inputs /\ Ranked /\ LoopInv /\ band = platform.band /\ ValidPosix(band)
      /\ stage = "done" /\ pc' = "place" /\ platform' = platform /\ input' = input
      /\ items' = items
      /\ stage' = stage /\ band' = band /\ idx' = idx /\ starts' = starts
      /\ prio' = prio /\ overflow' = overflow
      /\ best' = [m \in RankedNodes |->
                    Max({prio[i] : i \in {k \in DOMAIN items : items[k].link[1] = m}})]
      /\ warnings' = IF overflow = NoOverflow THEN warnings
                     ELSE warnings \cup {[kind |-> "narrow", report |-> overflow]}
  BY DEF IInv, Project, args, compressing
<1>2. LoopInv'
  BY <1>1, LoopStutter
<1>3. Ranked'
  BY <1>1, RankedStays
<1>4. ValidPosix(band)' /\ (band = platform.band)'
  BY <1>1
<1>5. Projected'
  <2>1. RankedNodes' = RankedNodes
    BY <1>1 DEF RankedNodes, Range
  <2>2. (overflow # NoOverflow => Narrow \in warnings)'
    BY <1>1 DEF Narrow
  <2>3. (best = [m \in RankedNodes |->
                   Max({prio[i] : i \in {k \in DOMAIN items : items[k].link[1] = m}})])'
    BY <1>1, <2>1
  <2> QED
    BY <1>1, <2>2, <2>3 DEF Projected
<1> QED
  BY <1>1, <1>2, <1>3, <1>4, <1>5 DEF IInv


\* What the compression loop leaves for the answer.
Ready ==
  /\ input \in Inputs /\ Ranked /\ LoopInv /\ Projected
  /\ band = platform.band /\ ValidPosix(band)

\* The items of a node.
ItemsOf(m) == {k \in 1 .. n : items[k].link[1] = m}

\* Every item has a priority of the band, an earlier one none that is lower.
LEMMA LevelsOfItems ==
  ASSUME Ready
  PROVE  /\ \A i \in 1 .. n : prio[i] \in band.min .. band.max /\ prio[i] \in 0 .. 99
         /\ \A i, j \in 1 .. n : i <= j => prio[j] <= prio[i]
<1>1. WithinBand(items, band, prio) /\ Descending(items, prio)
  BY DoneNoInversion DEF Ready, Projected
<1>2. n \in Nat /\ DOMAIN items = 1 .. n
  BY ItemFacts DEF Ready
<1>3. /\ band.min \in Int /\ band.max \in Int /\ 1 <= band.min /\ band.max <= 99
  BY DEF Ready, ValidPosix, PosixPriorities
<1>4. \A i \in 1 .. n : prio[i] \in band.min .. band.max
  BY <1>1, <1>2 DEF WithinBand
<1>5. \A i \in 1 .. n : prio[i] \in 0 .. 99
  BY <1>3, <1>4
<1>6. ASSUME NEW i \in 1 .. n, NEW j \in 1 .. n, i <= j
      PROVE  prio[j] <= prio[i]
  <2>1. i < j \/ i = j
    BY <1>2, <1>6
  <2>2. prio[i] \in Int
    BY <1>5
  <2> QED
    BY <1>1, <1>2, <2>1, <2>2 DEF Descending
<1> QED
  BY <1>4, <1>5, <1>6

\* A node has the priority of its first item.
LEMMA BestFacts ==
  ASSUME Ready
  PROVE  /\ DOMAIN best = RankedNodes
         /\ IsFiniteSet(RankedNodes) /\ RankedNodes \subseteq Nat
         /\ \A m : m \in RankedNodes <=> ItemsOf(m) # {}
         /\ \A m \in RankedNodes :
              /\ best[m] \in band.min .. band.max /\ best[m] \in 1 .. 99
              /\ Min(ItemsOf(m)) \in ItemsOf(m)
              /\ best[m] = prio[Min(ItemsOf(m))]
<1>1. n \in Nat /\ DOMAIN items = 1 .. n /\ \A i \in 1 .. n : items[i].link[1] \in Nat
  <2>1. \A i \in 1 .. n : items[i].link[1] \in Nat
    BY ItemFacts DEF Ready, PlanItem, Links
  <2> QED
    BY <2>1, ItemFacts DEF Ready
<1>2. RankedNodes = {items[i].link[1] : i \in 1 .. n}
  BY <1>1 DEF RankedNodes, Range
<1>3. /\ DOMAIN best = RankedNodes
      /\ \A m \in RankedNodes :
           best[m] = Max({prio[i] : i \in {k \in DOMAIN items : items[k].link[1] = m}})
  BY DEF Ready, Projected
<1>4. IsFiniteSet(RankedNodes)
  <2> DEFINE f == [i \in 1 .. n |-> items[i].link[1]]
  <2>1. f \in Surjection(1 .. n, RankedNodes)
    BY <1>2 DEF Surjection
  <2>2. IsFiniteSet(1 .. n)
    BY <1>1, FS_Interval
  <2> HIDE DEF f
  <2> QED
    BY <2>1, <2>2, FS_Surjection
<1>5. \A m : m \in RankedNodes <=> ItemsOf(m) # {}
  BY <1>2 DEF ItemsOf
<1>6. ASSUME NEW m \in RankedNodes
      PROVE  /\ best[m] \in band.min .. band.max /\ best[m] \in 1 .. 99
             /\ Min(ItemsOf(m)) \in ItemsOf(m)
             /\ best[m] = prio[Min(ItemsOf(m))]
  <2> DEFINE T == ItemsOf(m)
             P == {prio[i] : i \in T}
             f == Min(T)
  <2>1. T \subseteq Nat /\ T # {} /\ T \subseteq 1 .. n
    BY <1>1, <1>5 DEF ItemsOf
  <2>2. {k \in DOMAIN items : items[k].link[1] = m} = T
    BY <1>1 DEF ItemsOf
  <2>3. best[m] = Max(P)
    BY <1>3, <2>2
  <2> HIDE DEF T
  <2>4. f \in T /\ \A y \in T : f <= y
    BY <2>1, LeastInRange
  <2>5. P \subseteq 0 .. 99 /\ P # {}
    BY <2>1, LevelsOfItems
  <2> HIDE DEF P, f
  <2>6. Max(P) \in P /\ \A y \in P : y <= Max(P)
    BY <2>5, GreatestNatural
  <2>7. prio[f] \in P
    BY <2>4 DEF P
  <2>8. \A y \in P : y <= prio[f]
    BY <2>1, <2>4, LevelsOfItems DEF P
  <2>9. Max(P) = prio[f]
    <3>1. Max(P) <= prio[f] /\ prio[f] <= Max(P)
      BY <2>6, <2>7, <2>8
    <3>2. Max(P) \in 0 .. 99 /\ prio[f] \in 0 .. 99
      BY <2>5, <2>6, <2>7
    <3> QED
      BY <3>1, <3>2
  <2>10. prio[f] \in band.min .. band.max
    BY <2>1, <2>4, LevelsOfItems
  <2>11. prio[f] \in 1 .. 99
    BY <2>10 DEF Ready, ValidPosix, PosixPriorities
  <2> QED
    BY <2>3, <2>4, <2>9, <2>10, <2>11 DEF T, f
<1> QED
  BY <1>1, <1>2, <1>3, <1>4, <1>5, <1>6


\* Every node of the input stands in it once, under its name.
LEMMA NodeNames ==
  ASSUME input \in Inputs
  PROVE  /\ IsFiniteSet({nd.name : nd \in Range(input.nodes)})
         /\ {nd.name : nd \in Range(input.nodes)} \subseteq Nat
<1> DEFINE names == {nd.name : nd \in Range(input.nodes)}
           l == Len(input.nodes)
           f == [a \in 1 .. l |-> input.nodes[a].name]
<1>1. l \in Nat /\ DOMAIN input.nodes = 1 .. l /\ \A nd \in Range(input.nodes) : nd.name \in Nat
  BY InputFacts DEF IsNode
<1>2. names = {input.nodes[a].name : a \in 1 .. l}
  BY <1>1 DEF Range
<1>3. f \in Surjection(1 .. l, names)
  BY <1>2 DEF Surjection
<1>4. IsFiniteSet(1 .. l)
  BY <1>1, FS_Interval
<1> HIDE DEF f, l
<1>5. IsFiniteSet(names)
  BY <1>3, <1>4, FS_Surjection
<1> QED
  BY <1>1, <1>5

\* The tasks of the answer can be counted and compared.
LEMMA PlannedFacts ==
  ASSUME Ready
  PROVE  /\ IsFiniteSet(Planned)
         /\ \A t \in Planned : t.priority \in Int /\ t.name \in Int
<1> DEFINE rr == RRNodes(best, NodeBudget, SliceOf(platform))
           f == [m \in RankedNodes |-> TaskOf(m, rr)]
           own == {TaskOf(m, rr) : m \in DOMAIN best}
<1>1. own = {TaskOf(m, rr) : m \in RankedNodes} /\ IsFiniteSet(RankedNodes)
  BY BestFacts
<1> HIDE DEF rr
<1>2. f \in Surjection(RankedNodes, own)
  BY <1>1 DEF Surjection
<1>3. IsFiniteSet(own)
  <2> HIDE DEF f, own
  <2> QED
    BY <1>1, <1>2, FS_Surjection
<1>4. IsFiniteSet(DefaultTasks)
  <2>1. PICK t : DefaultTasks \subseteq {t}
    BY DEF DefaultTasks
  <2> QED
    BY <2>1, FS_Singleton, FS_Subset
<1>5. IsFiniteSet(Planned)
  <2> HIDE DEF own
  <2>1. IsFiniteSet(own \cup DefaultTasks)
    BY <1>3, <1>4, FS_Union
  <2> QED
    BY <2>1 DEF Planned, own, rr
<1>6. \A m \in RankedNodes : m \in Int /\ best[m] \in Int
  BY BestFacts
<1>7. \A t \in own : t.priority \in Int /\ t.name \in Int
  BY <1>1, <1>6 DEF TaskOf
<1>8. \A t \in DefaultTasks : t.priority \in Int /\ t.name \in Int
  BY DefaultTaskAssumption DEF DefaultTasks
<1> QED
  BY <1>5, <1>7, <1>8 DEF Planned, rr

\* Sorting the answer loses no task and adds none.
LEMMA TasksArePlanned ==
  ASSUME Ready
  PROVE  Range(SortedBy(SetToSeq(Planned), TaskBefore)) = Planned
<1> DEFINE s == SetToSeq(Planned)
           before == {ij \in (DOMAIN s) \X (DOMAIN s) : TaskBefore(s[ij[1]], s[ij[2]])}
<1>1. s \in Seq(Planned) /\ Range(s) = Planned
  BY PlannedFacts, SetToSeqFacts
<1>2. \A i \in DOMAIN s : s[i].priority \in Int /\ s[i].name \in Int
  BY <1>1, PlannedFacts DEF Range
<1> HIDE DEF s
<1>3. \A i, j \in DOMAIN s : <<i, j>> \in before <=> TaskBefore(s[i], s[j])
  OBVIOUS
<1> HIDE DEF before
<1>4. Orders(before, DOMAIN s)
  <2> SUFFICES ASSUME NEW i \in DOMAIN s, NEW j \in DOMAIN s, NEW k \in DOMAIN s
               PROVE  /\ <<i, j>> \in before => <<j, i>> \notin before
                      /\ <<i, j>> \notin before /\ <<j, k>> \notin before =>
                           <<i, k>> \notin before
    BY DEF Orders
  <2> QED
    BY <1>2, <1>3 DEF TaskBefore
<1>5. IsStablySorted(Arranged(s, DOMAIN s, before), Planned, s, before)
  BY <1>1, <1>4, SortedFacts
<1>6. Range(Arranged(s, DOMAIN s, before)) = Planned
  BY <1>1, <1>5 DEF IsStablySorted
<1>7. SortedBy(s, TaskBefore) = Arranged(s, DOMAIN s, before)
  BY DEF SortedBy, before
<1> QED
  BY <1>6, <1>7 DEF s


LEMMA PlaceInv ==
  ASSUME IInv, Place
  PROVE  IInv'
<1> DEFINE slice == SliceOf(platform)
<1>1. /\ input \in Inputs /\ Ranked /\ LoopInv /\ Projected
      /\ band = platform.band /\ ValidPosix(band)
      /\ pc' = "done" /\ platform' = platform /\ input' = input
      /\ items' = items /\ best' = best
      /\ stage' = stage /\ band' = band /\ idx' = idx /\ starts' = starts
      /\ prio' = prio /\ overflow' = overflow
      /\ warnings' = warnings \cup {Tie(t) : t \in UnmitigatedTies(best, NodeBudget, slice)}
      /\ tasks' = SortedBy(SetToSeq(Planned), TaskBefore)
  BY DEF IInv, Place, args, compressing, Planned
<1>2. LoopInv'
  BY <1>1, LoopStutter
<1>3. Ranked'
  BY <1>1, RankedStays
<1>4. ValidPosix(band)' /\ (band = platform.band)'
  BY <1>1
<1>5. RankedNodes' = RankedNodes /\ NodeBudget' = NodeBudget /\ SliceOf(platform)' = slice
  BY <1>1 DEF RankedNodes, Range, NodeBudget
<1>6. Projected'
  BY <1>1, <1>5 DEF Projected, Narrow
<1>7. Planned' = Planned
  BY <1>1, <1>5 DEF Planned, DefaultTasks, TaskOf, RRNodes, Range
<1>8. Range(tasks') = Planned
  BY <1>1, TasksArePlanned DEF Ready
<1>9. Placed'
  <2>1. \A t \in UnmitigatedTies(best, NodeBudget, slice) : Tie(t) \in warnings'
    BY <1>1
  <2>2. UnmitigatedTies(best, NodeBudget, slice)' = UnmitigatedTies(best, NodeBudget, slice)
    BY <1>1, <1>5 DEF UnmitigatedTies
  <2> QED
    BY <1>1, <1>5, <1>7, <1>8, <2>1, <2>2 DEF Placed, Tie
<1> QED
  BY <1>1, <1>2, <1>3, <1>4, <1>6, <1>9 DEF IInv

LEMMA StutterInv ==
  ASSUME IInv, UNCHANGED vars
  PROVE  IInv'
<1>1. /\ pc' = pc /\ input' = input /\ platform' = platform /\ at' = at /\ pos' = pos
      /\ candidates' = candidates /\ counter' = counter /\ items' = items
      /\ stage' = stage /\ band' = band /\ idx' = idx /\ starts' = starts
      /\ prio' = prio /\ overflow' = overflow /\ best' = best
      /\ warnings' = warnings /\ tasks' = tasks
  BY DEF vars, args, ranking, compressing
<1>2. Fresh => Fresh'
  BY <1>1 DEF Fresh
<1>3. LoopInv => LoopInv'
  BY <1>1, LoopStutter
<1>4. Ranked => Ranked'
  BY <1>1, RankedStays
<1>5. Judging => Judging'
  BY <1>1 DEF Judging
<1>6. /\ Walking(input, candidates, at, pos, items, counter) =>
           Walking(input, candidates, at, pos, items, counter)'
      /\ ValidPosix(band) => ValidPosix(band)'
  BY <1>1
<1>7. RankedNodes' = RankedNodes /\ NodeBudget' = NodeBudget
  BY <1>1 DEF RankedNodes, NodeBudget
<1>8. Projected => Projected'
  BY <1>1, <1>7 DEF Projected, Narrow
<1>9. Planned' = Planned
  BY <1>1, <1>7 DEF Planned, DefaultTasks, TaskOf
<1>10. Placed => Placed'
  BY <1>1, <1>7, <1>9 DEF Placed
<1> QED
  BY <1>1, <1>2, <1>3, <1>4, <1>5, <1>6, <1>8, <1>10 DEF IInv

\* The invariant of the whole call, from the declared chains to the answer.
THEOREM Invariance == Spec => []IInv
<1>1. Init => IInv
  BY InitInv
<1>2. IInv /\ [Next]_vars => IInv'
  <2> SUFFICES ASSUME IInv, [Next]_vars
               PROVE  IInv'
    OBVIOUS
  <2>1. CASE Rank
    BY <2>1, RankInv
  <2>2. CASE Realize
    BY <2>2, RefuseBandInv, AcceptBandInv, CompressInv, ProjectInv, PlaceInv DEF Realize
  <2>3. CASE Returned \/ UNCHANGED vars
    BY <2>3, StutterInv DEF Returned
  <2> QED
    BY <2>1, <2>2, <2>3 DEF Next
<1> QED
  BY <1>1, <1>2, PTL DEF Spec

-----------------------------------------------------------------------------
(***************************************************************************)
(* What the invariant says of the properties.                              *)
(***************************************************************************)
LEMMA RankedDesign ==
  ASSUME IInv
  PROVE  RankedAsDesigned
<1> SUFFICES ASSUME pc = "realize"
             PROVE  /\ IsRankedPlan(items)
                    /\ Len(items) = Cardinality(DOMAIN RankOf)
                    /\ \A x \in DOMAIN RankOf :
                         /\ items[RankOf[x]].link = x.link
                         /\ \A y \in DOMAIN RankOf :
                              items[RankOf[x]].fine = items[RankOf[y]].fine
                                <=> x.group = y.group
  BY DEF RankedAsDesigned
<1>1. PICK cl : Designed(Claims, cl, items)
  BY DEF IInv, Ranked
<1>2. RanksItems(cl)
  BY <1>1, RanksArePositions
<1>3. /\ Len(items) \in Nat /\ DOMAIN items = 1 .. Len(items)
      /\ DOMAIN RankOf = Claims /\ Cardinality(Claims) = Len(items)
      /\ \A x \in Claims : RankOf[x] \in 1 .. Len(items) /\ cl[RankOf[x]] = x
  BY <1>2 DEF RanksItems
<1>4. /\ IsRankedPlan(items)
      /\ \A i \in 1 .. Len(items) : items[i].link = cl[i].link
      /\ \A i, j \in 1 .. Len(items) : items[i].fine = items[j].fine <=> cl[i].group = cl[j].group
  BY <1>1, <1>3 DEF Designed
<1> HIDE DEF RankOf
<1> QED
  BY <1>3, <1>4

\* What the property asks of the answer, with the state it looks at.
LEMMA DoneState ==
  ASSUME IInv, pc = "done"
  PROVE  Ready /\ Placed /\ stage = "done"
BY DEF IInv, Ready, Projected

LEMMA DoneForeignTies ==
  ASSUME IInv
  PROVE  ForeignTiesAreReported
<1> SUFFICES ASSUME pc = "done", NEW x \in DOMAIN RankOf, NEW y \in DOMAIN RankOf,
                    prio[RankOf[x]] = prio[RankOf[y]], x.owner # y.owner
             PROVE  \E w \in warnings : w.kind = "narrow"
  BY DEF ForeignTiesAreReported
<1>1. /\ Ranked /\ LoopInv /\ stage = "done"
      /\ overflow # NoOverflow => Narrow \in warnings
  BY DoneState DEF Ready, Projected
<1>2. PICK cl : Designed(Claims, cl, items)
  BY <1>1 DEF Ranked
<1>3. RanksItems(cl)
  BY <1>2, RanksArePositions
<1> DEFINE i == RankOf[x]
           j == RankOf[y]
<1>4. /\ Len(items) \in Nat /\ DOMAIN items = 1 .. Len(items)
      /\ i \in 1 .. Len(items) /\ cl[i] = x /\ j \in 1 .. Len(items) /\ cl[j] = y
  BY <1>3 DEF RanksItems
<1> HIDE DEF i, j
<1>5. ~ SameClass(items, i, j) /\ ~ SameClass(items, j, i)
  BY <1>2, <1>4 DEF Designed
<1>6. i < j \/ j < i
  <2>1. i # j
    BY <1>4
  <2> QED
    BY <1>4, <2>1
<1>7. prio[i] = prio[j]
  BY DEF i, j
<1>8. CrossTiesReported(items, band, prio, overflow)
  BY <1>1, DoneCrossTies
<1>9. overflow # NoOverflow
  BY <1>4, <1>5, <1>6, <1>7, <1>8 DEF CrossTiesReported
<1> QED
  BY <1>1, <1>9 DEF Narrow


\* The node of a claim, read off its item.
LEMMA ItemsOfClaims ==
  ASSUME Ready, NEW m
  PROVE  /\ {RankOf[x] : x \in {y \in DOMAIN RankOf : y.link[1] = m}} = ItemsOf(m)
         /\ {y \in DOMAIN RankOf : y.link[1] = m} = {} <=> m \notin DOMAIN best
<1>1. PICK cl : Designed(Claims, cl, items)
  BY DEF Ready, Ranked
<1>2. RanksItems(cl)
  BY <1>1, RanksArePositions
<1>3. /\ n \in Nat /\ DOMAIN items = 1 .. n /\ DOMAIN RankOf = Claims
      /\ \A i \in 1 .. n : cl[i] \in Claims /\ RankOf[cl[i]] = i
      /\ \A x \in Claims : RankOf[x] \in 1 .. n /\ cl[RankOf[x]] = x
  BY <1>2 DEF RanksItems, n
<1>4. \A i \in 1 .. n : items[i].link = cl[i].link
  BY <1>1, <1>3 DEF Designed
<1> DEFINE mine == {y \in DOMAIN RankOf : y.link[1] = m}
<1>5. mine = {y \in Claims : y.link[1] = m}
  BY <1>3
<1> HIDE DEF RankOf, mine
<1>6. \A x \in mine : RankOf[x] \in ItemsOf(m)
  BY <1>3, <1>4, <1>5 DEF ItemsOf
<1>7. \A k \in ItemsOf(m) : cl[k] \in mine /\ RankOf[cl[k]] = k
  BY <1>3, <1>4, <1>5 DEF ItemsOf
<1>8. {RankOf[x] : x \in mine} = ItemsOf(m)
  BY <1>6, <1>7
<1>9. mine = {} <=> ItemsOf(m) = {}
  BY <1>6, <1>7
<1> QED
  BY <1>8, <1>9, BestFacts DEF mine

LEMMA DoneBestPath ==
  ASSUME IInv
  PROVE  BestPathDecides
<1> DEFINE names == {nd.name : nd \in Range(input.nodes)}
           Mine(m) == {x \in DOMAIN RankOf : x.link[1] = m}
<1> SUFFICES ASSUME pc = "done", NEW m \in names
             PROVE  \E t \in Range(tasks) :
                      /\ m \in t.members
                      /\ \A u \in Range(tasks) \ {t} : m \notin u.members
                      /\ IF Mine(m) = {} THEN t.name = DefaultTask /\ t.priority = 0
                         ELSE /\ t.priority = prio[Min({RankOf[x] : x \in Mine(m)})]
                              /\ t.priority \in platform.band.min .. platform.band.max
  BY DEF BestPathDecides
<1> DEFINE rr == RRNodes(best, NodeBudget, SliceOf(platform))
<1>1. Ready /\ Range(tasks) = Planned /\ band = platform.band
  BY DoneState DEF Placed, Ready
<1>2. /\ {RankOf[x] : x \in Mine(m)} = ItemsOf(m)
      /\ Mine(m) = {} <=> m \notin DOMAIN best
  BY <1>1, ItemsOfClaims
<1>3. Planned = {TaskOf(k, rr) : k \in DOMAIN best} \cup DefaultTasks
  BY DEF Planned
<1>4. \A k : TaskOf(k, rr).members = {k} /\ TaskOf(k, rr).priority = best[k]
  BY DEF TaskOf
<1>5. \A u \in DefaultTasks : /\ u.members = names \ DOMAIN best
                              /\ u.name = DefaultTask /\ u.priority = 0
  BY DEF DefaultTasks
<1>6. \A u, v \in DefaultTasks : u = v
  BY DEF DefaultTasks
<1>7. names \ DOMAIN best # {} => DefaultTasks # {}
  BY DEF DefaultTasks
<1> HIDE DEF rr, Mine, names
<1>8. CASE m \in DOMAIN best
  <2> DEFINE t == TaskOf(m, rr)
  <2>1. t \in Planned /\ m \in t.members /\ t.priority = best[m]
    BY <1>3, <1>4, <1>8
  <2>2. ASSUME NEW u \in Planned, m \in u.members
        PROVE  u = t
    <3>1. CASE u \in DefaultTasks
      BY <1>5, <1>8, <2>2, <3>1
    <3>2. CASE u \in {TaskOf(k, rr) : k \in DOMAIN best}
      BY <1>4, <2>2, <3>2
    <3> QED
      BY <1>3, <3>1, <3>2
  <2>3. best[m] = prio[Min(ItemsOf(m))] /\ best[m] \in band.min .. band.max
    BY <1>1, <1>8, BestFacts
  <2> HIDE DEF t
  <2> QED
    BY <1>1, <1>2, <1>8, <2>1, <2>2, <2>3
<1>9. CASE m \notin DOMAIN best
  <2>1. m \in names \ DOMAIN best
    BY <1>9
  <2>2. PICK t \in DefaultTasks : TRUE
    BY <1>7, <2>1
  <2>3. m \in t.members /\ t.name = DefaultTask /\ t.priority = 0
    BY <1>5, <2>1
  <2>4. ASSUME NEW u \in Planned, m \in u.members
        PROVE  u = t
    <3>1. CASE u \in DefaultTasks
      BY <1>6, <3>1
    <3>2. CASE u \in {TaskOf(k, rr) : k \in DOMAIN best}
      BY <1>4, <1>9, <2>4, <3>2
    <3> QED
      BY <1>3, <3>1, <3>2
  <2> QED
    BY <1>1, <1>2, <1>3, <1>9, <2>2, <2>3, <2>4
<1> QED
  BY <1>8, <1>9


\* The ranked nodes that share a priority with k.
TiedTo(k) == {m \in DOMAIN best : best[m] = best[k]}

\* A node rotates exactly when it is tied and a slice is useful for its tie.
Rotates(k) ==
  /\ Cardinality(TiedTo(k)) >= 2
  /\ SliceIsUseful(TiedTo(k), NodeBudget, SliceOf(platform))

\* rr_policy_for_ties finds the ties of the answer.
LEMMA TiesFound ==
  ASSUME Ready, NEW k \in DOMAIN best
  PROVE  /\ k \in TiedTo(k) /\ IsFiniteSet(TiedTo(k)) /\ Cardinality(TiedTo(k)) \in Nat
         /\ TiedTo(k) \in Ties(best) <=> Cardinality(TiedTo(k)) >= 2
         /\ k \in RRNodes(best, NodeBudget, SliceOf(platform)) <=> Rotates(k)
<1>1. IsFiniteSet(DOMAIN best)
  BY BestFacts
<1>2. k \in TiedTo(k) /\ IsFiniteSet(TiedTo(k)) /\ Cardinality(TiedTo(k)) \in Nat
  BY <1>1, FS_Subset, FS_CardinalityType DEF TiedTo
<1>3. Ties(best) = {t \in {TiedTo(m) : m \in DOMAIN best} : Cardinality(t) >= 2}
  BY DEF Ties, TiedTo
<1>4. TiedTo(k) \in Ties(best) <=> Cardinality(TiedTo(k)) >= 2
  BY <1>3
<1>5. \A t \in Ties(best) : k \in t => t = TiedTo(k)
  BY <1>3 DEF TiedTo
<1>6. k \in RRNodes(best, NodeBudget, SliceOf(platform)) <=> Rotates(k)
  BY <1>2, <1>4, <1>5 DEF RRNodes, Rotates
<1> QED
  BY <1>2, <1>4, <1>6

\* What is known of a node's timing is a number.
LEMMA NodeBudgetFacts ==
  ASSUME Ready, NEW m \in DOMAIN best
  PROVE  NodeBudget[m] \in Int \cup {NoPeriod}
<1> DEFINE mine == {x \in Range(input.nodes) : x.name = m}
           paths == UNION {Range(nd.paths) : nd \in mine}
           budgets == {PathBudget(p) : p \in paths} \ {NoPeriod}
<1>1. input \in Inputs
  BY DEF Ready
<1>2. NodeBudget[m] = IF budgets = {} THEN NoPeriod ELSE Min(budgets)
  BY DEF NodeBudget
<1>3. SUFFICES ASSUME budgets # {}
               PROVE  Min(budgets) \in Int
  BY <1>2
<1>4. PICK nd \in mine : TRUE
  BY <1>3
<1>5. \A x \in mine : x = nd
  <2>1. \A a, b \in DOMAIN input.nodes : input.nodes[a].name = input.nodes[b].name => a = b
    BY <1>1, InputFacts
  <2> QED
    BY <1>4, <2>1 DEF Range
<1>6. paths = Range(nd.paths)
  BY <1>4, <1>5
<1>7. /\ nd.paths \in Seq(Range(nd.paths))
      /\ \A p \in Range(nd.paths) : p.period \in Int \cup {NoPeriod}
                                    /\ p.latency \in Int \cup {NoPeriod}
  BY <1>1, <1>4, InputFacts DEF IsNode
<1>8. budgets \subseteq Int
  BY <1>6, <1>7 DEF PathBudget
<1>9. IsFiniteSet(budgets)
  <2> DEFINE l == Len(nd.paths)
             f == [i \in 1 .. l |-> PathBudget(nd.paths[i])]
             all == {PathBudget(p) : p \in Range(nd.paths)}
  <2>1. l \in Nat /\ DOMAIN nd.paths = 1 .. l
    BY <1>7
  <2>2. f \in Surjection(1 .. l, all)
    BY <2>1 DEF Surjection, Range
  <2>3. IsFiniteSet(1 .. l)
    BY <2>1, FS_Interval
  <2>4. budgets \subseteq all
    BY <1>6
  <2> HIDE DEF f, l, all, budgets
  <2>5. IsFiniteSet(all)
    BY <2>2, <2>3, FS_Surjection
  <2> QED
    BY <2>4, <2>5, FS_Subset
<1> HIDE DEF budgets
<1>10. \E x \in budgets : \A y \in budgets : x <= y
  BY <1>3, <1>8, <1>9, LeastElement
<1>11. Min(budgets) \in budgets
  BY <1>10, Zenon DEF Min
<1> QED
  BY <1>8, <1>11

\* The shortest of the known periods of a tie.
LEMMA ShortestKnown ==
  ASSUME Ready, NEW k \in DOMAIN best, NEW T,
         T = {NodeBudget[m] : m \in TiedTo(k)} \ {NoPeriod}, T # {}
  PROVE  Min(T) \in T
<1>1. TiedTo(k) \subseteq DOMAIN best /\ IsFiniteSet(TiedTo(k))
  BY TiesFound DEF TiedTo
<1>2. T \subseteq Int
  BY <1>1, NodeBudgetFacts
<1>3. IsFiniteSet(T)
  <2> DEFINE all == {NodeBudget[m] : m \in TiedTo(k)}
             f == [m \in TiedTo(k) |-> NodeBudget[m]]
  <2>1. f \in Surjection(TiedTo(k), all)
    BY DEF Surjection
  <2>2. T \subseteq all
    OBVIOUS
  <2> HIDE DEF f, all
  <2>3. IsFiniteSet(all)
    BY <1>1, <2>1, FS_Surjection
  <2> QED
    BY <2>2, <2>3, FS_Subset
<1>4. \E x \in T : \A y \in T : x <= y
  BY <1>2, <1>3, LeastElement
<1> QED
  BY <1>4, Zenon DEF Min

\* The tasks that share a priority with that of k, one for every tied node.
PeersOf(k, rr) ==
  {u \in {TaskOf(m, rr) : m \in DOMAIN best} \cup DefaultTasks :
     u.priority = best[k] /\ u.policy # "other"}

LEMMA PeersOfTask ==
  ASSUME Ready, NEW k \in DOMAIN best, NEW rr
  PROVE  /\ PeersOf(k, rr) = {TaskOf(m, rr) : m \in TiedTo(k)}
         /\ UNION {u.members : u \in PeersOf(k, rr)} = TiedTo(k)
         /\ Cardinality(PeersOf(k, rr)) = Cardinality(TiedTo(k))
<1>1. \A u \in DefaultTasks : u.policy = "other"
  BY DEF DefaultTasks
<1>2. \A m : /\ TaskOf(m, rr).policy # "other" /\ TaskOf(m, rr).priority = best[m]
             /\ TaskOf(m, rr).members = {m} /\ TaskOf(m, rr).name = m
  BY DEF TaskOf
<1>3. PeersOf(k, rr) = {TaskOf(m, rr) : m \in TiedTo(k)}
  BY <1>1, <1>2 DEF TiedTo, PeersOf
<1>4. UNION {u.members : u \in PeersOf(k, rr)} = TiedTo(k)
  BY <1>2, <1>3
<1> DEFINE f == [m \in TiedTo(k) |-> TaskOf(m, rr)]
<1>5. f \in Bijection(TiedTo(k), PeersOf(k, rr))
  BY <1>2, <1>3 DEF Bijection, Injection, Surjection, IsInjective
<1>6. ExistsBijection(TiedTo(k), PeersOf(k, rr))
  BY <1>5 DEF ExistsBijection
<1> HIDE DEF f
<1>7. IsFiniteSet(TiedTo(k))
  BY TiesFound
<1>8. Cardinality(PeersOf(k, rr)) = Cardinality(TiedTo(k))
  BY <1>6, <1>7, FS_Bijection
<1> QED
  BY <1>3, <1>4, <1>8


LEMMA DoneTies ==
  ASSUME IInv
  PROVE  TiesAreMitigated
<1> DEFINE slice == SliceOf(platform)
           rr == RRNodes(best, NodeBudget, slice)
           Peers(t) == {u \in Range(tasks) : u.priority = t.priority /\ u.policy # "other"}
           Tied(t) == UNION {u.members : u \in Peers(t)}
           Known(t) == {NodeBudget[m] : m \in Tied(t)} \ {NoPeriod}
<1> SUFFICES ASSUME pc = "done", NEW t \in Range(tasks)
             PROVE  CASE t.policy = "rr" -> /\ Cardinality(Peers(t)) > 1
                                            /\ \A u \in Peers(t) : u.policy = "rr"
                                            /\ slice # NoSlice
                                            /\ Known(t) # {} /\ slice < Min(Known(t))
                      [] t.policy = "fifo" ->
                           Cardinality(Peers(t)) > 1 => Tie(Tied(t)) \in warnings
                      [] OTHER -> Peers(t) = {}
  BY DEF TiesAreMitigated
<1>1. /\ Ready /\ Range(tasks) = Planned
      /\ \A x \in UnmitigatedTies(best, NodeBudget, slice) : Tie(x) \in warnings
  BY DoneState DEF Placed
<1>2. Planned = {TaskOf(m, rr) : m \in DOMAIN best} \cup DefaultTasks
  BY DEF Planned
<1>3. \A m \in DOMAIN best : /\ m \in rr <=> Rotates(m)
                             /\ best[m] \in 1 .. 99
  BY <1>1, TiesFound, BestFacts
<1>4. \A m : /\ TaskOf(m, rr).priority = best[m]
             /\ TaskOf(m, rr).policy = IF m \in rr THEN "rr" ELSE "fifo"
  BY DEF TaskOf
<1>5. \A u \in DefaultTasks : u.priority = 0 /\ u.policy = "other"
  BY DEF DefaultTasks
<1> HIDE DEF rr
<1>6. CASE t \in DefaultTasks
  <2>1. \A m \in DOMAIN best : best[m] # 0
    BY <1>3
  <2>2. Peers(t) = {}
    BY <1>1, <1>2, <1>4, <1>5, <1>6, <2>1
  <2>3. t.policy # "rr" /\ t.policy # "fifo"
    BY <1>5, <1>6
  <2> HIDE DEF Peers
  <2> QED
    BY <2>2, <2>3
<1>7. ASSUME NEW k \in DOMAIN best, t = TaskOf(k, rr)
      PROVE  CASE t.policy = "rr" -> /\ Cardinality(Peers(t)) > 1
                                     /\ \A u \in Peers(t) : u.policy = "rr"
                                     /\ slice # NoSlice
                                     /\ Known(t) # {} /\ slice < Min(Known(t))
               [] t.policy = "fifo" ->
                    Cardinality(Peers(t)) > 1 => Tie(Tied(t)) \in warnings
               [] OTHER -> Peers(t) = {}
  <2>1. t.priority = best[k] /\ t.policy = IF Rotates(k) THEN "rr" ELSE "fifo"
    BY <1>3, <1>4, <1>7
  <2>2. Peers(t) = PeersOf(k, rr)
    BY <1>1, <1>2, <2>1 DEF PeersOf
  <2>3. /\ Peers(t) = {TaskOf(m, rr) : m \in TiedTo(k)}
        /\ Tied(t) = TiedTo(k)
        /\ Cardinality(Peers(t)) = Cardinality(TiedTo(k))
    <3>1. /\ PeersOf(k, rr) = {TaskOf(m, rr) : m \in TiedTo(k)}
          /\ UNION {u.members : u \in PeersOf(k, rr)} = TiedTo(k)
          /\ Cardinality(PeersOf(k, rr)) = Cardinality(TiedTo(k))
      BY <1>1, PeersOfTask
    <3> HIDE DEF Peers
    <3> QED
      BY <2>2, <3>1 DEF Tied
  <2>4. /\ Cardinality(TiedTo(k)) \in Nat
        /\ TiedTo(k) \in Ties(best) <=> Cardinality(TiedTo(k)) >= 2
    BY <1>1, TiesFound
  <2>5. Known(t) = {NodeBudget[m] : m \in TiedTo(k)} \ {NoPeriod}
    BY <2>3
  <2> HIDE DEF Peers, Tied, Known
  <2>6. CASE Rotates(k)
    <3>1. Cardinality(Peers(t)) > 1
      BY <2>3, <2>4, <2>6 DEF Rotates
    <3>2. ASSUME NEW m \in TiedTo(k)
          PROVE  TaskOf(m, rr).policy = "rr"
      <4>1. m \in DOMAIN best /\ TiedTo(m) = TiedTo(k)
        BY DEF TiedTo
      <4> QED
        BY <1>3, <1>4, <2>6, <4>1 DEF Rotates
    <3>3. slice # NoSlice /\ Known(t) # {} /\ \A p \in Known(t) : slice < p
      BY <2>5, <2>6 DEF Rotates, SliceIsUseful, PeriodsOf
    <3>4. Min(Known(t)) \in Known(t)
      BY <1>1, <2>5, <3>3, ShortestKnown
    <3> QED
      BY <2>1, <2>3, <2>6, <3>1, <3>2, <3>3, <3>4
  <2>7. CASE ~ Rotates(k)
    <3>1. ASSUME Cardinality(Peers(t)) > 1
          PROVE  Tie(Tied(t)) \in warnings
      <4>1. Cardinality(TiedTo(k)) >= 2
        BY <2>3, <2>4, <3>1
      <4>2. TiedTo(k) \in UnmitigatedTies(best, NodeBudget, slice)
        BY <2>4, <2>7, <4>1 DEF Rotates, UnmitigatedTies
      <4> QED
        BY <1>1, <2>3, <4>2
    <3> QED
      BY <2>1, <2>7, <3>1
  <2> QED
    BY <2>6, <2>7
<1>8. t \in DefaultTasks \/ \E k \in DOMAIN best : t = TaskOf(k, rr)
  BY <1>1, <1>2
<1> QED
  BY <1>6, <1>7, <1>8

-----------------------------------------------------------------------------
(***************************************************************************)
(* Theorems.                                                               *)
(***************************************************************************)
\* chain_aware_rank: sorting the chains, walking them backwards, and bucketing the rest
\* ranks everything the way the design ranks it.
THEOREM RankingIsDesigned == Spec => []RankedAsDesigned
BY Invariance, RankedDesign, PTL

\* assign_priorities_compressed, fed by the ranker: claims of different owners share a
\* priority only when the caller hears of it.
THEOREM ForeignTiesAreTold == Spec => []ForeignTiesAreReported
BY Invariance, DoneForeignTies, PTL

\* realize_posix: a node runs at the level of its best path and in exactly one task.
THEOREM BestPathsDecide == Spec => []BestPathDecides
BY Invariance, DoneBestPath, PTL

\* rr_policy_for_ties: every tie rotates usefully or is reported.
THEOREM TiesRotateOrAreReported == Spec => []TiesAreMitigated
BY Invariance, DoneTies, PTL
=============================================================================
