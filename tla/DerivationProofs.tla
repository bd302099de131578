-------------------------- MODULE DerivationProofs --------------------------
(***************************************************************************)
(* Proofs about LongestRoute, for every model and every scope path of it,  *)
(* and about ChainDerivation, which takes one such route per scope path.   *)
(***************************************************************************)
EXTENDS ChainDerivation, StableSortProofs

SortProofs == INSTANCE TopologicalSortProofs WITH Graphs <- {}

-----------------------------------------------------------------------------
(***************************************************************************)
(* Numbers, finite sets and sequences.                                     *)
(***************************************************************************)

\* Whatever has a number has a least one.
LEMMA LeastNumber ==
  ASSUME NEW T, T \subseteq Nat, T # {}
  PROVE  \E x \in T : \A y \in T : x <= y
<1>1. PICK n \in T : TRUE
  OBVIOUS
<1> DEFINE U == {x \in T : x <= n}
<1>2. n \in Nat /\ U \subseteq T /\ n \in U /\ \A x \in U : x <= n
  BY <1>1
<1>3. IsFiniteSet(U)
  BY <1>2, FS_BoundedSetOfNaturals
<1>4. U \subseteq Int
  <2>1. \A x \in U : x \in Nat
    OBVIOUS
  <2> HIDE DEF U
  <2>2. \A x \in Nat : x \in Int
    OBVIOUS
  <2> QED
    BY <2>1, <2>2
<1>5. PICK x \in U : \A y \in U : x <= y
  BY <1>2, <1>3, <1>4, LeastElement
<1>6. \A y \in T : x <= y
  BY <1>2, <1>5
<1> QED
  BY <1>2, <1>5, <1>6

\* What holds of a number, and of the next one wherever it holds, holds up to the end.
LEMMA Climbs ==
  ASSUME NEW a \in Nat, NEW b \in Nat, NEW T, a \in T,
         \A k \in a .. b : k # b /\ k \in T => k + 1 \in T
  PROVE  a .. b \subseteq T
<1> SUFFICES ASSUME ~ (a .. b \subseteq T) PROVE FALSE
  OBVIOUS
<1> DEFINE U == {k \in a .. b : k \notin T}
<1>1. U # {} /\ U \subseteq Nat
  OBVIOUS
<1>2. PICK x \in U : \A y \in U : x <= y
  BY <1>1, LeastNumber
<1>3. x # a /\ x \in a .. b /\ x \notin T
  BY <1>2
<1>4. x - 1 \in a .. b /\ x - 1 # b /\ ~ (x <= x - 1) /\ x - 1 + 1 = x
  BY <1>3
<1>5. x - 1 \in T
  BY <1>2, <1>4
<1> QED
  BY <1>3, <1>4, <1>5

\* A finite set of numbers has a greatest and a least element.
LEMMA MaxFacts ==
  ASSUME NEW T, T \subseteq Int, IsFiniteSet(T), T # {}
  PROVE  Max(T) \in T /\ \A y \in T : y <= Max(T)
<1> DEFINE f == [x \in T |-> 0 - x]
           U == {0 - x : x \in T}
<1>1. f \in Surjection(T, U)
  BY DEF Surjection
<1>2. IsFiniteSet(U) /\ U # {} /\ U \subseteq Int
  <2>1. IsFiniteSet(U)
    BY <1>1, FS_Surjection
  <2>2. \A x \in T : 0 - x \in Int
    OBVIOUS
  <2> QED
    BY <2>1, <2>2
<1>3. PICK u \in U : \A y \in U : u <= y
  BY <1>2, LeastElement
<1>4. PICK x \in T : u = 0 - x
  BY <1>3
<1>5. \A y \in T : 0 - y \in U
  OBVIOUS
<1>6. \A y \in T : x >= y
  BY <1>3, <1>4, <1>5
<1>7. Max(T) \in T /\ \A y \in T : Max(T) >= y
  BY <1>6, Zenon DEF Max
<1> QED
  BY <1>7

LEMMA MinFacts ==
  ASSUME NEW T, T \subseteq Int, IsFiniteSet(T), T # {}
  PROVE  Min(T) \in T /\ \A y \in T : Min(T) <= y
<1>1. \E x \in T : \A y \in T : x <= y
  BY LeastElement
<1> QED
  BY <1>1, Zenon DEF Min

\* The elements of a sequence.
LEMMA SeqFacts ==
  ASSUME NEW s, IsSeq(s)
  PROVE  /\ Len(s) \in Nat /\ DOMAIN s = 1 .. Len(s)
         /\ IsFiniteSet(DOMAIN s)
         /\ \A i \in DOMAIN s : s[i] \in ToSet(s)
         /\ \A x \in ToSet(s) : \E i \in DOMAIN s : s[i] = x
         /\ IsFiniteSet(ToSet(s))
<1>1. Len(s) \in Nat /\ DOMAIN s = 1 .. Len(s)
  BY DEF IsSeq
<1>2. IsFiniteSet(DOMAIN s)
  BY <1>1, FS_Interval
<1>3. /\ \A i \in DOMAIN s : s[i] \in ToSet(s)
      /\ \A x \in ToSet(s) : \E i \in DOMAIN s : s[i] = x
  BY DEF ToSet
<1>4. [i \in DOMAIN s |-> s[i]] \in Surjection(DOMAIN s, ToSet(s))
  BY <1>3 DEF Surjection
<1> QED
  BY <1>1, <1>2, <1>3, <1>4, FS_Surjection

\* The steps a to b of a function that is defined step by step, with values in V.
StepsWithin(step, a, b, V) == \A k \in a .. b : \A v \in V : step[<<k, v>>] \in V

TakesSteps(f, step, a, b) == \A k \in a .. b : f[k] = step[<<k, f[k - 1]>>]

\* Such a function exists.
LEMMA RecursionExists ==
  ASSUME NEW m \in Nat, NEW V, NEW base \in V, NEW step, StepsWithin(step, 1, m, V)
  PROVE  \E f \in [0 .. m -> V] : f[0] = base /\ TakesSteps(f, step, 1, m)
<1> USE DEF StepsWithin, TakesSteps
<1> DEFINE Defines(i, f) ==
             f[0] = base /\ \A k \in 1 .. i : f[k] = step[<<k, f[k - 1]>>]
           T == {i \in 0 .. m : \E f \in [0 .. i -> V] : Defines(i, f)}
<1>1. 0 \in T
  <2>1. [k \in 0 .. 0 |-> base] \in [0 .. 0 -> V] /\ Defines(0, [k \in 0 .. 0 |-> base])
    OBVIOUS
  <2>2. 0 \in 0 .. m
    OBVIOUS
  <2> HIDE DEF Defines
  <2> QED
    BY <2>1, <2>2
<1>2. ASSUME NEW i \in 0 .. m, i # m, i \in T
      PROVE  i + 1 \in T
  <2>1. PICK g \in [0 .. i -> V] : Defines(i, g)
    BY <1>2
  <2> DEFINE f == [k \in 0 .. i + 1 |-> IF k = i + 1 THEN step[<<i + 1, g[i]>>] ELSE g[k]]
  <2>2. i \in Nat /\ i + 1 \in 1 .. m /\ i \in 0 .. i /\ i + 1 \in 0 .. m
    BY <1>2
  <2>3. \A k \in 0 .. i + 1 : k # i + 1 => k \in 0 .. i
    BY <2>2
  <2>4. f \in [0 .. i + 1 -> V]
    <3>1. g[i] \in V
      BY <2>2
    <3>2. step[<<i + 1, g[i]>>] \in V
      BY <2>2, <3>1
    <3> QED
      BY <2>3, <3>2
  <2>5. ASSUME NEW k \in 1 .. i + 1
        PROVE  f[k] = step[<<k, f[k - 1]>>]
    <3>1. k - 1 \in 0 .. i /\ k - 1 # i + 1 /\ k - 1 \in 0 .. i + 1 /\ k \in 0 .. i + 1
      BY <2>2
    <3>2. f[k - 1] = g[k - 1]
      BY <3>1
    <3>3. CASE k = i + 1
      <4>1. k - 1 = i
        BY <3>3, <2>2
      <4> QED
        BY <3>1, <3>2, <3>3, <4>1
    <3>4. CASE k # i + 1
      <4>1. k \in 1 .. i
        BY <3>4, <2>2
      <4> QED
        BY <2>1, <3>1, <3>2, <3>4, <4>1
    <3> QED
      BY <3>3, <3>4
  <2>6. f[0] = base
    <3>1. 0 \in 0 .. i + 1 /\ 0 # i + 1
      BY <2>2
    <3> QED
      BY <2>1, <3>1
  <2>7. Defines(i + 1, f)
    BY <2>5, <2>6
  <2> QED
    BY <2>2, <2>4, <2>7
<1>3. 0 .. m \subseteq T
  <2> HIDE DEF T
  <2> QED
    BY <1>1, <1>2, Climbs
<1>4. m \in T
  BY <1>3
<1> QED
  BY <1>4

-----------------------------------------------------------------------------
(***************************************************************************)
(* Lists of tuples in their order.                                         *)
(***************************************************************************)
OrdersTuples(S) ==
  /\ \A x \in S : ~ LexLess(x, x)
  /\ \A x, y \in S : LexLess(x, y) => ~ LexLess(y, x)
  /\ \A x, y, z \in S : LexLess(x, y) /\ LexLess(y, z) => LexLess(x, z)
  /\ \A x, y \in S : x # y => LexLess(x, y) \/ LexLess(y, x)

LEMMA LexLessOrdersTuples ==
  ASSUME NEW n \in Nat, NEW S, S \subseteq [1 .. n -> Nat]
  PROVE  OrdersTuples(S)
<1>1. \A x \in S : DOMAIN x = 1 .. n /\ \A i \in 1 .. n : x[i] \in Nat
  OBVIOUS
<1>2. ASSUME NEW x \in S, NEW y \in S, NEW z \in S, LexLess(x, y), LexLess(y, z)
      PROVE  LexLess(x, z)
  <2>1. PICK i \in 1 .. n : (\A j \in 1 .. i - 1 : x[j] = y[j]) /\ x[i] < y[i]
    BY <1>1, <1>2 DEF LexLess
  <2>2. PICK k \in 1 .. n : (\A j \in 1 .. k - 1 : y[j] = z[j]) /\ y[k] < z[k]
    BY <1>1, <1>2 DEF LexLess
  <2>3. x[i] \in Nat /\ y[i] \in Nat /\ z[i] \in Nat /\ x[k] \in Nat /\ y[k] \in Nat /\ z[k] \in Nat
    BY <1>1
  <2>4. CASE i < k
    <3>1. (\A j \in 1 .. i - 1 : x[j] = z[j]) /\ x[i] < z[i]
      <4>1. \A j \in 1 .. i - 1 : j \in 1 .. k - 1
        BY <2>4
      <4>2. i \in 1 .. k - 1
        BY <2>4
      <4> QED
        BY <2>1, <2>2, <2>3, <4>1, <4>2
    <3> QED
      BY <1>1, <3>1 DEF LexLess
  <2>5. CASE i = k
    <3>1. (\A j \in 1 .. i - 1 : x[j] = z[j]) /\ x[i] < z[i]
      BY <2>1, <2>2, <2>3, <2>5
    <3> QED
      BY <1>1, <3>1 DEF LexLess
  <2>6. CASE k < i
    <3>1. (\A j \in 1 .. k - 1 : x[j] = z[j]) /\ x[k] < z[k]
      <4>1. \A j \in 1 .. k - 1 : j \in 1 .. i - 1
        BY <2>6
      <4>2. k \in 1 .. i - 1
        BY <2>6
      <4> QED
        BY <2>1, <2>2, <2>3, <4>1, <4>2
    <3> QED
      BY <1>1, <3>1 DEF LexLess
  <2> QED
    BY <2>4, <2>5, <2>6
<1>3. \A x \in S : ~ LexLess(x, x)
  <2>1. \A x \in S : \A i \in 1 .. n : ~ (x[i] < x[i])
    BY <1>1
  <2> QED
    BY <1>1, <2>1 DEF LexLess
<1>4. ASSUME NEW x \in S, NEW y \in S, x # y
      PROVE  LexLess(x, y) \/ LexLess(y, x)
  <2> DEFINE D == {i \in 1 .. n : x[i] # y[i]}
  <2>1. D # {}
    <3>1. SUFFICES ASSUME \A i \in 1 .. n : x[i] = y[i] PROVE x = y
      BY <1>4
    <3>2. x \in [1 .. n -> Nat] /\ y \in [1 .. n -> Nat]
      OBVIOUS
    <3> QED
      BY <3>1, <3>2
  <2>2. D \subseteq Nat
    OBVIOUS
  <2>3. PICK i \in D : \A j \in D : i <= j
    BY <2>1, <2>2, LeastNumber
  <2>4. i \in 1 .. n /\ x[i] # y[i] /\ x[i] \in Nat /\ y[i] \in Nat
    BY <1>1, <2>3
  <2>5. \A j \in 1 .. i - 1 : x[j] = y[j]
    <3>1. \A j \in 1 .. i - 1 : j \in 1 .. n /\ ~ (i <= j)
      BY <2>4
    <3> QED
      BY <2>3, <3>1
  <2>6. x[i] < y[i] \/ y[i] < x[i]
    BY <2>4
  <2> HIDE DEF D
  <2> QED
    BY <1>1, <2>4, <2>5, <2>6 DEF LexLess
<1>5. \A x, y \in S : LexLess(x, y) => ~ LexLess(y, x)
  BY <1>2, <1>3
<1> QED
  BY <1>2, <1>3, <1>4, <1>5 DEF OrdersTuples

\* The list has every tuple of the set, and every one once.
LEMMA ListedFacts ==
  ASSUME NEW S, IsFiniteSet(S), OrdersTuples(S)
  PROVE  /\ Cardinality(S) \in Nat
         /\ Listed(S) \in Seq(S)
         /\ Len(Listed(S)) = Cardinality(S) /\ DOMAIN Listed(S) = 1 .. Cardinality(S)
         /\ \A x \in S : \E k \in 1 .. Cardinality(S) : Listed(S)[k] = x
         /\ \A j, k \in 1 .. Cardinality(S) : Listed(S)[j] = Listed(S)[k] => j = k
<1> DEFINE m == Cardinality(S)
           Below(x) == {y \in S : LexLess(y, x)}
           rank == [x \in S |-> Cardinality(Below(x)) + 1]
           Nth(k) == CHOOSE x \in S : Cardinality(Below(x)) = k - 1
<1>1. m \in Nat /\ IsFiniteSet(1 .. m) /\ Cardinality(1 .. m) = m
  <2>1. m \in Nat
    BY FS_CardinalityType
  <2> QED
    BY <2>1, FS_Interval
<1>2. \A x \in S : Below(x) \in SUBSET S /\ x \notin Below(x)
  BY DEF OrdersTuples
<1>3. \A x \in S : IsFiniteSet(Below(x)) /\ Cardinality(Below(x)) \in Nat
  BY <1>2, FS_Subset, FS_CardinalityType
<1>4. \A x \in S : rank[x] \in 1 .. m
  <2> SUFFICES ASSUME NEW x \in S PROVE rank[x] \in 1 .. m
    OBVIOUS
  <2>1. Cardinality(Below(x)) <= m /\ Cardinality(Below(x)) # m
    BY <1>2, FS_Subset
  <2>2. rank[x] = Cardinality(Below(x)) + 1 /\ Cardinality(Below(x)) \in Nat
    BY <1>3
  <2> HIDE DEF rank, Below, m
  <2> QED
    BY <1>1, <2>1, <2>2
<1>5. ASSUME NEW x \in S, NEW y \in S, LexLess(x, y)
      PROVE  rank[x] < rank[y]
  <2>1. Below(x) \in SUBSET Below(y)
    BY <1>5 DEF OrdersTuples
  <2>2. x \in Below(y) /\ x \notin Below(x)
    BY <1>2, <1>5
  <2>3. Cardinality(Below(x)) <= Cardinality(Below(y))
        /\ Cardinality(Below(x)) # Cardinality(Below(y))
    BY <1>3, <2>1, <2>2, FS_Subset
  <2> QED
    BY <1>3, <2>3
<1>6. \A x, y \in S : rank[x] = rank[y] => x = y
  <2> SUFFICES ASSUME NEW x \in S, NEW y \in S, rank[x] = rank[y], x # y PROVE FALSE
    OBVIOUS
  <2>1. LexLess(x, y) \/ LexLess(y, x)
    BY DEF OrdersTuples
  <2>2. rank[x] \in Nat /\ rank[y] \in Nat
    BY <1>4
  <2> HIDE DEF rank
  <2> QED
    BY <1>5, <2>1, <2>2
<1>7. rank \in [S -> 1 .. m]
  BY <1>4
<1>8. rank \in Injection(S, 1 .. m)
  <2> HIDE DEF rank, m
  <2> QED
    BY <1>6, <1>7 DEF Injection, IsInjective
<1>9. rank \in Surjection(S, 1 .. m)
  BY <1>1, <1>8, FS_Injection
<1>10. \A k \in 1 .. m : \E x \in S : rank[x] = k
  <2> HIDE DEF rank, m
  <2> QED
    BY <1>9 DEF Surjection
<1>11. ASSUME NEW k \in 1 .. m
       PROVE  Listed(S)[k] \in S /\ rank[Listed(S)[k]] = k
  <2>1. Listed(S)[k] = Nth(k)
    BY DEF Listed
  <2>2. \E x \in S : Cardinality(Below(x)) = k - 1
    <3>1. PICK x \in S : rank[x] = k
      BY <1>10
    <3>2. Cardinality(Below(x)) \in Nat /\ Cardinality(Below(x)) + 1 = k
      BY <1>3, <3>1
    <3> HIDE DEF Below
    <3>3. Cardinality(Below(x)) = k - 1
      BY <3>2
    <3> QED
      BY <3>3
  <2>3. Nth(k) \in S /\ Cardinality(Below(Nth(k))) = k - 1
    <3> HIDE DEF Below
    <3> QED
      BY <2>2
  <2> HIDE DEF Nth
  <2>4. rank[Nth(k)] = Cardinality(Below(Nth(k))) + 1
    BY <2>3
  <2> HIDE DEF rank, Below
  <2> QED
    BY <1>1, <2>1, <2>3, <2>4
<1>12. Listed(S) \in [1 .. m -> S]
  <2>1. Listed(S) = [k \in 1 .. m |-> Nth(k)]
    BY DEF Listed
  <2> HIDE DEF Nth
  <2>2. \A k \in 1 .. m : Nth(k) \in S
    BY <1>11, <2>1
  <2> QED
    BY <2>1, <2>2
<1>13. Listed(S) \in Seq(S) /\ Len(Listed(S)) = m /\ DOMAIN Listed(S) = 1 .. m
  BY <1>1, <1>12
<1>14. \A x \in S : \E k \in 1 .. m : Listed(S)[k] = x
  <2> SUFFICES ASSUME NEW x \in S PROVE \E k \in 1 .. m : Listed(S)[k] = x
    OBVIOUS
  <2>1. rank[x] \in 1 .. m
    BY <1>4
  <2> QED
    BY <1>6, <1>11, <2>1
<1>15. \A j, k \in 1 .. m : Listed(S)[j] = Listed(S)[k] => j = k
  BY <1>11
<1> QED
  BY <1>1, <1>13, <1>14, <1>15 DEF m

-----------------------------------------------------------------------------
(***************************************************************************)
(* What a model has.                                                       *)
(***************************************************************************)
LEMMA NodeFacts ==
  ASSUME IsView(view)
  PROVE  /\ IsSeq(view.nodes) /\ IsSeq(view.topics) /\ IsSeq(view.parent)
         /\ \A name : IsNode(view, name) =>
              /\ Node(view, name) \in ToSet(view.nodes)
              /\ Node(view, name).name = name
              /\ IsModelNode(Node(view, name))
              /\ name \in Nat
         /\ \A i \in DOMAIN view.nodes :
              /\ IsNode(view, view.nodes[i].name)
              /\ Node(view, view.nodes[i].name) = view.nodes[i]
              /\ IsModelNode(view.nodes[i])
<1>1. IsSeq(view.nodes) /\ IsSeq(view.topics) /\ IsSeq(view.parent)
  BY DEF IsView
<1>2. \A i \in DOMAIN view.nodes :
        view.nodes[i] \in ToSet(view.nodes) /\ IsNode(view, view.nodes[i].name)
  BY <1>1, SeqFacts DEF IsNode
<1>3. \A m, n \in ToSet(view.nodes) : m.name = n.name => m = n
  BY <1>1, SeqFacts DEF IsView, NamedOnce
<1>4. ASSUME NEW name, IsNode(view, name)
      PROVE  Node(view, name) \in ToSet(view.nodes) /\ Node(view, name).name = name
  <2>1. \E n \in ToSet(view.nodes) : n.name = name
    BY <1>2, <1>4 DEF IsNode
  <2> QED
    BY <2>1 DEF Node
<1>5. \A n \in ToSet(view.nodes) : IsModelNode(n)
  BY DEF IsView
<1>6. \A i \in DOMAIN view.nodes : Node(view, view.nodes[i].name) = view.nodes[i]
  BY <1>2, <1>3, <1>4
<1>7. \A n \in ToSet(view.nodes) : n.name \in Nat
  BY <1>5 DEF IsModelNode
<1> QED
  BY <1>1, <1>2, <1>4, <1>5, <1>6, <1>7

LEMMA PathFacts ==
  ASSUME NEW node, IsModelNode(node)
  PROVE  /\ \A p : IsPath(node, p) <=> p \in NamesOf(node.paths)
         /\ \A p : IsPath(node, p) =>
              /\ Path(node, p) \in ToSet(node.paths)
              /\ Path(node, p).name = p
              /\ IsNodePath(Path(node, p))
              /\ p \in Nat \ {NoPath}
         /\ \A q \in ToSet(node.paths) :
              q.name \in NamesOf(node.paths) /\ Path(node, q.name) = q
         /\ IsFiniteSet(NamesOf(node.paths))
<1>1. IsSeq(node.paths)
  BY DEF IsModelNode
<1>2. \A p : IsPath(node, p) <=> p \in NamesOf(node.paths)
  BY DEF IsPath, NamesOf
<1>3. \A p, q \in ToSet(node.paths) : p.name = q.name => p = q
  BY <1>1, SeqFacts DEF IsModelNode, NamedOnce
<1>4. ASSUME NEW p, IsPath(node, p)
      PROVE  Path(node, p) \in ToSet(node.paths) /\ Path(node, p).name = p
  <2>1. \E q \in ToSet(node.paths) : q.name = p
    BY <1>1, <1>4, SeqFacts DEF IsPath
  <2> QED
    BY <2>1 DEF Path
<1>5. \A q \in ToSet(node.paths) : IsNodePath(q) /\ q.name \in Nat \ {NoPath}
  BY DEF IsModelNode, IsNodePath, NoPath
<1>6. ASSUME NEW q \in ToSet(node.paths)
      PROVE  q.name \in NamesOf(node.paths) /\ Path(node, q.name) = q
  <2>1. q.name \in NamesOf(node.paths)
    BY <1>1, SeqFacts DEF NamesOf
  <2> QED
    BY <1>2, <1>3, <1>4, <2>1
<1>7. IsFiniteSet(NamesOf(node.paths))
  <2>1. [i \in DOMAIN node.paths |-> node.paths[i].name]
          \in Surjection(DOMAIN node.paths, NamesOf(node.paths))
    BY DEF Surjection, NamesOf
  <2> QED
    BY <1>1, <2>1, SeqFacts, FS_Surjection
<1> QED
  BY <1>2, <1>4, <1>5, <1>6, <1>7

\* No cost is negative.
LEMMA CostFacts ==
  ASSUME NEW node, IsModelNode(node), NEW p
  PROVE  TraversalLatency(node, p) \in Nat /\ SamplingCost(node, p) \in Nat
<1>1. \A q \in ToSet(node.paths) : LatencyOf(q) \in Nat /\ PeriodOf(q) \in Nat
  <2> SUFFICES ASSUME NEW q \in ToSet(node.paths) PROVE LatencyOf(q) \in Nat /\ PeriodOf(q) \in Nat
    OBVIOUS
  <2>1. IsNodePath(q)
    BY DEF IsModelNode
  <2>2. LatencyOf(q) \in Nat
    BY <2>1 DEF IsNodePath, LatencyOf
  <2>3. PeriodOf(q) \in Nat
    <3>1. CASE q.trigger = NoTrigger
      <4>1. Unclassified.kind # "timer"
        BY DEF Unclassified
      <4> QED
        BY <3>1, <4>1 DEF PeriodOf, EffectiveTrigger
    <3>2. CASE q.trigger # NoTrigger
      BY <2>1, <3>2 DEF PeriodOf, EffectiveTrigger, IsNodePath
    <3> QED
      BY <3>1, <3>2
  <2> QED
    BY <2>2, <2>3
<1>2. MaxLatency(node) \in Nat
  <2> DEFINE f == [i \in DOMAIN node.paths |-> LatencyOf(node.paths[i])]
             T == {LatencyOf(node.paths[i]) : i \in DOMAIN node.paths}
  <2>1. IsSeq(node.paths)
    BY DEF IsModelNode
  <2>2. IsFiniteSet(T) /\ T \subseteq Nat
    <3>1. f \in Surjection(DOMAIN node.paths, T)
      BY DEF Surjection
    <3>2. IsFiniteSet(T)
      BY <2>1, <3>1, SeqFacts, FS_Surjection
    <3> QED
      BY <1>1, <2>1, <3>2, SeqFacts
  <2> DEFINE U == {0} \cup T
  <2>3. U = T \cup {0}
    OBVIOUS
  <2>4. IsFiniteSet(U) /\ U \subseteq Nat /\ U # {}
    <3> HIDE DEF T
    <3>1. IsFiniteSet(U)
      BY <2>2, <2>3, FS_AddElement
    <3> QED
      BY <2>2, <3>1
  <2>5. MaxLatency(node) = Max(U)
    BY DEF MaxLatency
  <2> HIDE DEF U
  <2>6. U \subseteq Int
    BY <2>4
  <2>7. Max(U) \in U
    BY <2>4, <2>6, MaxFacts
  <2> QED
    BY <2>4, <2>5, <2>7
<1>3. CASE IsPath(node, p)
  <2>1. Path(node, p) \in ToSet(node.paths)
    BY <1>3, PathFacts
  <2> QED
    BY <1>1, <1>3, <2>1 DEF TraversalLatency, SamplingCost
<1>4. CASE ~ IsPath(node, p)
  BY <1>2, <1>4 DEF TraversalLatency, SamplingCost
<1> QED
  BY <1>3, <1>4

LEMMA TransportsAreNumbers ==
  ASSUME IsView(view), NEW t \in DOMAIN view.topics, NEW ep
  PROVE  TransportOf(view, view.topics[t], ep) \in Nat
<1>1. view.topics[t].transport \in Nat \cup {NoTransport}
  BY SeqFacts DEF IsView, IsTopic
<1>2. \A e \in DOMAIN view.own : view.own[e] \in Nat
  BY DEF IsView
<1> QED
  BY <1>1, <1>2 DEF TransportOf

\* The same for a function that starts at 1.
LEMMA RecursionFromOne ==
  ASSUME NEW m \in Nat \ {0}, NEW V, NEW base \in V, NEW step, StepsWithin(step, 2, m, V)
  PROVE  \E f \in [1 .. m -> V] : f[1] = base /\ TakesSteps(f, step, 2, m)
<1> DEFINE next == [kv \in (1 .. m - 1) \X V |-> step[<<kv[1] + 1, kv[2]>>]]
<1>1. m - 1 \in Nat /\ \A k \in 1 .. m - 1 : k + 1 \in 2 .. m
  OBVIOUS
<1>2. \A k \in 1 .. m - 1 : \A v \in V : next[<<k, v>>] = step[<<k + 1, v>>]
  OBVIOUS
<1> HIDE DEF next
<1>3. StepsWithin(next, 1, m - 1, V)
  BY <1>1, <1>2 DEF StepsWithin
<1>4. PICK g \in [0 .. m - 1 -> V] : g[0] = base /\ TakesSteps(g, next, 1, m - 1)
  BY <1>1, <1>3, RecursionExists
<1> DEFINE f == [k \in 1 .. m |-> g[k - 1]]
<1>5. \A k \in 1 .. m : k - 1 \in 0 .. m - 1
  OBVIOUS
<1>6. f \in [1 .. m -> V] /\ f[1] = base
  <2>1. 1 \in 1 .. m /\ 1 - 1 = 0
    OBVIOUS
  <2> QED
    BY <1>4, <1>5, <2>1
<1>7. ASSUME NEW k \in 2 .. m
      PROVE  f[k] = step[<<k, f[k - 1]>>]
  <2>1. /\ k \in 1 .. m /\ k - 1 \in 1 .. m /\ k - 1 \in 1 .. m - 1
        /\ (k - 1) - 1 \in 0 .. m - 1 /\ (k - 1) + 1 = k
    OBVIOUS
  <2>2. f[k] = g[k - 1] /\ f[k - 1] = g[(k - 1) - 1]
    BY <2>1
  <2>3. g[(k - 1) - 1] \in V
    BY <2>1
  <2>4. g[k - 1] = next[<<k - 1, g[(k - 1) - 1]>>]
    BY <1>4, <2>1 DEF TakesSteps
  <2>5. next[<<k - 1, g[(k - 1) - 1]>>] = step[<<(k - 1) + 1, g[(k - 1) - 1]>>]
    BY <1>2, <2>1, <2>3
  <2> HIDE DEF f
  <2> QED
    BY <2>1, <2>2, <2>4, <2>5
<1>8. TakesSteps(f, step, 2, m)
  BY <1>7 DEF TakesSteps
<1> QED
  BY <1>6, <1>8

\* A sum is what the sum of the others and the last is.
LEMMA TotalMeans ==
  ASSUME NEW s \in Seq(Nat)
  PROVE  \E sum \in [0 .. Len(s) -> Nat] :
           /\ sum[0] = 0
           /\ \A k \in 1 .. Len(s) : sum[k] = sum[k - 1] + s[k]
           /\ Total(s) = sum[Len(s)]
<1> DEFINE step == [kv \in (1 .. Len(s)) \X Nat |-> kv[2] + s[kv[1]]]
           Sums(f) == f = [k \in 0 .. Len(s) |-> IF k = 0 THEN 0 ELSE f[k - 1] + s[k]]
<1>1. Len(s) \in Nat /\ \A k \in 1 .. Len(s) : s[k] \in Nat
  OBVIOUS
<1>2. \A k \in 1 .. Len(s) : \A v \in Nat : step[<<k, v>>] = v + s[k]
  OBVIOUS
<1> HIDE DEF step, Sums
<1>3. StepsWithin(step, 1, Len(s), Nat)
  <2>1. \A a, b \in Nat : a + b \in Nat
    OBVIOUS
  <2> QED
    BY <1>1, <1>2, <2>1 DEF StepsWithin
<1>4. PICK f \in [0 .. Len(s) -> Nat] : f[0] = 0 /\ TakesSteps(f, step, 1, Len(s))
  BY <1>1, <1>3, 0 \in Nat, RecursionExists
<1>5. \A k \in 1 .. Len(s) : k - 1 \in 0 .. Len(s) /\ f[k] = f[k - 1] + s[k]
  <2> SUFFICES ASSUME NEW k \in 1 .. Len(s)
               PROVE  k - 1 \in 0 .. Len(s) /\ f[k] = f[k - 1] + s[k]
    OBVIOUS
  <2>1. k - 1 \in 0 .. Len(s)
    BY <1>1
  <2>2. f[k - 1] \in Nat
    BY <2>1
  <2> QED
    BY <1>2, <1>4, <2>1, <2>2 DEF TakesSteps
<1> USE DEF Sums
<1>6. Sums(f)
  <2>1. \A k \in 0 .. Len(s) : k # 0 => k \in 1 .. Len(s)
    BY <1>1
  <2>2. \A k \in 0 .. Len(s) : f[k] = IF k = 0 THEN 0 ELSE f[k - 1] + s[k]
    BY <1>4, <1>5, <2>1
  <2> QED
    BY <2>2
<1> DEFINE sum == CHOOSE g : Sums(g)
<1>7. Sums(sum)
  <2> HIDE DEF Sums
  <2> QED
    BY <1>6
<1>8. Total(s) = sum[Len(s)]
  BY DEF Total
<1> HIDE DEF sum
<1>9. sum = [k \in 0 .. Len(s) |-> IF k = 0 THEN 0 ELSE sum[k - 1] + s[k]]
  BY <1>7
<1>10. /\ DOMAIN sum = 0 .. Len(s)
       /\ \A k \in 0 .. Len(s) : sum[k] = IF k = 0 THEN 0 ELSE sum[k - 1] + s[k]
  BY <1>9
<1>11. sum[0] = 0 /\ \A k \in 1 .. Len(s) : sum[k] = sum[k - 1] + s[k]
  BY <1>1, <1>10
<1>12. 0 .. Len(s) \subseteq {k \in 0 .. Len(s) : sum[k] \in Nat}
  <2> DEFINE T == {k \in 0 .. Len(s) : sum[k] \in Nat}
  <2>1. 0 \in T
    BY <1>1, <1>11
  <2>2. ASSUME NEW k \in 0 .. Len(s), k # Len(s), k \in T
        PROVE  k + 1 \in T
    <3>1. k + 1 \in 1 .. Len(s) /\ k + 1 \in 0 .. Len(s) /\ (k + 1) - 1 = k
      BY <1>1, <2>2
    <3>2. sum[k + 1] = sum[k] + s[k + 1]
      BY <1>11, <3>1
    <3> QED
      BY <1>1, <2>2, <3>1, <3>2
  <2> HIDE DEF T
  <2>3. 0 .. Len(s) \subseteq T
    BY <1>1, <2>1, <2>2, 0 \in Nat, Climbs
  <2> QED
    BY <2>3 DEF T
<1>13. sum \in [0 .. Len(s) -> Nat]
  BY <1>9, <1>12
<1> QED
  BY <1>8, <1>11, <1>13

\* A sum with one more number in front.
LEMMA TotalPrepended ==
  ASSUME NEW s \in Seq(Nat), NEW t \in Seq(Nat), Len(t) = Len(s) + 1,
         \A k \in 1 .. Len(s) : t[k + 1] = s[k]
  PROVE  Total(t) = t[1] + Total(s)
<1>1. PICK a \in [0 .. Len(s) -> Nat] :
        /\ a[0] = 0 /\ \A k \in 1 .. Len(s) : a[k] = a[k - 1] + s[k]
        /\ Total(s) = a[Len(s)]
  BY TotalMeans
<1>2. PICK b \in [0 .. Len(t) -> Nat] :
        /\ b[0] = 0 /\ \A k \in 1 .. Len(t) : b[k] = b[k - 1] + t[k]
        /\ Total(t) = b[Len(t)]
  BY TotalMeans
<1>3. Len(s) \in Nat /\ t[1] \in Nat /\ \A k \in 1 .. Len(s) : s[k] \in Nat
  <2>1. Len(s) \in Nat /\ 1 \in 1 .. Len(t)
    OBVIOUS
  <2> QED
    BY <2>1
<1> DEFINE T == {k \in 0 .. Len(s) : b[k + 1] = t[1] + a[k]}
<1>4. 0 \in T
  <2>1. 1 \in 1 .. Len(t) /\ 1 - 1 = 0
    BY <1>3
  <2>2. b[1] = b[1 - 1] + t[1]
    BY <1>2, <2>1
  <2> QED
    BY <1>1, <1>2, <1>3, <2>1, <2>2
<1>5. ASSUME NEW k \in 0 .. Len(s), k # Len(s), k \in T
      PROVE  k + 1 \in T
  <2>1. /\ k + 1 \in 1 .. Len(s) /\ k + 1 \in 0 .. Len(s) /\ (k + 1) - 1 = k
        /\ k + 2 \in 1 .. Len(t) /\ (k + 2) - 1 = k + 1 /\ (k + 1) + 1 = k + 2
    BY <1>3, <1>5
  <2>2. a[k + 1] = a[k] + s[k + 1] /\ a[k] \in Nat /\ s[k + 1] \in Nat
    BY <1>1, <1>3, <2>1
  <2>3. b[k + 2] = b[k + 1] + t[k + 2] /\ t[k + 2] = s[k + 1]
    BY <1>2, <2>1
  <2>4. b[k + 1] = t[1] + a[k]
    BY <1>5
  <2>5. b[k + 2] = t[1] + a[k + 1]
    BY <1>3, <2>2, <2>3, <2>4
  <2> QED
    BY <2>1, <2>5
<1>6. 0 .. Len(s) \subseteq T
  <2> HIDE DEF T
  <2> QED
    BY <1>3, <1>4, <1>5, 0 \in Nat, Climbs
<1>7. b[Len(s) + 1] = t[1] + a[Len(s)]
  <2>1. Len(s) \in 0 .. Len(s)
    BY <1>3
  <2>2. Len(s) \in T
    BY <1>6, <2>1
  <2> QED
    BY <2>2
<1> QED
  BY <1>1, <1>2, <1>7

-----------------------------------------------------------------------------
(***************************************************************************)
(* What a route costs.                                                     *)
(***************************************************************************)
Passing(u) == TraversalLatency(Node(view, u[1]), u[2])

\* The cost of every prefix of a route.
IsPrefixCost(cost, r) ==
  /\ cost \in [1 .. Len(r) -> Nat]
  /\ cost[1] = Passing(r[1])
  /\ \A k \in 2 .. Len(r) :
       cost[k] = cost[k - 1] + Max(Transports(r[k - 1], r[k])) + Passing(r[k])
  /\ RouteCost(r) = cost[Len(r)]

LEMMA RouteCostMeans ==
  ASSUME NEW r, Len(r) \in Nat \ {0},
         \A k \in 1 .. Len(r) : Passing(r[k]) \in Nat,
         \A k \in 2 .. Len(r) : Max(Transports(r[k - 1], r[k])) \in Nat
  PROVE  \E cost : IsPrefixCost(cost, r)
<1> DEFINE step == [kv \in (2 .. Len(r)) \X Nat |->
                      kv[2] + Max(Transports(r[kv[1] - 1], r[kv[1]])) + Passing(r[kv[1]])]
           IsCost(f) == f = [k \in 1 .. Len(r) |->
                              IF k = 1 THEN Passing(r[1])
                              ELSE f[k - 1] + Max(Transports(r[k - 1], r[k])) + Passing(r[k])]
<1>1. /\ 1 \in 1 .. Len(r)
      /\ \A k \in 2 .. Len(r) : k \in 1 .. Len(r) /\ k - 1 \in 1 .. Len(r) /\ k # 1
      /\ \A k \in 1 .. Len(r) : k # 1 => k \in 2 .. Len(r)
  OBVIOUS
<1>2. \A k \in 2 .. Len(r) : \A v \in Nat :
        step[<<k, v>>] = v + Max(Transports(r[k - 1], r[k])) + Passing(r[k])
  OBVIOUS
<1> HIDE DEF step, IsCost
<1>3. StepsWithin(step, 2, Len(r), Nat)
  <2> SUFFICES ASSUME NEW k \in 2 .. Len(r), NEW v \in Nat
               PROVE  step[<<k, v>>] \in Nat
    BY DEF StepsWithin
  <2>1. Max(Transports(r[k - 1], r[k])) \in Nat /\ Passing(r[k]) \in Nat
    BY <1>1
  <2>2. v + Max(Transports(r[k - 1], r[k])) + Passing(r[k]) \in Nat
    BY <2>1
  <2> QED
    BY <1>2, <2>2
<1>4. Passing(r[1]) \in Nat
  BY <1>1
<1>5. PICK f \in [1 .. Len(r) -> Nat] : f[1] = Passing(r[1]) /\ TakesSteps(f, step, 2, Len(r))
  BY <1>3, <1>4, RecursionFromOne
<1>6. \A k \in 2 .. Len(r) : f[k] = f[k - 1] + Max(Transports(r[k - 1], r[k])) + Passing(r[k])
  <2> SUFFICES ASSUME NEW k \in 2 .. Len(r)
               PROVE  f[k] = f[k - 1] + Max(Transports(r[k - 1], r[k])) + Passing(r[k])
    OBVIOUS
  <2>1. f[k - 1] \in Nat
    BY <1>1
  <2> QED
    BY <1>2, <1>5, <2>1 DEF TakesSteps
<1>7. IsCost(f)
  <2>1. \A k \in 1 .. Len(r) :
          f[k] = IF k = 1 THEN Passing(r[1])
                 ELSE f[k - 1] + Max(Transports(r[k - 1], r[k])) + Passing(r[k])
    BY <1>1, <1>5, <1>6
  <2> QED
    BY <2>1 DEF IsCost
<1> DEFINE cost == CHOOSE g : IsCost(g)
<1>8. IsCost(cost)
  BY <1>7
<1>9. RouteCost(r) = cost[Len(r)]
  BY DEF RouteCost, IsCost, Passing
<1> HIDE DEF cost
<1>10. cost = [k \in 1 .. Len(r) |->
                 IF k = 1 THEN Passing(r[1])
                 ELSE cost[k - 1] + Max(Transports(r[k - 1], r[k])) + Passing(r[k])]
  BY <1>8 DEF IsCost
<1>11. cost[1] = Passing(r[1])
  BY <1>1, <1>10
<1>12. \A k \in 2 .. Len(r) :
         cost[k] = cost[k - 1] + Max(Transports(r[k - 1], r[k])) + Passing(r[k])
  BY <1>1, <1>10
<1> DEFINE T == {k \in 1 .. Len(r) : cost[k] \in Nat}
<1>13. 1 .. Len(r) \subseteq T
  <2>1. 1 \in T
    BY <1>1, <1>4, <1>11
  <2>2. ASSUME NEW k \in 1 .. Len(r), k # Len(r), k \in T
        PROVE  k + 1 \in T
    <3>1. k + 1 \in 2 .. Len(r) /\ k + 1 \in 1 .. Len(r) /\ (k + 1) - 1 = k
      BY <2>2
    <3>2. cost[k + 1] = cost[k] + Max(Transports(r[(k + 1) - 1], r[k + 1])) + Passing(r[k + 1])
      BY <1>12, <3>1
    <3>3. cost[k] \in Nat /\ Max(Transports(r[(k + 1) - 1], r[k + 1])) \in Nat
          /\ Passing(r[k + 1]) \in Nat
      BY <2>2, <3>1
    <3>4. cost[k + 1] \in Nat
      BY <3>2, <3>3
    <3> QED
      BY <3>1, <3>4
  <2> HIDE DEF T
  <2> QED
    BY <2>1, <2>2, 1 \in Nat, Climbs
<1>14. cost \in [1 .. Len(r) -> Nat]
  BY <1>10, <1>13
<1> QED
  BY <1>9, <1>11, <1>12, <1>14 DEF IsPrefixCost

-----------------------------------------------------------------------------
(***************************************************************************)
(* The walks are the sequences of vertices that follow wires.              *)
(***************************************************************************)
FollowsWires(r, wires) == \A k \in 1 .. Len(r) - 1 : <<r[k], r[k + 1]>> \in wires

LEMMA WalksMeans ==
  ASSUME NEW vs, IsFiniteSet(vs), NEW wires, wires \subseteq vs \X vs, NEW r
  PROVE  r \in Walks(vs, wires) <=>
           r \in Seq(vs) /\ Len(r) \in 1 .. Cardinality(vs) /\ FollowsWires(r, wires)
<1> DEFINE m == Cardinality(vs)
           Longer(X) == {Append(x[1], x[2][2]) :
                           x \in {y \in X \X wires : Last(y[1]) = y[2][1]}}
           IsWalk(q, k) == q \in Seq(vs) /\ Len(q) = k /\ FollowsWires(q, wires)
           V == SUBSET Seq(vs)
           step == [kv \in (2 .. m + 1) \X V |-> Longer(kv[2])]
           base == {<<u>> : u \in vs}
           Grows(f) == f = [k \in 1 .. m + 1 |-> IF k = 1 THEN base ELSE Longer(f[k - 1])]
<1>1. m \in Nat /\ m + 1 \in Nat \ {0}
  BY FS_CardinalityType
<1>2. ASSUME NEW X \in V
      PROVE  Longer(X) \in V
  <2> SUFFICES ASSUME NEW y \in X \X wires
               PROVE  Append(y[1], y[2][2]) \in Seq(vs)
    OBVIOUS
  <2>1. y[1] \in Seq(vs) /\ y[2][2] \in vs
    OBVIOUS
  <2> QED
    BY <2>1
<1>3. base \in V
  <2>1. \A u \in vs : <<u>> \in Seq(vs)
    OBVIOUS
  <2> HIDE DEF step, Longer
  <2> QED
    BY <2>1
<1> HIDE DEF V, base, m
<1>4. \A k \in 2 .. m + 1 : \A v \in V : step[<<k, v>>] = Longer(v)
  <2> HIDE DEF Longer
  <2> QED
    OBVIOUS
<1> HIDE DEF Longer, step, Grows
<1>5. StepsWithin(step, 2, m + 1, V)
  BY <1>2, <1>4 DEF StepsWithin
<1>6. PICK f \in [1 .. m + 1 -> V] : f[1] = base /\ TakesSteps(f, step, 2, m + 1)
  BY <1>1, <1>3, <1>5, RecursionFromOne
<1>7. Grows(f)
  <2>1. ASSUME NEW k \in 1 .. m + 1
        PROVE  f[k] = IF k = 1 THEN base ELSE Longer(f[k - 1])
    <3>1. CASE k = 1
      BY <1>6, <3>1
    <3>2. CASE k # 1
      <4>1. k \in 2 .. m + 1 /\ k - 1 \in 1 .. m + 1
        BY <3>2, <1>1
      <4>2. f[k - 1] \in V
        BY <4>1
      <4>3. f[k] = step[<<k, f[k - 1]>>]
        BY <1>6, <4>1 DEF TakesSteps
      <4> QED
        BY <1>4, <3>2, <4>1, <4>2, <4>3
    <3> QED
      BY <3>1, <3>2
  <2> QED
    BY <2>1 DEF Grows
<1> DEFINE walks == CHOOSE g : Grows(g)
<1>8. Grows(walks)
  BY <1>7
<1>9. Walks(vs, wires) = UNION {walks[k] : k \in 1 .. m}
  BY DEF Walks, Grows, Longer, base, m
<1> HIDE DEF walks
<1>10. walks = [k \in 1 .. m + 1 |-> IF k = 1 THEN base ELSE Longer(walks[k - 1])]
  BY <1>8 DEF Grows
<1>11. walks[1] = base
  BY <1>1, <1>10
<1>12. \A k \in 1 .. m : walks[k + 1] = Longer(walks[k])
  <2> SUFFICES ASSUME NEW k \in 1 .. m PROVE walks[k + 1] = Longer(walks[k])
    OBVIOUS
  <2>1. k + 1 \in 1 .. m + 1 /\ k + 1 # 1 /\ (k + 1) - 1 = k
    BY <1>1
  <2> QED
    BY <1>10, <2>1
<1> DEFINE T == {k \in 1 .. m + 1 : \A q : q \in walks[k] <=> IsWalk(q, k)}
<1>13. 1 \in T
  <2>1. ASSUME NEW q
        PROVE  q \in base <=> IsWalk(q, 1)
    <3>1. ASSUME q \in base PROVE IsWalk(q, 1)
      <4>1. PICK u \in vs : q = <<u>>
        BY <3>1 DEF base
      <4> QED
        BY <4>1 DEF FollowsWires
    <3>2. ASSUME IsWalk(q, 1) PROVE q \in base
      <4>1. q[1] \in vs /\ q = <<q[1]>>
        BY <3>2
      <4> QED
        BY <4>1 DEF base
    <3> QED
      BY <3>1, <3>2
  <2>2. 1 \in 1 .. m + 1
    BY <1>1
  <2> HIDE DEF IsWalk
  <2> QED
    BY <1>11, <2>1, <2>2
<1>14. ASSUME NEW k \in 1 .. m + 1, k # m + 1, k \in T
       PROVE  k + 1 \in T
  <2>1. k \in 1 .. m /\ k + 1 \in 1 .. m + 1 /\ k \in Nat \ {0}
    BY <1>1, <1>14
  <2>2. \A q : q \in walks[k] <=> IsWalk(q, k)
    BY <1>14
  <2>3. ASSUME NEW q, q \in Longer(walks[k])
        PROVE  IsWalk(q, k + 1)
    <3>1. PICK y \in walks[k] \X wires : Last(y[1]) = y[2][1] /\ q = Append(y[1], y[2][2])
      BY <2>3 DEF Longer
    <3> DEFINE p == y[1]
               e == y[2]
    <3>2. p \in Seq(vs) /\ Len(p) = k /\ FollowsWires(p, wires) /\ e \in wires
      BY <2>2
    <3>3. e = <<e[1], e[2]>> /\ e[1] = p[k] /\ e[2] \in vs
      BY <2>1, <3>1, <3>2 DEF Last
    <3>4. q = Append(p, e[2])
      BY <3>1
    <3> HIDE DEF p, e
    <3>5. q \in Seq(vs) /\ Len(q) = k + 1 /\ q[k + 1] = e[2] /\ \A j \in 1 .. k : q[j] = p[j]
      BY <2>1, <3>2, <3>3, <3>4
    <3>6. ASSUME NEW j \in 1 .. Len(q) - 1
          PROVE  <<q[j], q[j + 1]>> \in wires
      <4>1. CASE j = k
        <5>1. q[j] = e[1] /\ q[j + 1] = e[2]
          BY <2>1, <3>3, <3>5, <4>1
        <5> QED
          BY <3>2, <3>3, <5>1
      <4>2. CASE j # k
        <5>1. j \in 1 .. Len(p) - 1 /\ j \in 1 .. k /\ j + 1 \in 1 .. k
          BY <2>1, <3>2, <3>5, <4>2
        <5> QED
          BY <3>2, <3>5, <5>1 DEF FollowsWires
      <4> QED
        BY <4>1, <4>2
    <3> QED
      BY <3>5, <3>6 DEF FollowsWires
  <2>4. ASSUME NEW q, IsWalk(q, k + 1)
        PROVE  q \in Longer(walks[k])
    <3> DEFINE p == SubSeq(q, 1, k)
               e == <<q[k], q[k + 1]>>
    <3>1. q \in Seq(vs) /\ Len(q) = k + 1 /\ FollowsWires(q, wires)
      BY <2>4
    <3>2. p \in Seq(vs) /\ Len(p) = k /\ \A j \in 1 .. k : p[j] = q[j]
      BY <2>1, <3>1
    <3>3. e \in wires /\ e[1] = q[k] /\ e[2] = q[k + 1]
      <4>1. k \in 1 .. Len(q) - 1
        BY <2>1, <3>1
      <4> QED
        BY <3>1, <4>1 DEF FollowsWires
    <3>4. q = Append(p, e[2])
      <4> HIDE DEF p, e
      <4>1. q[k + 1] \in vs
        BY <2>1, <3>1
      <4>2. Append(p, e[2]) \in Seq(vs) /\ Len(Append(p, e[2])) = k + 1
            /\ Append(p, e[2])[k + 1] = q[k + 1] /\ \A j \in 1 .. k : Append(p, e[2])[j] = p[j]
        BY <2>1, <3>2, <3>3, <4>1
      <4>3. \A j \in 1 .. k + 1 : j = k + 1 \/ j \in 1 .. k
        BY <2>1
      <4>4. \A j \in 1 .. k + 1 : q[j] = Append(p, e[2])[j]
        BY <3>2, <4>2, <4>3
      <4> DEFINE a == Append(p, e[2])
      <4>5. DOMAIN q = 1 .. k + 1 /\ DOMAIN a = 1 .. k + 1
        BY <3>1, <4>2
      <4>6. q = [j \in DOMAIN q |-> q[j]] /\ a = [j \in DOMAIN a |-> a[j]]
        BY <3>1, <4>2
      <4> HIDE DEF a
      <4>7. q = a
        BY <4>4, <4>5, <4>6 DEF a
      <4> QED
        BY <4>7 DEF a
    <3> HIDE DEF p, e
    <3>5. FollowsWires(p, wires)
      <4> SUFFICES ASSUME NEW j \in 1 .. Len(p) - 1 PROVE <<p[j], p[j + 1]>> \in wires
        BY DEF FollowsWires
      <4>1. j \in 1 .. Len(q) - 1 /\ j \in 1 .. k /\ j + 1 \in 1 .. k
        BY <2>1, <3>1, <3>2
      <4> QED
        BY <3>1, <3>2, <4>1 DEF FollowsWires
    <3>6. p \in walks[k] /\ Last(p) = e[1]
      BY <2>1, <2>2, <3>2, <3>3, <3>5 DEF Last
    <3>7. <<p, e>> \in walks[k] \X wires /\ Last(<<p, e>>[1]) = <<p, e>>[2][1]
          /\ q = Append(<<p, e>>[1], <<p, e>>[2][2])
      BY <3>3, <3>4, <3>6
    <3> QED
      BY <3>7 DEF Longer
  <2> HIDE DEF IsWalk
  <2> QED
    BY <1>12, <2>1, <2>3, <2>4
<1>15. 1 .. m + 1 \subseteq T
  <2> HIDE DEF T
  <2> QED
    BY <1>1, <1>13, <1>14, 1 \in Nat, Climbs
<1>16. \A k \in 1 .. m : k \in T
  BY <1>1, <1>15
<1>17. r \in Walks(vs, wires) <=> \E k \in 1 .. m : IsWalk(r, k)
  <2>1. r \in Walks(vs, wires) <=> \E k \in 1 .. m : r \in walks[k]
    BY <1>9
  <2> HIDE DEF IsWalk
  <2> QED
    BY <1>16, <2>1
<1> QED
  BY <1>17 DEF m

-----------------------------------------------------------------------------
(***************************************************************************)
(* The hops of the code are the wires of the model, with their transports. *)
(***************************************************************************)

\* The paths that the code claims a message for are those that speak, or hear.
LEMMA SpeaksMeans ==
  ASSUME IsView(view), NEW ep, IsNode(view, ep[1]), NEW u
  PROVE  /\ Speaks(u, ep) <=>
              u[1] = ep[1] /\ u[2] \in Attributed(PathsProducing(Node(view, ep[1]), ep))
         /\ Attributed(PathsProducing(Node(view, ep[1]), ep)) \subseteq {NoPath} \cup NamesAt(ep[1])
<1> DEFINE node == Node(view, ep[1])
           speakers == {p \in NamesAt(ep[1]) : Produces(node, Path(node, p), ep)}
<1>1. IsModelNode(node)
  BY NodeFacts
<1>2. NamesAt(ep[1]) = NamesOf(node.paths)
  BY DEF NamesAt
<1>3. PathsProducing(node, ep) = speakers
  <2>1. ASSUME NEW p, p \in PathsProducing(node, ep)
        PROVE  p \in speakers
    <3>1. PICK q \in ToSet(node.paths) : Produces(node, q, ep) /\ p = q.name
      BY <2>1 DEF PathsProducing
    <3> HIDE DEF node
    <3> QED
      BY <1>1, <1>2, <3>1, PathFacts
  <2>2. ASSUME NEW p \in speakers
        PROVE  p \in PathsProducing(node, ep)
    <3> HIDE DEF node
    <3>1. Path(node, p) \in ToSet(node.paths) /\ Path(node, p).name = p
          /\ Produces(node, Path(node, p), ep)
      BY <1>1, <1>2, PathFacts
    <3> QED
      BY <3>1 DEF PathsProducing
  <2> HIDE DEF speakers
  <2> QED
    BY <2>1, <2>2
<1>4. NoPath \notin speakers
  <2> HIDE DEF node
  <2> QED
    BY <1>1, <1>2, PathFacts
<1>5. Speaks(u, ep) <=> u[1] = ep[1] /\ (u[2] \in speakers \/ (u[2] = NoPath /\ speakers = {}))
  BY DEF Speaks
<1>6. speakers \subseteq NamesAt(ep[1])
  OBVIOUS
<1> HIDE DEF speakers
<1> QED
  BY <1>3, <1>4, <1>5, <1>6 DEF Attributed

LEMMA HearsMeans ==
  ASSUME IsView(view), NEW ep, IsNode(view, ep[1]), NEW u
  PROVE  /\ Hears(u, ep) <=>
              u[1] = ep[1] /\ u[2] \in Attributed(PathsConsuming(Node(view, ep[1]), ep))
         /\ Attributed(PathsConsuming(Node(view, ep[1]), ep)) \subseteq {NoPath} \cup NamesAt(ep[1])
<1> DEFINE node == Node(view, ep[1])
           hearers == {p \in NamesAt(ep[1]) : Consumes(node, Path(node, p), ep)}
<1>1. IsModelNode(node)
  BY NodeFacts
<1>2. NamesAt(ep[1]) = NamesOf(node.paths)
  BY DEF NamesAt
<1>3. PathsConsuming(node, ep) = hearers
  <2>1. ASSUME NEW p, p \in PathsConsuming(node, ep)
        PROVE  p \in hearers
    <3>1. PICK q \in ToSet(node.paths) : Consumes(node, q, ep) /\ p = q.name
      BY <2>1 DEF PathsConsuming
    <3> HIDE DEF node
    <3> QED
      BY <1>1, <1>2, <3>1, PathFacts
  <2>2. ASSUME NEW p \in hearers
        PROVE  p \in PathsConsuming(node, ep)
    <3> HIDE DEF node
    <3>1. Path(node, p) \in ToSet(node.paths) /\ Path(node, p).name = p
          /\ Consumes(node, Path(node, p), ep)
      BY <1>1, <1>2, PathFacts
    <3> QED
      BY <3>1 DEF PathsConsuming
  <2> HIDE DEF hearers
  <2> QED
    BY <2>1, <2>2
<1>4. NoPath \notin hearers
  <2> HIDE DEF node
  <2> QED
    BY <1>1, <1>2, PathFacts
<1>5. Hears(u, ep) <=> u[1] = ep[1] /\ (u[2] \in hearers \/ (u[2] = NoPath /\ hearers = {}))
  BY DEF Hears
<1>6. hearers \subseteq NamesAt(ep[1])
  OBVIOUS
<1> HIDE DEF hearers
<1> QED
  BY <1>3, <1>4, <1>5, <1>6 DEF Attributed

\* The message of publisher p of topic t may go from u to w by subscriber s.
Carries(t, p, s, u, w) ==
  /\ Subscriber(t, s) \notin view.states
  /\ Speaks(u, Publisher(t, p))
  /\ Hears(w, Subscriber(t, s))

LEMMA TopicFacts ==
  ASSUME IsView(view), NEW t \in DOMAIN view.topics
  PROVE  IsSeq(view.topics[t].publishers) /\ IsSeq(view.topics[t].subscribers)
<1>1. view.topics[t] \in ToSet(view.topics)
  BY NodeFacts, SeqFacts
<1> QED
  BY <1>1 DEF IsView, IsTopic

LEMMA TransportsMean ==
  ASSUME IsView(view), NEW u, NEW w, NEW tr
  PROVE  tr \in Transports(u, w) <=>
           \E t \in DOMAIN view.topics :
             \E p \in DOMAIN view.topics[t].publishers, s \in DOMAIN view.topics[t].subscribers :
               /\ Carries(t, p, s, u, w)
               /\ tr = TransportOf(view, view.topics[t], Subscriber(t, s))
<1>1. ASSUME tr \in Transports(u, w)
      PROVE  \E t \in DOMAIN view.topics :
               \E p \in DOMAIN view.topics[t].publishers, s \in DOMAIN view.topics[t].subscribers :
                 /\ Carries(t, p, s, u, w)
                 /\ tr = TransportOf(view, view.topics[t], Subscriber(t, s))
  <2>0. PICK topic \in ToSet(view.topics) :
          \E sub \in ToSet(topic.subscribers) \ view.states : \E pub \in ToSet(topic.publishers) :
            Hears(w, sub) /\ Speaks(u, pub) /\ tr = TransportOf(view, topic, sub)
    BY <1>1 DEF Transports
  <2>1. PICK sub \in ToSet(topic.subscribers) \ view.states, pub \in ToSet(topic.publishers) :
          Hears(w, sub) /\ Speaks(u, pub) /\ tr = TransportOf(view, topic, sub)
    BY <2>0
  <2>2. PICK t \in DOMAIN view.topics : view.topics[t] = topic
    BY NodeFacts, SeqFacts
  <2>3. PICK p \in DOMAIN view.topics[t].publishers : view.topics[t].publishers[p] = pub
    BY <2>2, TopicFacts, SeqFacts
  <2>4. PICK s \in DOMAIN view.topics[t].subscribers : view.topics[t].subscribers[s] = sub
    BY <2>2, TopicFacts, SeqFacts
  <2>5. Publisher(t, p) = pub /\ Subscriber(t, s) = sub
    BY <2>3, <2>4 DEF Publisher, Subscriber
  <2>6. Carries(t, p, s, u, w) /\ tr = TransportOf(view, view.topics[t], Subscriber(t, s))
    BY <2>1, <2>2, <2>5 DEF Carries
  <2> QED
    BY <2>6
<1>2. ASSUME NEW t \in DOMAIN view.topics, NEW p \in DOMAIN view.topics[t].publishers,
             NEW s \in DOMAIN view.topics[t].subscribers, Carries(t, p, s, u, w),
             tr = TransportOf(view, view.topics[t], Subscriber(t, s))
      PROVE  tr \in Transports(u, w)
  <2> DEFINE topic == view.topics[t]
             pub == topic.publishers[p]
             sub == topic.subscribers[s]
  <2>1. topic \in ToSet(view.topics) /\ pub \in ToSet(topic.publishers)
        /\ sub \in ToSet(topic.subscribers)
    BY NodeFacts, TopicFacts, SeqFacts
  <2>2. sub \notin view.states /\ Speaks(u, pub) /\ Hears(w, sub)
    BY <1>2 DEF Carries, Publisher, Subscriber
  <2>3. pub[1] = u[1]
    BY <2>2 DEF Speaks
  <2>4. tr = TransportOf(view, topic, sub)
    BY <1>2 DEF Subscriber
  <2> HIDE DEF topic, pub, sub
  <2> QED
    BY <2>1, <2>2, <2>3, <2>4 DEF Transports
<1> QED
  BY <1>1, <1>2

LEMMA HopsMean ==
  ASSUME NEW h
  PROVE  h \in Hops <=>
           \E t \in DOMAIN view.topics :
             \E p \in DOMAIN view.topics[t].publishers, s \in DOMAIN view.topics[t].subscribers :
               /\ IsCausal(<<t, p, s>>)
               /\ \E from \in Attributed(PathsProducing(Node(view, Publisher(t, p)[1]), Publisher(t, p))),
                     to \in Attributed(PathsConsuming(Node(view, Subscriber(t, s)[1]), Subscriber(t, s))) :
                    h = <<t, p, s, from, to>>
<1>1. \A e : e \in GlobalEdges <=>
        \E t \in DOMAIN view.topics :
          \E p \in DOMAIN view.topics[t].publishers, s \in DOMAIN view.topics[t].subscribers :
            e = <<t, p, s>>
  BY DEF GlobalEdges
<1>2. h \in Hops <=> \E e \in GlobalEdges : IsCausal(e) /\ h \in HopsOf(e)
  BY DEF Hops
<1>3. \A t, p, s : h \in HopsOf(<<t, p, s>>) <=>
        \E from \in Attributed(PathsProducing(Node(view, Publisher(t, p)[1]), Publisher(t, p))),
           to \in Attributed(PathsConsuming(Node(view, Subscriber(t, s)[1]), Subscriber(t, s))) :
          h = <<t, p, s, from, to>>
  BY DEF HopsOf
<1>4. h \in Hops <=>
        \E t \in DOMAIN view.topics :
          \E p \in DOMAIN view.topics[t].publishers, s \in DOMAIN view.topics[t].subscribers :
            IsCausal(<<t, p, s>>) /\ h \in HopsOf(<<t, p, s>>)
  <2>1. ASSUME h \in Hops
        PROVE  \E t \in DOMAIN view.topics :
                 \E p \in DOMAIN view.topics[t].publishers, s \in DOMAIN view.topics[t].subscribers :
                   IsCausal(<<t, p, s>>) /\ h \in HopsOf(<<t, p, s>>)
    <3>1. PICK e \in GlobalEdges : IsCausal(e) /\ h \in HopsOf(e)
      BY <1>2, <2>1
    <3>2. PICK t \in DOMAIN view.topics :
            \E p \in DOMAIN view.topics[t].publishers, s \in DOMAIN view.topics[t].subscribers :
              e = <<t, p, s>>
      BY <1>1
    <3>3. PICK p \in DOMAIN view.topics[t].publishers, s \in DOMAIN view.topics[t].subscribers :
            e = <<t, p, s>>
      BY <3>2
    <3> QED
      BY <3>1, <3>3
  <2>2. ASSUME NEW t \in DOMAIN view.topics, NEW p \in DOMAIN view.topics[t].publishers,
               NEW s \in DOMAIN view.topics[t].subscribers,
               IsCausal(<<t, p, s>>), h \in HopsOf(<<t, p, s>>)
        PROVE  h \in Hops
    <3>1. <<t, p, s>> \in GlobalEdges
      BY <1>1
    <3> QED
      BY <1>2, <2>2, <3>1
  <2> QED
    BY <2>1, <2>2
<1> DEFINE Crosses(t, p, s) ==
             \E from \in Attributed(PathsProducing(Node(view, Publisher(t, p)[1]), Publisher(t, p))),
                to \in Attributed(PathsConsuming(Node(view, Subscriber(t, s)[1]), Subscriber(t, s))) :
               h = <<t, p, s, from, to>>
<1>5. \A t, p, s : h \in HopsOf(<<t, p, s>>) <=> Crosses(t, p, s)
  BY <1>3
<1> HIDE DEF Crosses
<1>6. h \in Hops <=>
        \E t \in DOMAIN view.topics :
          \E p \in DOMAIN view.topics[t].publishers, s \in DOMAIN view.topics[t].subscribers :
            IsCausal(<<t, p, s>>) /\ Crosses(t, p, s)
  BY <1>4, <1>5, Zenon
<1> QED
  BY <1>6 DEF Crosses

LEMMA CandidatesMean ==
  ASSUME IsView(view), NEW u
  PROVE  u \in Candidates <=>
           \E m, p : u = <<m, p>> /\ LiesInside(m) /\ p \in {NoPath} \cup NamesAt(m)
<1>1. \A m : m \in MembersInside <=> LiesInside(m)
  BY DEF MembersInside, LiesInside, IsNode
<1> QED
  BY <1>1 DEF Candidates

InsideIsRight == \A m : Inside(m) <=> LiesInside(m)

LEMMA HopsAreWires ==
  ASSUME IsView(view), InsideIsRight
  PROVE  /\ \A h \in Hops :
              /\ RawEdge(h).from \in Candidates /\ RawEdge(h).to \in Candidates
              /\ RawEdge(h).transport \in Transports(RawEdge(h).from, RawEdge(h).to)
         /\ \A u, w \in Candidates : \A tr \in Transports(u, w) :
              \E h \in Hops : RawEdge(h) = [from |-> u, to |-> w, transport |-> tr]
<1>1. ASSUME NEW h \in Hops
      PROVE  /\ RawEdge(h).from \in Candidates /\ RawEdge(h).to \in Candidates
             /\ RawEdge(h).transport \in Transports(RawEdge(h).from, RawEdge(h).to)
  <2>0. PICK t \in DOMAIN view.topics :
          \E p \in DOMAIN view.topics[t].publishers, s \in DOMAIN view.topics[t].subscribers :
            /\ IsCausal(<<t, p, s>>)
            /\ \E from \in Attributed(PathsProducing(Node(view, Publisher(t, p)[1]), Publisher(t, p))),
                  to \in Attributed(PathsConsuming(Node(view, Subscriber(t, s)[1]), Subscriber(t, s))) :
                 h = <<t, p, s, from, to>>
    BY HopsMean
  <2>1. PICK p \in DOMAIN view.topics[t].publishers, s \in DOMAIN view.topics[t].subscribers :
          /\ IsCausal(<<t, p, s>>)
          /\ \E from \in Attributed(PathsProducing(Node(view, Publisher(t, p)[1]), Publisher(t, p))),
                to \in Attributed(PathsConsuming(Node(view, Subscriber(t, s)[1]), Subscriber(t, s))) :
               h = <<t, p, s, from, to>>
    BY <2>0
  <2> DEFINE pub == Publisher(t, p)
             sub == Subscriber(t, s)
  <2>2. PICK from \in Attributed(PathsProducing(Node(view, pub[1]), pub)),
             to \in Attributed(PathsConsuming(Node(view, sub[1]), sub)) :
          h = <<t, p, s, from, to>>
    BY <2>1
  <2>3. sub \notin view.states /\ Inside(pub[1]) /\ Inside(sub[1])
    BY <2>1 DEF IsCausal
  <2>4. LiesInside(pub[1]) /\ LiesInside(sub[1]) /\ IsNode(view, pub[1]) /\ IsNode(view, sub[1])
    BY <2>3 DEF InsideIsRight, Inside
  <2> DEFINE u == <<pub[1], from>>
             w == <<sub[1], to>>
             tr == TransportOf(view, view.topics[t], sub)
  <2>5. RawEdge(h) = [from |-> u, to |-> w, transport |-> tr]
    BY <2>2 DEF RawEdge
  <2> HIDE DEF pub, sub
  <2>6. Speaks(u, pub) /\ from \in {NoPath} \cup NamesAt(pub[1])
    BY <2>2, <2>4, SpeaksMeans
  <2>7. Hears(w, sub) /\ to \in {NoPath} \cup NamesAt(sub[1])
    BY <2>2, <2>4, HearsMeans
  <2>8. u \in Candidates /\ w \in Candidates
    BY <2>4, <2>6, <2>7, CandidatesMean
  <2>9. tr \in Transports(u, w)
    <3>1. Carries(t, p, s, u, w)
      BY <2>3, <2>6, <2>7 DEF Carries, pub, sub
    <3> QED
      BY <3>1, TransportsMean DEF sub
  <2> HIDE DEF u, w, tr
  <2> QED
    BY <2>5, <2>8, <2>9
<1>2. ASSUME NEW u \in Candidates, NEW w \in Candidates, NEW tr \in Transports(u, w)
      PROVE  \E h \in Hops : RawEdge(h) = [from |-> u, to |-> w, transport |-> tr]
  <2>0. PICK t \in DOMAIN view.topics :
          \E p \in DOMAIN view.topics[t].publishers, s \in DOMAIN view.topics[t].subscribers :
            Carries(t, p, s, u, w) /\ tr = TransportOf(view, view.topics[t], Subscriber(t, s))
    BY TransportsMean
  <2>1. PICK p \in DOMAIN view.topics[t].publishers, s \in DOMAIN view.topics[t].subscribers :
          Carries(t, p, s, u, w) /\ tr = TransportOf(view, view.topics[t], Subscriber(t, s))
    BY <2>0
  <2> DEFINE pub == Publisher(t, p)
             sub == Subscriber(t, s)
  <2>2. u = <<u[1], u[2]>> /\ w = <<w[1], w[2]>> /\ LiesInside(u[1]) /\ LiesInside(w[1])
    BY CandidatesMean
  <2>3. u[1] = pub[1] /\ w[1] = sub[1] /\ sub \notin view.states
        /\ Speaks(u, pub) /\ Hears(w, sub)
    BY <2>1 DEF Carries, Speaks, Hears
  <2>4. IsNode(view, pub[1]) /\ IsNode(view, sub[1]) /\ Inside(pub[1]) /\ Inside(sub[1])
    BY <2>2, <2>3 DEF LiesInside, InsideIsRight
  <2>5. IsCausal(<<t, p, s>>)
    BY <2>3, <2>4 DEF IsCausal
  <2> DEFINE h == <<t, p, s, u[2], w[2]>>
  <2>6. RawEdge(h) = [from |-> u, to |-> w, transport |-> tr]
    BY <2>1, <2>2, <2>3 DEF RawEdge
  <2>7. u[2] \in Attributed(PathsProducing(Node(view, pub[1]), pub))
    <3> HIDE DEF pub
    <3> QED
      BY <2>3, <2>4, SpeaksMeans
  <2>8. w[2] \in Attributed(PathsConsuming(Node(view, sub[1]), sub))
    <3> HIDE DEF sub
    <3> QED
      BY <2>3, <2>4, HearsMeans
  <2>9. h \in Hops
    BY <2>5, <2>7, <2>8, HopsMean
  <2> HIDE DEF h
  <2> QED
    BY <2>6, <2>9
<1> QED
  BY <1>1, <1>2

-----------------------------------------------------------------------------
(***************************************************************************)
(* A model has finitely many hops and vertices, all of them tuples of      *)
(* numbers.                                                                *)
(***************************************************************************)
LEMMA UnionIsFinite ==
  ASSUME NEW I, IsFiniteSet(I), NEW F, \A i \in I : IsFiniteSet(F[i])
  PROVE  IsFiniteSet(UNION {F[i] : i \in I})
<1> DEFINE T == {F[i] : i \in I}
<1>1. [i \in I |-> F[i]] \in Surjection(I, T)
  BY DEF Surjection
<1>2. IsFiniteSet(T)
  BY <1>1, FS_Surjection
<1>3. \A X \in T : IsFiniteSet(X)
  OBVIOUS
<1> QED
  BY <1>2, <1>3, FS_UNION

LEMMA GlobalEdgesAreFinite ==
  ASSUME IsView(view)
  PROVE  IsFiniteSet(GlobalEdges)
<1> DEFINE EdgesOf(t) == {<<t, p, s>> : p \in DOMAIN view.topics[t].publishers,
                                        s \in DOMAIN view.topics[t].subscribers}
           F == [t \in DOMAIN view.topics |-> EdgesOf(t)]
<1>1. ASSUME NEW t \in DOMAIN view.topics
      PROVE  IsFiniteSet(EdgesOf(t))
  <2> DEFINE P == DOMAIN view.topics[t].publishers
             S == DOMAIN view.topics[t].subscribers
             f == [x \in P \X S |-> <<t, x[1], x[2]>>]
  <2>1. IsFiniteSet(P) /\ IsFiniteSet(S)
    BY TopicFacts, SeqFacts
  <2> HIDE DEF P, S
  <2>2. IsFiniteSet(P \X S)
    BY <2>1, FS_Product
  <2> DEFINE E == {<<t, p, s>> : p \in P, s \in S}
  <2>3. f \in Surjection(P \X S, E)
    <3>1. \A x \in P \X S : f[x] \in E
      OBVIOUS
    <3>2. \A e \in E : \E x \in P \X S : f[x] = e
      <4>1. \A p \in P, s \in S : <<p, s>> \in P \X S /\ f[<<p, s>>] = <<t, p, s>>
        OBVIOUS
      <4> SUFFICES ASSUME NEW e \in E PROVE \E x \in P \X S : f[x] = e
        OBVIOUS
      <4>2. PICK p \in P, s \in S : e = <<t, p, s>>
        OBVIOUS
      <4> HIDE DEF f, E
      <4> QED
        BY <4>1, <4>2
    <3>3. f = [x \in P \X S |-> f[x]]
      OBVIOUS
    <3> HIDE DEF f, E
    <3> QED
      BY <3>1, <3>2, <3>3 DEF Surjection
  <2>4. IsFiniteSet(E)
    <3> HIDE DEF f, E
    <3> QED
      BY <2>2, <2>3, FS_Surjection
  <2> QED
    BY <2>4 DEF P, S
<1>2. \A t \in DOMAIN view.topics : F[t] = EdgesOf(t)
  OBVIOUS
<1>3. GlobalEdges = UNION {F[t] : t \in DOMAIN view.topics}
  <2>1. GlobalEdges = UNION {EdgesOf(t) : t \in DOMAIN view.topics}
    BY DEF GlobalEdges
  <2>2. {EdgesOf(t) : t \in DOMAIN view.topics} = {F[t] : t \in DOMAIN view.topics}
    <3> HIDE DEF EdgesOf, F
    <3> QED
      BY <1>2
  <2> HIDE DEF EdgesOf, F
  <2> QED
    BY <2>1, <2>2
<1>4. IsFiniteSet(DOMAIN view.topics)
  BY NodeFacts, SeqFacts
<1> HIDE DEF F, EdgesOf
<1> QED
  BY <1>1, <1>2, <1>3, <1>4, UnionIsFinite

LEMMA NamesAreFinite ==
  ASSUME IsView(view), NEW m, IsNode(view, m)
  PROVE  /\ IsFiniteSet({NoPath} \cup NamesAt(m))
         /\ {NoPath} \cup NamesAt(m) \subseteq Nat
<1> DEFINE node == Node(view, m)
<1>1. IsModelNode(node) /\ NamesAt(m) = NamesOf(node.paths)
  BY NodeFacts DEF NamesAt
<1> HIDE DEF node
<1>2. IsFiniteSet(NamesAt(m)) /\ NamesAt(m) \subseteq Nat
  BY <1>1, PathFacts
<1>3. {NoPath} \cup NamesAt(m) = NamesAt(m) \cup {NoPath} /\ NoPath \in Nat
  BY DEF NoPath
<1> QED
  BY <1>2, <1>3, FS_AddElement

LEMMA HopsAreListable ==
  ASSUME IsView(view)
  PROVE  IsFiniteSet(Hops) /\ OrdersTuples(Hops)
<1>1. ASSUME NEW t \in DOMAIN view.topics, NEW p \in DOMAIN view.topics[t].publishers,
             NEW s \in DOMAIN view.topics[t].subscribers, IsCausal(<<t, p, s>>)
      PROVE  /\ t \in Nat /\ p \in Nat /\ s \in Nat
             /\ IsFiniteSet(Attributed(PathsProducing(Node(view, Publisher(t, p)[1]), Publisher(t, p))))
             /\ Attributed(PathsProducing(Node(view, Publisher(t, p)[1]), Publisher(t, p))) \subseteq Nat
             /\ IsFiniteSet(Attributed(PathsConsuming(Node(view, Subscriber(t, s)[1]), Subscriber(t, s))))
             /\ Attributed(PathsConsuming(Node(view, Subscriber(t, s)[1]), Subscriber(t, s))) \subseteq Nat
  <2> DEFINE pub == Publisher(t, p)
             sub == Subscriber(t, s)
  <2>1. t \in Nat /\ p \in Nat /\ s \in Nat
    <3>1. IsSeq(view.topics) /\ IsSeq(view.topics[t].publishers)
            /\ IsSeq(view.topics[t].subscribers)
      BY NodeFacts, TopicFacts
    <3>2. ASSUME NEW q, IsSeq(q), NEW i \in DOMAIN q
          PROVE  i \in Nat
      <4>1. Len(q) \in Nat /\ DOMAIN q = 1 .. Len(q)
        BY ONLY <3>2, SeqFacts
      <4> QED
        BY <4>1
    <3> QED
      BY <3>1, <3>2
  <2>2. IsNode(view, pub[1]) /\ IsNode(view, sub[1])
    BY <1>1 DEF IsCausal, Inside
  <2> HIDE DEF pub, sub
  <2>3. /\ Attributed(PathsProducing(Node(view, pub[1]), pub)) \in SUBSET ({NoPath} \cup NamesAt(pub[1]))
        /\ Attributed(PathsConsuming(Node(view, sub[1]), sub)) \in SUBSET ({NoPath} \cup NamesAt(sub[1]))
    BY <2>2, SpeaksMeans, HearsMeans
  <2>4. /\ IsFiniteSet(Attributed(PathsProducing(Node(view, pub[1]), pub)))
        /\ IsFiniteSet(Attributed(PathsConsuming(Node(view, sub[1]), sub)))
    BY <2>2, <2>3, NamesAreFinite, FS_Subset
  <2>5. /\ Attributed(PathsProducing(Node(view, pub[1]), pub)) \subseteq Nat
        /\ Attributed(PathsConsuming(Node(view, sub[1]), sub)) \subseteq Nat
    BY <2>2, <2>3, NamesAreFinite
  <2> QED
    BY <2>1, <2>4, <2>5 DEF pub, sub
<1> DEFINE I == {g \in GlobalEdges : IsCausal(g)}
           F == [e \in I |-> HopsOf(e)]
<1>2. ASSUME NEW e \in I
      PROVE  IsFiniteSet(HopsOf(e))
  <2>0. PICK t \in DOMAIN view.topics :
          \E p \in DOMAIN view.topics[t].publishers, s \in DOMAIN view.topics[t].subscribers :
            e = <<t, p, s>>
    BY DEF GlobalEdges
  <2>1. PICK p \in DOMAIN view.topics[t].publishers, s \in DOMAIN view.topics[t].subscribers :
          e = <<t, p, s>>
    BY <2>0
  <2> DEFINE A == Attributed(PathsProducing(Node(view, Publisher(t, p)[1]), Publisher(t, p)))
             B == Attributed(PathsConsuming(Node(view, Subscriber(t, s)[1]), Subscriber(t, s)))
             f == [x \in A \X B |-> <<t, p, s, x[1], x[2]>>]
             H == {<<t, p, s, from, to>> : from \in A, to \in B}
  <2>2. HopsOf(e) = H
    BY <2>1 DEF HopsOf
  <2>3. IsFiniteSet(A) /\ IsFiniteSet(B)
    BY <1>1, <2>1
  <2> HIDE DEF A, B
  <2>4. IsFiniteSet(A \X B)
    BY <2>3, FS_Product
  <2>5. f \in Surjection(A \X B, H)
    <3>1. \A x \in A \X B : f[x] \in H
      OBVIOUS
    <3>2. \A h \in H : \E x \in A \X B : f[x] = h
      <4>1. \A a \in A, b \in B : <<a, b>> \in A \X B /\ f[<<a, b>>] = <<t, p, s, a, b>>
        OBVIOUS
      <4> SUFFICES ASSUME NEW h \in H PROVE \E x \in A \X B : f[x] = h
        OBVIOUS
      <4>2. PICK a \in A, b \in B : h = <<t, p, s, a, b>>
        OBVIOUS
      <4> HIDE DEF f, H
      <4> QED
        BY <4>1, <4>2
    <3>3. f = [x \in A \X B |-> f[x]]
      OBVIOUS
    <3> HIDE DEF f, H
    <3> QED
      BY <3>1, <3>2, <3>3 DEF Surjection
  <2> HIDE DEF f, H
  <2> QED
    BY <2>2, <2>4, <2>5, FS_Surjection
<1>3. IsFiniteSet(I)
  <2>1. I \in SUBSET GlobalEdges
    OBVIOUS
  <2> HIDE DEF I
  <2> QED
    BY <2>1, GlobalEdgesAreFinite, FS_Subset
<1>4. IsFiniteSet(Hops)
  <2>1. \A e \in I : F[e] = HopsOf(e)
    OBVIOUS
  <2>2. Hops = UNION {F[e] : e \in I}
    BY DEF Hops
  <2> HIDE DEF F, I
  <2> QED
    BY <1>2, <1>3, <2>1, <2>2, UnionIsFinite
<1>5. Hops \subseteq [1 .. 5 -> Nat]
  <2> SUFFICES ASSUME NEW h \in Hops PROVE h \in [1 .. 5 -> Nat]
    OBVIOUS
  <2>0. PICK t \in DOMAIN view.topics :
          \E p \in DOMAIN view.topics[t].publishers, s \in DOMAIN view.topics[t].subscribers :
            /\ IsCausal(<<t, p, s>>)
            /\ \E from \in Attributed(PathsProducing(Node(view, Publisher(t, p)[1]), Publisher(t, p))),
                  to \in Attributed(PathsConsuming(Node(view, Subscriber(t, s)[1]), Subscriber(t, s))) :
                 h = <<t, p, s, from, to>>
    BY HopsMean
  <2>1. PICK p \in DOMAIN view.topics[t].publishers, s \in DOMAIN view.topics[t].subscribers :
          /\ IsCausal(<<t, p, s>>)
          /\ \E from \in Attributed(PathsProducing(Node(view, Publisher(t, p)[1]), Publisher(t, p))),
                to \in Attributed(PathsConsuming(Node(view, Subscriber(t, s)[1]), Subscriber(t, s))) :
               h = <<t, p, s, from, to>>
    BY <2>0
  <2>2. PICK from \in Nat, to \in Nat : h = <<t, p, s, from, to>>
    BY <1>1, <2>1
  <2>3. t \in Nat /\ p \in Nat /\ s \in Nat
    BY <1>1, <2>1
  <2> QED
    BY <2>2, <2>3
<1>6. OrdersTuples(Hops)
  BY <1>5, 5 \in Nat, LexLessOrdersTuples
<1> QED
  BY <1>4, <1>6

LEMMA CandidatesAreListable ==
  ASSUME IsView(view), NEW S, S \subseteq Candidates
  PROVE  IsFiniteSet(S) /\ OrdersTuples(S)
<1> DEFINE F == [m \in MembersInside |-> {<<m, p>> : p \in {NoPath} \cup NamesAt(m)}]
<1>1. \A m \in MembersInside : IsNode(view, m) /\ m \in Nat
  BY NodeFacts DEF MembersInside
<1>2. IsFiniteSet(MembersInside)
  <2> DEFINE N == {view.nodes[i].name : i \in DOMAIN view.nodes}
  <2>1. [i \in DOMAIN view.nodes |-> view.nodes[i].name] \in Surjection(DOMAIN view.nodes, N)
    BY DEF Surjection
  <2>2. IsFiniteSet(N)
    BY <2>1, NodeFacts, SeqFacts, FS_Surjection
  <2>3. MembersInside \in SUBSET N
    BY DEF MembersInside
  <2> HIDE DEF N
  <2> QED
    BY <2>2, <2>3, FS_Subset
<1>3. ASSUME NEW m \in MembersInside
      PROVE  IsFiniteSet(F[m])
  <2> DEFINE A == {NoPath} \cup NamesAt(m)
             B == {<<m, p>> : p \in A}
  <2>1. IsFiniteSet(A)
    BY <1>1, NamesAreFinite
  <2> HIDE DEF A
  <2>2. [p \in A |-> <<m, p>>] \in Surjection(A, B)
    BY DEF Surjection
  <2>3. IsFiniteSet(B)
    BY <2>1, <2>2, FS_Surjection
  <2> QED
    BY <2>3 DEF A
<1>4. Candidates = UNION {F[m] : m \in MembersInside}
  BY DEF Candidates
<1>5. IsFiniteSet(Candidates)
  <2> HIDE DEF F
  <2> QED
    BY <1>2, <1>3, <1>4, UnionIsFinite
<1>6. S \subseteq [1 .. 2 -> Nat]
  <2> SUFFICES ASSUME NEW u \in S PROVE u \in [1 .. 2 -> Nat]
    OBVIOUS
  <2>1. PICK m \in MembersInside, p \in Nat : u = <<m, p>>
    BY <1>1, NamesAreFinite DEF Candidates
  <2>2. m \in Nat
    BY <1>1
  <2> QED
    BY <2>1, <2>2
<1>7. OrdersTuples(S)
  BY <1>6, 2 \in Nat, LexLessOrdersTuples
<1> QED
  BY <1>5, <1>7, FS_Subset

-----------------------------------------------------------------------------
(***************************************************************************)
(* The routes of a scope path depend on the model and the path alone.      *)
(***************************************************************************)
LEMMA SameMembers ==
  ASSUME UNCHANGED args
  PROVE  /\ \A x : LiesBelow(x)' = LiesBelow(x)
         /\ \A m : LiesInside(m)' = LiesInside(m)
         /\ \A m : NamesAt(m)' = NamesAt(m)
         /\ (MembersInside' = MembersInside)
         /\ (Candidates' = Candidates)
<1>1. view' = view /\ sp' = sp
  BY DEF args
<1>2. \A x : LiesBelow(x)' = LiesBelow(x)
  BY <1>1 DEF LiesBelow, HasChildren
<1>3. \A m : LiesInside(m)' = LiesInside(m)
  BY <1>1, <1>2 DEF LiesInside
<1>4. \A m : NamesAt(m)' = NamesAt(m)
  BY <1>1 DEF NamesAt
<1>5. MembersInside' = MembersInside
  BY <1>1, <1>3 DEF MembersInside
<1>6. Candidates' = Candidates
  BY <1>4, <1>5 DEF Candidates
<1> QED
  BY <1>2, <1>3, <1>4, <1>5, <1>6

LEMMA SameTransports ==
  ASSUME UNCHANGED args, NEW u, NEW w
  PROVE  Transports(u, w)' = Transports(u, w)
<1>1. view' = view /\ sp' = sp
  BY DEF args
<1>2. \A x, ep : Speaks(x, ep)' = Speaks(x, ep)
  BY <1>1 DEF Speaks, NamesAt
<1>3. \A x, ep : Hears(x, ep)' = Hears(x, ep)
  BY <1>1 DEF Hears, NamesAt
<1> QED
  BY <1>1, <1>2, <1>3 DEF Transports

LEMMA SameWires ==
  ASSUME UNCHANGED args
  PROVE  /\ Wires' = Wires
         /\ RouteVertices(Wires)' = RouteVertices(Wires)
         /\ Starts' = Starts /\ Stops' = Stops
         /\ Routes(Wires)' = Routes(Wires)
         /\ Outcome(Wires)' = Outcome(Wires)
         /\ \A u : Passing(u)' = Passing(u)
<1>1. view' = view /\ sp' = sp
  BY DEF args
<1>2. Wires' = Wires
  BY SameMembers, SameTransports DEF Wires
<1>3. \A m : NamesAt(m)' = NamesAt(m)
  BY SameMembers
<1>4. RouteVertices(Wires)' = RouteVertices(Wires)
  BY <1>2, <1>3, SameMembers DEF RouteVertices
<1>5. Starts' = Starts /\ Stops' = Stops
  BY <1>1, SameMembers DEF Starts, Stops, PublishersOf, SubscribersOf
<1>6. Routes(Wires)' = Routes(Wires)
  BY <1>2, <1>4, <1>5 DEF Routes
<1>7. Outcome(Wires)' = Outcome(Wires)
  BY <1>2, <1>5, <1>6 DEF Outcome
<1>8. \A u : Passing(u)' = Passing(u)
  BY <1>1 DEF Passing
<1> QED
  BY <1>2, <1>4, <1>5, <1>6, <1>7, <1>8

LEMMA SameCosts ==
  ASSUME UNCHANGED args, NEW r
  PROVE  RouteCost(r)' = RouteCost(r)
<1>1. view' = view /\ sp' = sp
  BY DEF args
<1>2. \A u, w : Transports(u, w)' = Transports(u, w)
  BY SameTransports
<1> QED
  BY <1>1, <1>2 DEF RouteCost

-----------------------------------------------------------------------------
(***************************************************************************)
(* The graph of the code has the vertices and the wires of the model: the  *)
(* vertices in some order, each once, and an edge for every transport.     *)
(***************************************************************************)
IsLowered(vs, g) ==
  /\ vs \in Seq(RouteVertices(Wires))
  /\ \A u \in RouteVertices(Wires) : \E k \in 1 .. Len(vs) : vs[k] = u
  /\ \A j, k \in 1 .. Len(vs) : vs[j] = vs[k] => j = k
  /\ Len(vs) = Cardinality(RouteVertices(Wires))
  /\ g.n = Len(vs)
  /\ IsFiniteSet(DOMAIN g.edges) /\ DOMAIN g.edges \subseteq Nat
  /\ \A i \in DOMAIN g.edges :
       /\ g.edges[i].from \in 1 .. Len(vs) /\ g.edges[i].to \in 1 .. Len(vs)
       /\ g.edges[i].transport \in Transports(vs[g.edges[i].from], vs[g.edges[i].to])
  /\ \A j, k \in 1 .. Len(vs) : \A tr \in Transports(vs[j], vs[k]) :
       \E i \in DOMAIN g.edges :
         g.edges[i].from = j /\ g.edges[i].to = k /\ g.edges[i].transport = tr

LEMMA WiresMean ==
  ASSUME NEW u, NEW w
  PROVE  <<u, w>> \in Wires <=> u \in Candidates /\ w \in Candidates /\ Transports(u, w) # {}
BY DEF Wires

LEMMA WireEnds ==
  /\ Wires \subseteq RouteVertices(Wires) \X RouteVertices(Wires)
  /\ RouteVertices(Wires) \subseteq Candidates
<1>1. RouteVertices(Wires) \subseteq Candidates
  BY DEF RouteVertices
<1>2. ASSUME NEW e \in Wires
      PROVE  e \in RouteVertices(Wires) \X RouteVertices(Wires)
  <2>1. e \in Candidates \X Candidates
    BY DEF Wires
  <2>2. e[1] \in RouteVertices(Wires) /\ e[2] \in RouteVertices(Wires)
    BY <2>1 DEF RouteVertices
  <2> QED
    BY <2>1, <2>2
<1> QED
  BY <1>1, <1>2

LEMMA VerticesMean ==
  ASSUME IsView(view), InsideIsRight
  PROVE  Declared \cup Touched = RouteVertices(Wires)
<1>1. \A k \in DOMAIN view.nodes :
        /\ view.nodes[k].scope \in subtree <=> LiesInside(view.nodes[k].name)
        /\ NamesAt(view.nodes[k].name) = NamesOf(view.nodes[k].paths)
  BY NodeFacts DEF InsideIsRight, Inside, NamesAt
<1>2. ASSUME NEW u, u \in Declared
      PROVE  u \in RouteVertices(Wires)
  <2>1. PICK k \in DOMAIN view.nodes :
          /\ view.nodes[k].scope \in subtree
          /\ \E p \in Attributed(NamesOf(view.nodes[k].paths)) : u = <<view.nodes[k].name, p>>
    BY <1>2 DEF Declared
  <2> DEFINE m == view.nodes[k].name
  <2>2. PICK p \in Attributed(NamesAt(m)) : u = <<m, p>>
    BY <1>1, <2>1
  <2>3. LiesInside(m)
    BY <1>1, <2>1
  <2>4. p \in {NoPath} \cup NamesAt(m)
    BY DEF Attributed
  <2>5. u \in Candidates
    BY <2>2, <2>3, <2>4, CandidatesMean
  <2>6. u[1] = m /\ u[2] = p /\ (p # NoPath \/ NamesAt(m) = {})
    <3>1. p # NoPath \/ NamesAt(m) = {}
      <4>1. CASE NamesAt(m) = {}
        BY <4>1
      <4>2. CASE NamesAt(m) # {}
        <5>1. p \in NamesAt(m) /\ IsNode(view, m)
          BY <2>3, <4>2 DEF Attributed, LiesInside
        <5>2. IsModelNode(Node(view, m)) /\ NamesAt(m) = NamesOf(Node(view, m).paths)
          BY <5>1, NodeFacts DEF NamesAt
        <5> HIDE DEF m
        <5> QED
          BY <5>1, <5>2, PathFacts
      <4> QED
        BY <4>1, <4>2
    <3> QED
      BY <2>2, <3>1
  <2> QED
    BY <2>5, <2>6 DEF RouteVertices
<1>3. ASSUME NEW u, u \in Touched
      PROVE  u \in RouteVertices(Wires)
  <2>1. PICK h \in Hops : u = RawEdge(h).from \/ u = RawEdge(h).to
    BY <1>3 DEF Touched
  <2> DEFINE a == RawEdge(h).from
             b == RawEdge(h).to
  <2>2. a \in Candidates /\ b \in Candidates /\ Transports(a, b) # {}
    BY HopsAreWires
  <2>3. <<a, b>> \in Wires
    <3> HIDE DEF a, b
    <3> QED
      BY <2>2, WiresMean
  <2>4. <<a, b>> \in RouteVertices(Wires) \X RouteVertices(Wires)
    BY <2>3, WireEnds
  <2> QED
    BY <2>1, <2>4
<1>4. ASSUME NEW u \in RouteVertices(Wires)
      PROVE  u \in Declared \cup Touched
  <2>1. PICK m, p : u = <<m, p>> /\ LiesInside(m) /\ p \in {NoPath} \cup NamesAt(m)
    BY CandidatesMean, WireEnds
  <2>2. PICK k \in DOMAIN view.nodes : view.nodes[k].name = m
    BY <2>1 DEF LiesInside, IsNode
  <2>3. view.nodes[k].scope \in subtree /\ NamesAt(m) = NamesOf(view.nodes[k].paths)
    BY <1>1, <2>1, <2>2
  <2>4. CASE p # NoPath \/ NamesAt(m) = {}
    <3>1. p \in Attributed(NamesOf(view.nodes[k].paths))
      BY <2>1, <2>3, <2>4 DEF Attributed
    <3> QED
      BY <2>1, <2>2, <2>3, <3>1 DEF Declared
  <2>5. CASE ~ (p # NoPath \/ NamesAt(m) = {})
    <3>1. PICK e \in Wires : u \in {e[1], e[2]}
      BY <2>1, <2>5 DEF RouteVertices
    <3>2. e[1] \in Candidates /\ e[2] \in Candidates /\ Transports(e[1], e[2]) # {}
      BY DEF Wires
    <3>3. PICK tr \in Transports(e[1], e[2]) : TRUE
      BY <3>2
    <3>4. PICK h \in Hops : RawEdge(h) = [from |-> e[1], to |-> e[2], transport |-> tr]
      BY <3>2, HopsAreWires
    <3>5. RawEdge(h).from = e[1] /\ RawEdge(h).to = e[2]
      BY <3>4
    <3> QED
      BY <3>1, <3>5 DEF Touched
  <2> QED
    BY <2>4, <2>5
<1> QED
  BY <1>2, <1>3, <1>4

LEMMA IndexFacts ==
  ASSUME NEW V, NEW vs \in Seq(V), NEW k \in 1 .. Len(vs),
         \A i, j \in 1 .. Len(vs) : vs[i] = vs[j] => i = j
  PROVE  IndexIn(vs, vs[k]) = k
<1>1. DOMAIN vs = 1 .. Len(vs)
  OBVIOUS
<1> QED
  BY <1>1 DEF IndexIn

LEMMA BuildLowers ==
  ASSUME IsView(view), InsideIsRight, NEW vs, NEW hs, NEW g,
         vs = Listed(Declared \cup Touched), hs = Listed(Hops),
         g = [n |-> Len(vs), edges |-> [i \in DOMAIN hs |-> Indexed(vs, RawEdge(hs[i]))]]
  PROVE  IsLowered(vs, g)
<1> DEFINE V == RouteVertices(Wires)
<1>1. /\ vs \in Seq(V) /\ Len(vs) = Cardinality(V) /\ Len(vs) \in Nat
      /\ \A u \in V : \E k \in 1 .. Len(vs) : vs[k] = u
      /\ \A j, k \in 1 .. Len(vs) : vs[j] = vs[k] => j = k
  <2>1. IsFiniteSet(V) /\ OrdersTuples(V)
    BY WireEnds, CandidatesAreListable
  <2>2. vs = Listed(V)
    BY VerticesMean
  <2> HIDE DEF V
  <2> QED
    <3>1. /\ Cardinality(V) \in Nat
          /\ Listed(V) \in Seq(V)
          /\ Len(Listed(V)) = Cardinality(V)
          /\ \A u \in V : \E k \in 1 .. Cardinality(V) : Listed(V)[k] = u
          /\ \A j, k \in 1 .. Cardinality(V) : Listed(V)[j] = Listed(V)[k] => j = k
      BY ONLY <2>1, ListedFacts
    <3> QED
      BY ONLY <2>2, <3>1
<1>2. /\ hs \in Seq(Hops) /\ Len(hs) \in Nat /\ DOMAIN hs = 1 .. Len(hs)
      /\ \A h \in Hops : \E k \in 1 .. Len(hs) : hs[k] = h
  BY HopsAreListable, ListedFacts
<1> HIDE DEF V
<1>0. ASSUME NEW k \in 1 .. Len(vs)
      PROVE  IndexIn(vs, vs[k]) = k
  <2>1. vs \in Seq(V) /\ \A i, j \in 1 .. Len(vs) : vs[i] = vs[j] => i = j
    BY <1>1
  <2> QED
    BY ONLY <2>1, k \in 1 .. Len(vs), IndexFacts
<1>3. ASSUME NEW u \in V
      PROVE  IndexIn(vs, u) \in 1 .. Len(vs) /\ vs[IndexIn(vs, u)] = u
  <2>1. PICK k \in 1 .. Len(vs) : vs[k] = u
    BY <1>1
  <2>2. IndexIn(vs, vs[k]) = k
    BY <1>0
  <2> QED
    BY <2>1, <2>2
<1>4. DOMAIN g.edges = DOMAIN hs /\ g.n = Len(vs)
  OBVIOUS
<1>5. ASSUME NEW i \in DOMAIN hs
      PROVE  /\ g.edges[i].from = IndexIn(vs, RawEdge(hs[i]).from)
             /\ g.edges[i].to = IndexIn(vs, RawEdge(hs[i]).to)
             /\ g.edges[i].transport = RawEdge(hs[i]).transport
  <2>1. g.edges[i] = Indexed(vs, RawEdge(hs[i]))
    OBVIOUS
  <2> QED
    BY <2>1 DEF Indexed
<1>6. ASSUME NEW i \in DOMAIN g.edges
      PROVE  /\ g.edges[i].from \in 1 .. Len(vs) /\ g.edges[i].to \in 1 .. Len(vs)
             /\ g.edges[i].transport \in Transports(vs[g.edges[i].from], vs[g.edges[i].to])
  <2> DEFINE a == RawEdge(hs[i]).from
             b == RawEdge(hs[i]).to
             tr == RawEdge(hs[i]).transport
  <2>1. hs[i] \in Hops /\ i \in DOMAIN hs
    BY <1>2, <1>4
  <2>2. a \in Candidates /\ b \in Candidates /\ tr \in Transports(a, b)
    BY <2>1, HopsAreWires
  <2>3. g.edges[i].from = IndexIn(vs, a) /\ g.edges[i].to = IndexIn(vs, b)
        /\ g.edges[i].transport = tr
    BY <1>5, <2>1
  <2> HIDE DEF a, b, tr
  <2>4. <<a, b>> \in Wires
    BY <2>2, WiresMean
  <2>5. a \in V /\ b \in V
    <3>1. <<a, b>> \in V \X V
      BY <2>4, WireEnds DEF V
    <3> QED
      BY <3>1
  <2>6. IndexIn(vs, a) \in 1 .. Len(vs) /\ vs[IndexIn(vs, a)] = a
        /\ IndexIn(vs, b) \in 1 .. Len(vs) /\ vs[IndexIn(vs, b)] = b
    BY <1>3, <2>5
  <2> QED
    BY ONLY <2>2, <2>3, <2>6
<1>7. ASSUME NEW j \in 1 .. Len(vs), NEW k \in 1 .. Len(vs), NEW tr \in Transports(vs[j], vs[k])
      PROVE  \E i \in DOMAIN g.edges :
               g.edges[i].from = j /\ g.edges[i].to = k /\ g.edges[i].transport = tr
  <2>1. vs[j] \in Candidates /\ vs[k] \in Candidates
    <3>1. vs[j] \in V /\ vs[k] \in V
      BY <1>1
    <3> QED
      BY <3>1, WireEnds DEF V
  <2>2. PICK h \in Hops : RawEdge(h) = [from |-> vs[j], to |-> vs[k], transport |-> tr]
    BY <2>1, HopsAreWires
  <2>3. PICK i \in 1 .. Len(hs) : hs[i] = h
    BY <1>2
  <2>4. RawEdge(hs[i]).from = vs[j] /\ RawEdge(hs[i]).to = vs[k] /\ RawEdge(hs[i]).transport = tr
    BY <2>2, <2>3
  <2>5. i \in DOMAIN hs /\ i \in DOMAIN g.edges
    BY <1>2, <1>4, <2>3
  <2>6. g.edges[i].from = IndexIn(vs, vs[j]) /\ g.edges[i].to = IndexIn(vs, vs[k])
        /\ g.edges[i].transport = tr
    BY <1>5, <2>4, <2>5
  <2>7. IndexIn(vs, vs[j]) = j /\ IndexIn(vs, vs[k]) = k
    BY <1>0
  <2>8. i \in DOMAIN g.edges
    BY <2>5
  <2>9. g.edges[i].from = j /\ g.edges[i].to = k /\ g.edges[i].transport = tr
    BY ONLY <2>6, <2>7
  <2> WITNESS i \in DOMAIN g.edges
  <2> QED
    BY ONLY <2>9
<1>8. IsFiniteSet(DOMAIN g.edges) /\ DOMAIN g.edges \subseteq Nat
  <2>1. IsFiniteSet(1 .. Len(hs))
    BY <1>2, FS_Interval
  <2> QED
    BY <1>2, <1>4, <2>1
<1> QED
  BY <1>1, <1>4, <1>6, <1>7, <1>8 DEF IsLowered, V

SamplingOf(u) == SamplingCost(Node(view, u[1]), u[2])

SamplingTerm(r) == Total([i \in DOMAIN r |-> SamplingOf(r[i])])

LEMMA VertexCosts ==
  ASSUME IsView(view), NEW u \in Candidates
  PROVE  Passing(u) \in Nat /\ SamplingOf(u) \in Nat
<1>1. PICK m, p : u = <<m, p>> /\ LiesInside(m)
  BY CandidatesMean
<1>2. IsModelNode(Node(view, m))
  BY <1>1, NodeFacts DEF LiesInside
<1> QED
  BY <1>1, <1>2, CostFacts DEF Passing, SamplingOf

LEMMA GraphFacts ==
  ASSUME IsView(view), IsLowered(vertices, graph)
  PROVE  /\ graph.n \in Nat /\ graph.n = Len(vertices)
         /\ vertices \in Seq(RouteVertices(Wires))
         /\ IsFiniteSet(DOMAIN graph.edges) /\ DOMAIN graph.edges \subseteq Nat
         /\ \A i \in DOMAIN graph.edges :
              /\ graph.edges[i].from \in 1 .. graph.n /\ graph.edges[i].to \in 1 .. graph.n
              /\ graph.edges[i].transport \in Nat
              /\ <<vertices[graph.edges[i].from], vertices[graph.edges[i].to]>> \in Wires
         /\ \A v \in 1 .. graph.n :
              /\ vertices[v] \in RouteVertices(Wires)
              /\ IndexIn(vertices, vertices[v]) = v
              /\ CostOf(v) = Passing(vertices[v]) /\ CostOf(v) \in Nat
              /\ SamplingOf(vertices[v]) \in Nat
<1>1. /\ vertices \in Seq(RouteVertices(Wires)) /\ graph.n = Len(vertices)
      /\ \A j, k \in 1 .. graph.n : vertices[j] = vertices[k] => j = k
      /\ IsFiniteSet(DOMAIN graph.edges) /\ DOMAIN graph.edges \subseteq Nat
  BY DEF IsLowered
<1>2. graph.n \in Nat /\ \A v \in 1 .. graph.n : vertices[v] \in RouteVertices(Wires)
  BY <1>1
<1>3. ASSUME NEW v \in 1 .. graph.n
      PROVE  /\ vertices[v] \in Candidates
             /\ IndexIn(vertices, vertices[v]) = v
             /\ CostOf(v) = Passing(vertices[v]) /\ CostOf(v) \in Nat
             /\ SamplingOf(vertices[v]) \in Nat
  <2>1. vertices[v] \in Candidates
    BY <1>2, WireEnds
  <2>2. IndexIn(vertices, vertices[v]) = v
    BY <1>1, IndexFacts
  <2>3. CostOf(v) = Passing(vertices[v])
    BY DEF CostOf, Passing
  <2> QED
    BY <2>1, <2>2, <2>3, VertexCosts
<1>4. ASSUME NEW i \in DOMAIN graph.edges
      PROVE  /\ graph.edges[i].from \in 1 .. graph.n /\ graph.edges[i].to \in 1 .. graph.n
             /\ graph.edges[i].transport \in Nat
             /\ <<vertices[graph.edges[i].from], vertices[graph.edges[i].to]>> \in Wires
  <2> DEFINE e == graph.edges[i]
  <2>1. /\ e.from \in 1 .. graph.n /\ e.to \in 1 .. graph.n
        /\ e.transport \in Transports(vertices[e.from], vertices[e.to])
    BY <1>1 DEF IsLowered
  <2>2. vertices[e.from] \in Candidates /\ vertices[e.to] \in Candidates
    BY <1>3, <2>1
  <2>3. e.transport \in Nat
    <3> DEFINE u == vertices[e.from]
               w == vertices[e.to]
               tr == e.transport
    <3>1. tr \in Transports(u, w)
      BY <2>1
    <3> HIDE DEF u, w, tr
    <3>2. PICK t \in DOMAIN view.topics :
            \E p \in DOMAIN view.topics[t].publishers, s \in DOMAIN view.topics[t].subscribers :
              /\ Carries(t, p, s, u, w)
              /\ tr = TransportOf(view, view.topics[t], Subscriber(t, s))
      BY <3>1, TransportsMean
    <3>3. tr \in Nat
      BY <3>2, TransportsAreNumbers
    <3> QED
      BY <3>3 DEF tr
  <2>4. <<vertices[e.from], vertices[e.to]>> \in Wires
    BY <2>1, <2>2, WiresMean
  <2> QED
    BY <2>1, <2>3, <2>4
<1> QED
  BY <1>1, <1>2, <1>3, <1>4

\* A wire has an edge for the transport that costs most.
LEMMA WireFacts ==
  ASSUME IsView(view), IsLowered(vertices, graph),
         NEW j \in 1 .. graph.n, NEW k \in 1 .. graph.n, <<vertices[j], vertices[k]>> \in Wires
  PROVE  LET most == Max(Transports(vertices[j], vertices[k]))
         IN  /\ most \in Nat
             /\ \E i \in DOMAIN graph.edges :
                  /\ graph.edges[i].from = j /\ graph.edges[i].to = k
                  /\ graph.edges[i].transport = most
             /\ \A i \in DOMAIN graph.edges :
                  graph.edges[i].from = j /\ graph.edges[i].to = k =>
                    graph.edges[i].transport <= most
<1> DEFINE T == Transports(vertices[j], vertices[k])
           Between == {i \in DOMAIN graph.edges :
                         graph.edges[i].from = j /\ graph.edges[i].to = k}
<1>1. graph.n = Len(vertices) /\ IsFiniteSet(DOMAIN graph.edges)
      /\ \A i \in DOMAIN graph.edges : graph.edges[i].transport \in Nat
  BY GraphFacts
<1>2. \A i \in Between : graph.edges[i].transport \in T
  BY <1>1 DEF IsLowered
<1>3. \A tr \in T : \E i \in Between : graph.edges[i].transport = tr
  BY <1>1 DEF IsLowered
<1>4. T # {}
  BY WiresMean
<1>5. IsFiniteSet(Between)
  <2>1. Between \in SUBSET DOMAIN graph.edges
    OBVIOUS
  <2> HIDE DEF Between
  <2> QED
    BY <1>1, <2>1, FS_Subset
<1>6. IsFiniteSet(T)
  <2> DEFINE f == [i \in Between |-> graph.edges[i].transport]
  <2> HIDE DEF T, Between
  <2>1. f \in Surjection(Between, T)
    BY <1>2, <1>3 DEF Surjection
  <2> QED
    BY <1>5, <2>1, FS_Surjection
<1>7. T \subseteq Nat
  <2>1. \A i \in Between : graph.edges[i].transport \in Nat
    BY <1>1
  <2> HIDE DEF T, Between
  <2> QED
    BY <1>3, <2>1
<1>8. T \subseteq Int
  BY <1>7
<1> HIDE DEF T, Between
<1>9. Max(T) \in T /\ \A tr \in T : tr <= Max(T)
  BY <1>4, <1>6, <1>8, MaxFacts
<1>10. Max(T) \in Nat /\ \E i \in Between : graph.edges[i].transport = Max(T)
  BY <1>3, <1>7, <1>9
<1>11. \A i \in Between : graph.edges[i].transport <= Max(T)
  BY <1>2, <1>9
<1> QED
  BY <1>10, <1>11 DEF T, Between

-----------------------------------------------------------------------------
(***************************************************************************)
(* The topological order: each vertex once, and after all that a wire      *)
(* leads from.                                                             *)
(***************************************************************************)
IsOrdered ==
  /\ order \in Seq(1 .. graph.n) /\ Len(order) = graph.n
  /\ \A j, k \in 1 .. graph.n : order[j] = order[k] => j = k
  /\ \A v \in 1 .. graph.n : \E k \in 1 .. graph.n : order[k] = v
  /\ \A k \in 1 .. graph.n : \A i \in DOMAIN graph.edges :
       graph.edges[i].to = order[k] =>
         \E j \in 1 .. graph.n : j < k /\ order[j] = graph.edges[i].from

LEMMA GraphIsOne ==
  ASSUME IsView(view), IsLowered(vertices, graph)
  PROVE  SortProofs!IsGraph(graph)
<1>1. IsFiniteSet(DOMAIN graph.edges)
  BY GraphFacts
<1>2. SortProofs!IsFiniteSet(DOMAIN graph.edges)
  BY <1>1 DEF IsFiniteSet, SortProofs!IsFiniteSet
<1> QED
  BY <1>2, GraphFacts DEF SortProofs!IsGraph

LEMMA CycleIsFound ==
  ASSUME IsView(view), IsLowered(vertices, graph), SortProofs!Inv, Sort!Cyclic
  PROVE  IsCyclic(Wires)
<1>1. SortProofs!CycleIsReal
  BY SortProofs!InvShowsCycles
<1>2. PICK S \in SUBSET (1 .. graph.n) :
        /\ S # {}
        /\ \A w \in S : \E i \in DOMAIN graph.edges :
             graph.edges[i].to = w /\ graph.edges[i].from \in S
  BY <1>1 DEF SortProofs!CycleIsReal, SortProofs!Cyclic, SortProofs!Over, Sort!Cyclic, Sort!Over,
              SortProofs!Vertices, SortProofs!Into
<1> DEFINE W == {vertices[w] : w \in S}
<1>3. ASSUME NEW w \in S
      PROVE  \E u \in S : <<vertices[u], vertices[w]>> \in Wires
  <2>1. PICK i \in DOMAIN graph.edges : graph.edges[i].to = w /\ graph.edges[i].from \in S
    BY <1>2
  <2>2. <<vertices[graph.edges[i].from], vertices[graph.edges[i].to]>> \in Wires
    BY <2>1, GraphFacts
  <2> QED
    BY <2>1, <2>2
<1>4. W # {} /\ \A x \in W : \E y \in W : <<y, x>> \in Wires
  <2>1. W # {}
    <3>1. PICK w : w \in S
      BY <1>2
    <3>2. vertices[w] \in W
      BY <3>1
    <3> QED
      BY ONLY <3>2
  <2>2. ASSUME NEW x \in W
        PROVE  \E y \in W : <<y, x>> \in Wires
    <3>1. PICK w \in S : x = vertices[w]
      OBVIOUS
    <3>2. PICK u \in S : <<vertices[u], vertices[w]>> \in Wires
      BY <1>3
    <3> QED
      BY <3>1, <3>2
  <2> QED
    BY <2>1, <2>2
<1>5. W \in SUBSET {e[2] : e \in Wires}
  <2> SUFFICES ASSUME NEW x \in W PROVE \E e \in Wires : e[2] = x
    OBVIOUS
  <2>1. PICK y \in W : <<y, x>> \in Wires
    BY <1>4
  <2> QED
    BY <2>1
<1> HIDE DEF W
<1> QED
  BY <1>4, <1>5 DEF IsCyclic

LEMMA OrderIsFound ==
  ASSUME IsView(view), IsLowered(vertices, graph), SortProofs!Inv, Sort!Sorted
  PROVE  IsOrdered
<1>1. SortProofs!OrderRespectsEdges
  BY SortProofs!InvRespectsEdges
<1>2. graph.n \in Nat /\ Len(order) = graph.n
  BY GraphFacts DEF Sort!Sorted
<1>3. order \in Seq(1 .. graph.n) /\ \A j, k \in DOMAIN order : order[j] = order[k] => j = k
  BY DEF SortProofs!Inv, SortProofs!TypeOK, SortProofs!NoneTwice, SortProofs!Vertices
<1>4. DOMAIN order = 1 .. graph.n
  BY <1>2, <1>3
<1>5. \A v \in 1 .. graph.n : \E k \in 1 .. graph.n : order[k] = v
  <2>1. {order[k] : k \in DOMAIN order} = 1 .. graph.n
    BY <1>1 DEF SortProofs!OrderRespectsEdges, SortProofs!Sorted, SortProofs!Over, Sort!Sorted,
                Sort!Over, SortProofs!Placed, SortProofs!Elements, SortProofs!Vertices
  <2> QED
    BY <1>4, <2>1
<1>6. ASSUME NEW k \in 1 .. graph.n, NEW i \in DOMAIN graph.edges, graph.edges[i].to = order[k]
      PROVE  \E j \in 1 .. graph.n : j < k /\ order[j] = graph.edges[i].from
  <2>1. \E j \in 1 .. k - 1 : order[j] = graph.edges[i].from
    BY <1>1, <1>4, <1>6 DEF SortProofs!OrderRespectsEdges, SortProofs!Into
  <2>2. \A j \in 1 .. k - 1 : j \in 1 .. graph.n /\ j < k
    BY <1>2
  <2> QED
    BY <2>1, <2>2
<1> QED
  BY <1>2, <1>3, <1>4, <1>5, <1>6 DEF IsOrdered

LEMMA OrderFacts ==
  ASSUME IsOrdered, graph.n \in Nat
  PROVE  \A k \in 1 .. graph.n : order[k] \in 1 .. graph.n
<1>1. order \in Seq(1 .. graph.n) /\ Len(order) = graph.n
  BY DEF IsOrdered
<1>2. DOMAIN order = 1 .. graph.n
  BY <1>1
<1> QED
  BY <1>1, <1>2

LEMMA OrderedIsAcyclic ==
  ASSUME IsView(view), IsLowered(vertices, graph), IsOrdered
  PROVE  ~ IsCyclic(Wires)
<1> SUFFICES ASSUME NEW S, S # {}, S \subseteq {e[2] : e \in Wires},
                    \A w \in S : \E u \in S : <<u, w>> \in Wires
             PROVE  FALSE
  BY DEF IsCyclic
<1>1. graph.n \in Nat /\ graph.n = Len(vertices)
  BY GraphFacts
<1>2. ASSUME NEW w \in S
      PROVE  \E k \in 1 .. graph.n : vertices[order[k]] = w
  <2>1. w \in RouteVertices(Wires)
    <3>1. PICK u \in S : <<u, w>> \in Wires
      OBVIOUS
    <3>2. <<u, w>> \in RouteVertices(Wires) \X RouteVertices(Wires)
      BY <3>1, WireEnds
    <3> QED
      BY <3>2
  <2>2. PICK v \in 1 .. graph.n : vertices[v] = w
    BY <1>1, <2>1 DEF IsLowered
  <2> QED
    BY <2>2 DEF IsOrdered
<1> DEFINE T == {k \in 1 .. graph.n : vertices[order[k]] \in S}
<1>3. T # {} /\ T \subseteq Nat
  BY <1>2
<1>4. PICK k \in T : \A j \in T : k <= j
  <2> HIDE DEF T
  <2> QED
    BY <1>3, LeastNumber
<1>5. PICK u \in S : <<u, vertices[order[k]]>> \in Wires
  BY <1>4
<1>6. PICK j \in 1 .. graph.n : vertices[order[j]] = u
  BY <1>2
<1>7. order[j] \in 1 .. graph.n /\ order[k] \in 1 .. graph.n /\ k \in 1 .. graph.n
  BY <1>1, OrderFacts
<1>8. PICK i \in DOMAIN graph.edges : graph.edges[i].from = order[j] /\ graph.edges[i].to = order[k]
  <2> DEFINE a == order[j]
             b == order[k]
  <2>1. a \in 1 .. graph.n /\ b \in 1 .. graph.n /\ <<vertices[a], vertices[b]>> \in Wires
    BY <1>5, <1>6, <1>7
  <2> HIDE DEF a, b
  <2>2. \E i \in DOMAIN graph.edges : graph.edges[i].from = a /\ graph.edges[i].to = b
    BY <2>1, WireFacts
  <2> QED
    BY <2>2 DEF a, b
<1>9. PICK l \in 1 .. graph.n : l < k /\ order[l] = order[j]
  <2>1. \A a \in 1 .. graph.n : \A e \in DOMAIN graph.edges :
          graph.edges[e].to = order[a] =>
            \E b \in 1 .. graph.n : b < a /\ order[b] = graph.edges[e].from
    BY DEF IsOrdered
  <2> QED
    BY ONLY <1>7, <1>8, <2>1
<1>10. l \in T
  BY <1>6, <1>9
<1>11. k <= l /\ k \in Nat /\ l \in Nat
  BY <1>1, <1>4, <1>7, <1>9, <1>10
<1> QED
  BY ONLY <1>9, <1>11

-----------------------------------------------------------------------------
(***************************************************************************)
(* The latencies: a vertex that is relaxed costs what the costliest way to *)
(* it costs, and says over which hop that way comes.                       *)
(***************************************************************************)
Settled(v) ==
  /\ IsSource(v) => latency[v] # Unreached /\ CostOf(v) <= latency[v]
  /\ \A i \in Arriving(v) : latency[v] # Unreached /\ ArrivalBy(i) + CostOf(v) <= latency[v]
  /\ latency[v] # Unreached /\ prev[v] = NoVertex => IsSource(v) /\ latency[v] = CostOf(v)
  /\ prev[v] # NoVertex =>
       /\ latency[v] # Unreached
       /\ \E i \in Arriving(v) :
            graph.edges[i].from = prev[v] /\ latency[v] = ArrivalBy(i) + CostOf(v)

IsRelaxed ==
  /\ relaxed \in 0 .. graph.n
  /\ latency \in [1 .. graph.n -> Nat \cup {Unreached}]
  /\ prev \in [1 .. graph.n -> 0 .. graph.n]
  /\ \A k, u \in 1 .. graph.n : order[k] = u =>
       /\ k <= relaxed => Settled(u)
       /\ k > relaxed => latency[u] = Unreached /\ prev[u] = NoVertex

LEMMA ArrivalFacts ==
  ASSUME IsView(view), IsLowered(vertices, graph),
         latency \in [1 .. graph.n -> Nat \cup {Unreached}], NEW v \in 1 .. graph.n
  PROVE  /\ \A i \in Arriving(v) : ArrivalBy(i) \in Nat
         /\ Arriving(v) # {} =>
              /\ Arrival(v) \in Nat
              /\ \A i \in Arriving(v) : ArrivalBy(i) <= Arrival(v)
              /\ \E i \in Arriving(v) :
                   graph.edges[i].from = LastHop(v) /\ ArrivalBy(i) = Arrival(v)
<1>1. /\ IsFiniteSet(DOMAIN graph.edges) /\ DOMAIN graph.edges \subseteq Nat
      /\ \A i \in DOMAIN graph.edges :
           graph.edges[i].from \in 1 .. graph.n /\ graph.edges[i].transport \in Nat
  BY GraphFacts
<1>2. ASSUME NEW i \in Arriving(v)
      PROVE  ArrivalBy(i) \in Nat
  <2>1. /\ i \in DOMAIN graph.edges /\ latency[graph.edges[i].from] # Unreached
        /\ graph.edges[i].from \in 1 .. graph.n /\ graph.edges[i].transport \in Nat
    BY <1>1 DEF Arriving
  <2>2. latency[graph.edges[i].from] \in Nat
    BY <2>1
  <2> QED
    BY <2>1, <2>2 DEF ArrivalBy
<1>3. ASSUME Arriving(v) # {}
      PROVE  /\ Arrival(v) \in Nat
             /\ \A i \in Arriving(v) : ArrivalBy(i) <= Arrival(v)
             /\ \E i \in Arriving(v) :
                  graph.edges[i].from = LastHop(v) /\ ArrivalBy(i) = Arrival(v)
  <2> DEFINE A == Arriving(v)
             by == [i \in A |-> ArrivalBy(i)]
             T == {ArrivalBy(i) : i \in A}
             Latest == {i \in A : ArrivalBy(i) = Max(T)}
  <2>1. A \in SUBSET DOMAIN graph.edges /\ A # {}
    BY <1>3 DEF Arriving
  <2>2. IsFiniteSet(A) /\ A \subseteq Nat
    <3> HIDE DEF A
    <3> QED
      BY <1>1, <2>1, FS_Subset
  <2>3. \A i \in A : ArrivalBy(i) \in Nat /\ ArrivalBy(i) \in T
    BY <1>2
  <2> HIDE DEF A
  <2>4. by \in Surjection(A, T)
    BY DEF Surjection
  <2>5. IsFiniteSet(T) /\ T # {} /\ T \subseteq Nat
    <3>1. IsFiniteSet(T)
      <4> HIDE DEF by, T
      <4> QED
        BY <2>2, <2>4, FS_Surjection
    <3> QED
      BY <2>1, <2>3, <3>1
  <2>6. \A t \in T : \E i \in A : ArrivalBy(i) = t
    OBVIOUS
  <2>7. Arrival(v) = Max(T)
    BY DEF Arrival, A
  <2> HIDE DEF T, by
  <2>8. T \subseteq Int
    BY <2>5
  <2>9. Max(T) \in T /\ \A t \in T : t <= Max(T)
    BY <2>5, <2>8, MaxFacts
  <2>10. Latest # {} /\ Latest \in SUBSET A
    BY <2>6, <2>9
  <2>11. Latest \subseteq Int
    <3> HIDE DEF Latest
    <3>1. \A a \in Nat : a \in Int
      OBVIOUS
    <3> QED
      BY <2>2, <2>10, <3>1
  <2>12. \A i \in Latest : i \in A /\ ArrivalBy(i) = Max(T)
    OBVIOUS
  <2>13. LastHop(v) = graph.edges[Min(Latest)].from
    BY <2>7 DEF LastHop, A
  <2> HIDE DEF Latest
  <2>14. Min(Latest) \in Latest
    <3>1. IsFiniteSet(Latest)
      BY <2>2, <2>10, FS_Subset
    <3> QED
      BY <2>10, <2>11, <3>1, MinFacts
  <2>15. Max(T) \in Nat /\ \A i \in A : ArrivalBy(i) <= Max(T)
    BY <2>3, <2>5, <2>9
  <2>16. \E i \in A : graph.edges[i].from = LastHop(v) /\ ArrivalBy(i) = Max(T)
    BY <2>12, <2>13, <2>14
  <2> QED
    BY <2>7, <2>15, <2>16 DEF A
<1> QED
  BY <1>2, <1>3

LEMMA StartRelaxes ==
  ASSUME graph.n \in Nat, IsOrdered, StartRelax
  PROVE  IsRelaxed'
<1>1. /\ relaxed' = 0 /\ graph' = graph
      /\ latency' = [v \in 1 .. graph.n |-> Unreached]
      /\ prev' = [v \in 1 .. graph.n |-> NoVertex]
  BY DEF StartRelax, lowered
<1>2. /\ latency' \in [1 .. graph.n -> Nat \cup {Unreached}]
      /\ prev' \in [1 .. graph.n -> 0 .. graph.n]
      /\ 0 \in 0 .. graph.n
  BY <1>1 DEF NoVertex
<1>3. \A k \in 1 .. graph.n : ~ (k <= 0)
  OBVIOUS
<1>4. \A u \in 1 .. graph.n : latency'[u] = Unreached /\ prev'[u] = NoVertex
  BY <1>1
<1> QED
  BY <1>1, <1>2, <1>3, <1>4 DEF IsRelaxed, Unreached, NoVertex

LEMMA RelaxSettles ==
  ASSUME IsView(view), IsLowered(vertices, graph), IsOrdered, IsRelaxed, Relax
  PROVE  IsRelaxed'
<1> DEFINE v == order[relaxed + 1]
           n == graph.n
<1>1. /\ view' = view /\ sources' = sources /\ vertices' = vertices /\ graph' = graph
      /\ order' = order /\ relaxed' = relaxed + 1
  BY DEF Relax, args, ends, lowered, sorting
<1>2. /\ n \in Nat /\ relaxed \in 0 .. n /\ relaxed + 1 \in 1 .. n
      /\ latency \in [1 .. n -> Nat \cup {Unreached}]
      /\ prev \in [1 .. n -> 0 .. n]
  <2>1. Len(order) = n /\ n \in Nat
    BY GraphFacts DEF IsOrdered
  <2> QED
    BY <2>1 DEF IsRelaxed, Relax
<1>3. v \in 1 .. n /\ \A k \in 1 .. n : order[k] \in 1 .. n /\ (order[k] = v => k = relaxed + 1)
  <2>1. \A k \in 1 .. n : order[k] \in 1 .. n
    BY <1>2, OrderFacts
  <2> QED
    BY <1>2, <2>1 DEF IsOrdered
<1>4. CostOf(v) \in Nat /\ latency[v] = Unreached /\ prev[v] = NoVertex
  <2>1. relaxed + 1 > relaxed
    BY <1>2
  <2>2. latency[v] = Unreached /\ prev[v] = NoVertex
    BY <1>2, <1>3, <2>1 DEF IsRelaxed
  <2> HIDE DEF v
  <2> QED
    BY <1>3, <2>2, GraphFacts
<1>5. /\ \A i \in Arriving(v) : ArrivalBy(i) \in Nat
      /\ Arriving(v) # {} =>
           /\ Arrival(v) \in Nat
           /\ \A i \in Arriving(v) : ArrivalBy(i) <= Arrival(v)
           /\ \E i \in Arriving(v) :
                graph.edges[i].from = LastHop(v) /\ ArrivalBy(i) = Arrival(v)
  <2> HIDE DEF v
  <2> QED
    BY <1>2, <1>3, ArrivalFacts
<1> DEFINE Upstream == /\ ComesFromUpstream(v)
                       /\ latency' = [latency EXCEPT ![v] = Arrival(v) + CostOf(v)]
                       /\ prev' = [prev EXCEPT ![v] = LastHop(v)]
           Starting == /\ ~ ComesFromUpstream(v) /\ IsSource(v)
                       /\ latency' = [latency EXCEPT ![v] = CostOf(v)]
                       /\ prev' = prev
           Missed == /\ ~ ComesFromUpstream(v) /\ ~ IsSource(v)
                     /\ latency' = latency /\ prev' = prev
<1>6. Upstream \/ Starting \/ Missed
  BY DEF Relax
<1> HIDE DEF v, n
<1>7. (LastHop(v) \in 1 .. n /\ LastHop(v) # NoVertex) \/ Arriving(v) = {}
  <2> SUFFICES ASSUME Arriving(v) # {} PROVE LastHop(v) \in 1 .. n /\ LastHop(v) # NoVertex
    OBVIOUS
  <2>1. PICK i \in Arriving(v) : graph.edges[i].from = LastHop(v)
    BY <1>5
  <2>2. graph.edges[i].from \in 1 .. n
    BY GraphFacts DEF Arriving, n
  <2> QED
    BY <1>2, <2>1, <2>2 DEF NoVertex
<1>8. /\ latency' \in [1 .. n -> Nat \cup {Unreached}] /\ prev' \in [1 .. n -> 0 .. n]
      /\ \A u \in 1 .. n : u # v => latency'[u] = latency[u] /\ prev'[u] = prev[u]
  <2>1. CASE Upstream
    <3>1. Arriving(v) # {}
      BY <2>1 DEF ComesFromUpstream
    <3>2. Arrival(v) + CostOf(v) \in Nat /\ LastHop(v) \in 0 .. n
      BY <1>2, <1>4, <1>5, <1>7, <3>1
    <3> QED
      BY <1>2, <1>3, <2>1, <3>2
  <2>2. CASE Starting
    BY <1>2, <1>3, <1>4, <2>2
  <2>3. CASE Missed
    BY <1>2, <2>3
  <2> QED
    BY <1>6, <2>1, <2>2, <2>3
<1>9. \A u : CostOf(u)' = CostOf(u) /\ IsSource(u)' = IsSource(u)
  BY <1>1 DEF CostOf, IsSource
<1>10. ASSUME NEW k \in 1 .. n, NEW w \in 1 .. n, order[k] = w, k <= relaxed + 1
       PROVE  /\ Arriving(w)' = Arriving(w)
              /\ \A i \in Arriving(w) : ArrivalBy(i)' = ArrivalBy(i)
  <2>1. ASSUME NEW i \in DOMAIN graph.edges, graph.edges[i].to = w
        PROVE  latency'[graph.edges[i].from] = latency[graph.edges[i].from]
    <3>1. PICK j \in 1 .. n : j < k /\ order[j] = graph.edges[i].from
      <4>1. \A a \in 1 .. n : \A e \in DOMAIN graph.edges :
              graph.edges[e].to = order[a] =>
                \E b \in 1 .. n : b < a /\ order[b] = graph.edges[e].from
        BY DEF IsOrdered, n
      <4> QED
        BY ONLY <1>10, <2>1, <4>1
    <3>2. j # relaxed + 1
      BY <1>2, <1>10, <3>1
    <3>3. order[j] # v /\ order[j] \in 1 .. n
      BY <1>3, <3>2
    <3> QED
      BY <1>8, <3>1, <3>3
  <2>2. Arriving(w)' = {i \in DOMAIN graph.edges :
                          graph.edges[i].to = w /\ latency'[graph.edges[i].from] # Unreached}
    BY <1>1 DEF Arriving, Unreached
  <2>3. Arriving(w) = {i \in DOMAIN graph.edges :
                         graph.edges[i].to = w /\ latency[graph.edges[i].from] # Unreached}
    BY DEF Arriving
  <2>4. ASSUME NEW i \in Arriving(w)
        PROVE  ArrivalBy(i)' = ArrivalBy(i)
    <3>1. i \in DOMAIN graph.edges /\ graph.edges[i].to = w
      BY <2>3
    <3>2. latency'[graph.edges[i].from] = latency[graph.edges[i].from]
      BY <2>1, <3>1
    <3> QED
      BY <1>1, <3>2 DEF ArrivalBy
  <2>5. Arriving(w)' = Arriving(w)
    BY <2>1, <2>2, <2>3
  <2> QED
    BY <2>4, <2>5
<1> DEFINE SettledLater(u) ==
             /\ IsSource(u) => latency'[u] # Unreached /\ CostOf(u) <= latency'[u]
             /\ \A i \in Arriving(u) : latency'[u] # Unreached /\ ArrivalBy(i) + CostOf(u) <= latency'[u]
             /\ latency'[u] # Unreached /\ prev'[u] = NoVertex => IsSource(u) /\ latency'[u] = CostOf(u)
             /\ prev'[u] # NoVertex =>
                  /\ latency'[u] # Unreached
                  /\ \E i \in Arriving(u) :
                       graph.edges[i].from = prev'[u] /\ latency'[u] = ArrivalBy(i) + CostOf(u)
<1>11. ASSUME NEW k \in 1 .. n, NEW u \in 1 .. n, order[k] = u, k <= relaxed + 1,
              SettledLater(u)
       PROVE  Settled(u)'
  <2>1. Arriving(u)' = Arriving(u) /\ \A i \in Arriving(u) : ArrivalBy(i)' = ArrivalBy(i)
    BY <1>10, <1>11
  <2>2. CostOf(u)' = CostOf(u) /\ IsSource(u)' = IsSource(u)
    BY <1>9
  <2>3. SettledLater(u)
    BY <1>11
  <2> QED
    BY <1>1, <2>1, <2>2, <2>3 DEF Settled, Unreached, NoVertex
<1>12. ASSUME NEW k \in 1 .. n, NEW u \in 1 .. n, order[k] = u, k <= relaxed
       PROVE  Settled(u)'
  <2>1. Settled(u)
    BY <1>12 DEF IsRelaxed, n
  <2>2. u # v /\ k <= relaxed + 1
    BY <1>2, <1>3, <1>12
  <2>3. latency'[u] = latency[u] /\ prev'[u] = prev[u]
    BY <1>8, <2>2
  <2>4. SettledLater(u)
    BY <2>1, <2>3 DEF Settled
  <2> HIDE DEF SettledLater
  <2> QED
    BY <1>11, <1>12, <2>2, <2>4
<1>13. SettledLater(v)
  <2>1. ASSUME Upstream
        PROVE  SettledLater(v)
    <3>1. Arriving(v) # {} /\ (IsSource(v) => Arrival(v) + CostOf(v) > CostOf(v))
      BY <2>1 DEF ComesFromUpstream
    <3>2. latency'[v] = Arrival(v) + CostOf(v) /\ prev'[v] = LastHop(v)
      BY <1>2, <1>3, <2>1
    <3>3. latency'[v] # Unreached /\ Arrival(v) \in Nat /\ prev'[v] # NoVertex
      BY <1>4, <1>5, <1>7, <3>1, <3>2 DEF Unreached
    <3>4. CostOf(v) <= latency'[v]
      BY <1>4, <3>2, <3>3
    <3>5. \A i \in Arriving(v) : ArrivalBy(i) + CostOf(v) <= latency'[v]
      BY <1>4, <1>5, <3>1, <3>2, <3>3
    <3>6. \E i \in Arriving(v) :
            graph.edges[i].from = prev'[v] /\ latency'[v] = ArrivalBy(i) + CostOf(v)
      BY <1>5, <3>1, <3>2
    <3> QED
      BY <3>3, <3>4, <3>5, <3>6
  <2>2. ASSUME Starting
        PROVE  SettledLater(v)
    <3>1. latency'[v] = CostOf(v) /\ prev'[v] = NoVertex
      BY <1>2, <1>3, <1>4, <2>2
    <3>2. latency'[v] # Unreached
      BY <1>4, <3>1 DEF Unreached
    <3>3. ASSUME NEW i \in Arriving(v)
          PROVE  ArrivalBy(i) + CostOf(v) <= latency'[v]
      <4>1. ~ (Arrival(v) + CostOf(v) > CostOf(v))
        BY <2>2 DEF ComesFromUpstream
      <4>2. Arrival(v) \in Nat /\ ArrivalBy(i) \in Nat /\ ArrivalBy(i) <= Arrival(v)
        BY <1>5
      <4> QED
        BY <1>4, <3>1, <4>1, <4>2
    <3> QED
      BY <1>4, <2>2, <3>1, <3>2, <3>3
  <2>3. ASSUME Missed
        PROVE  SettledLater(v)
    <3>1. Arriving(v) = {} /\ ~ IsSource(v)
      BY <2>3 DEF ComesFromUpstream
    <3>2. latency'[v] = Unreached /\ prev'[v] = NoVertex
      BY <1>4, <2>3
    <3> QED
      BY <3>1, <3>2
  <2> HIDE DEF SettledLater, Upstream, Starting, Missed
  <2> QED
    BY <1>6, <2>1, <2>2, <2>3
<1>14. ASSUME NEW k \in 1 .. n, NEW u \in 1 .. n, order[k] = u, k > relaxed + 1
       PROVE  latency'[u] = Unreached /\ prev'[u] = NoVertex
  <2>1. k > relaxed /\ u # v
    BY <1>2, <1>3, <1>14
  <2>2. latency[u] = Unreached /\ prev[u] = NoVertex
    BY <1>14, <2>1 DEF IsRelaxed, n
  <2> QED
    BY <1>8, <2>1, <2>2
<1>15. ASSUME NEW k \in 1 .. n, NEW u \in 1 .. n, order[k] = u, k <= relaxed + 1
       PROVE  Settled(u)'
  <2>1. CASE k <= relaxed
    BY <1>12, <1>15, <2>1
  <2>2. CASE k = relaxed + 1
    <3>1. u = v
      BY <1>15, <2>2 DEF v
    <3> HIDE DEF SettledLater
    <3>2. SettledLater(u)
      BY <1>13, <3>1
    <3> QED
      BY <1>11, <1>15, <3>2
  <2>3. k <= relaxed \/ k = relaxed + 1
    BY <1>2, <1>15
  <2> QED
    BY <2>1, <2>2, <2>3
<1> QED
  <2>1. n' = n /\ relaxed + 1 \in 0 .. n
    BY <1>1, <1>2 DEF n
  <2>2. \A k, u \in 1 .. n : order[k] = u =>
          /\ k <= relaxed + 1 => Settled(u)'
          /\ k > relaxed + 1 => latency'[u] = Unreached /\ prev'[u] = NoVertex
    BY <1>14, <1>15
  <2> QED
    BY <1>1, <1>8, <2>1, <2>2 DEF IsRelaxed, n, Unreached, NoVertex

LEMMA AllAreSettled ==
  ASSUME graph.n \in Nat, IsOrdered, IsRelaxed, relaxed = graph.n
  PROVE  \A v \in 1 .. graph.n : Settled(v)
<1> SUFFICES ASSUME NEW v \in 1 .. graph.n PROVE Settled(v)
  OBVIOUS
<1>1. PICK k \in 1 .. graph.n : order[k] = v
  BY DEF IsOrdered
<1>2. k <= relaxed
  BY <1>1
<1> QED
  BY <1>1, <1>2 DEF IsRelaxed

-----------------------------------------------------------------------------
(***************************************************************************)
(* No route of the model costs more than its last vertex has as latency.   *)
(***************************************************************************)
LEMMA RouteMeans ==
  ASSUME IsView(view), NEW r
  PROVE  r \in Routes(Wires) <=>
           /\ r \in Seq(RouteVertices(Wires))
           /\ Len(r) \in 1 .. Cardinality(RouteVertices(Wires))
           /\ FollowsWires(r, Wires)
           /\ r[1][1] \in Starts /\ Last(r)[1] \in Stops
<1>1. IsFiniteSet(RouteVertices(Wires))
  BY WireEnds, CandidatesAreListable
<1>2. Wires \subseteq RouteVertices(Wires) \X RouteVertices(Wires)
  BY WireEnds
<1>3. r \in Walks(RouteVertices(Wires), Wires) <=>
        /\ r \in Seq(RouteVertices(Wires))
        /\ Len(r) \in 1 .. Cardinality(RouteVertices(Wires))
        /\ FollowsWires(r, Wires)
  BY <1>1, <1>2, WalksMeans
<1> QED
  BY <1>3 DEF Routes

\* The vertices of a route by their places in the graph.
LEMMA PlacesOfRoute ==
  ASSUME IsView(view), IsLowered(vertices, graph),
         NEW r \in Seq(RouteVertices(Wires)), Len(r) \in Nat \ {0}, FollowsWires(r, Wires)
  PROVE  \E at \in [1 .. Len(r) -> 1 .. graph.n] :
           /\ \A k \in 1 .. Len(r) :
                /\ vertices[at[k]] = r[k] /\ IndexIn(vertices, r[k]) = at[k]
                /\ Passing(r[k]) \in Nat /\ Passing(r[k]) = CostOf(at[k])
           /\ \A k \in 2 .. Len(r) :
                /\ <<vertices[at[k - 1]], vertices[at[k]]>> \in Wires
                /\ Max(Transports(r[k - 1], r[k])) \in Nat
<1> DEFINE at == [k \in 1 .. Len(r) |-> IndexIn(vertices, r[k])]
           n == graph.n
<1>1. graph.n \in Nat /\ graph.n = Len(vertices)
  BY GraphFacts
<1>2. ASSUME NEW k \in 1 .. Len(r)
      PROVE  /\ at[k] \in 1 .. n /\ vertices[at[k]] = r[k] /\ IndexIn(vertices, r[k]) = at[k]
             /\ Passing(r[k]) \in Nat /\ Passing(r[k]) = CostOf(at[k])
  <2>1. r[k] \in RouteVertices(Wires)
    OBVIOUS
  <2>2. PICK v \in 1 .. n : vertices[v] = r[k]
    BY <1>1, <2>1 DEF IsLowered
  <2>3. IndexIn(vertices, vertices[v]) = v /\ CostOf(v) = Passing(vertices[v]) /\ CostOf(v) \in Nat
    BY GraphFacts
  <2>4. at[k] = v
    BY <2>2, <2>3
  <2> HIDE DEF at
  <2> QED
    BY <2>2, <2>3, <2>4
<1>3. at \in [1 .. Len(r) -> 1 .. n]
  BY <1>2
<1> HIDE DEF at
<1>4. ASSUME NEW k \in 2 .. Len(r)
      PROVE  /\ <<vertices[at[k - 1]], vertices[at[k]]>> \in Wires
             /\ Max(Transports(r[k - 1], r[k])) \in Nat
  <2>1. k - 1 \in 1 .. Len(r) - 1 /\ k - 1 \in 1 .. Len(r) /\ k \in 1 .. Len(r) /\ (k - 1) + 1 = k
    OBVIOUS
  <2>2. <<r[k - 1], r[k]>> \in Wires
    BY <2>1 DEF FollowsWires
  <2> DEFINE a == at[k - 1]
             b == at[k]
  <2>3. a \in 1 .. n /\ b \in 1 .. n /\ vertices[a] = r[k - 1] /\ vertices[b] = r[k]
    BY <1>2, <2>1
  <2> HIDE DEF a, b
  <2>4. <<vertices[a], vertices[b]>> \in Wires
    BY <2>2, <2>3
  <2>5. Max(Transports(vertices[a], vertices[b])) \in Nat
    BY <2>3, <2>4, WireFacts
  <2> QED
    BY <2>3, <2>4, <2>5 DEF a, b
<1> QED
  BY <1>2, <1>3, <1>4

LEMMA RoutesAreBounded ==
  ASSUME IsView(view), IsLowered(vertices, graph), IsOrdered, IsRelaxed, relaxed = graph.n,
         sources = Starts, sinks = Stops, NEW r \in Routes(Wires)
  PROVE  \E v \in ReachedSinks : RouteCost(r) <= latency[v]
<1> DEFINE n == graph.n
<1>1. /\ r \in Seq(RouteVertices(Wires)) /\ Len(r) \in Nat \ {0}
      /\ FollowsWires(r, Wires) /\ r[1][1] \in Starts /\ Last(r)[1] \in Stops
  BY RouteMeans
<1>2. PICK at \in [1 .. Len(r) -> 1 .. n] :
        /\ \A k \in 1 .. Len(r) :
             /\ vertices[at[k]] = r[k] /\ IndexIn(vertices, r[k]) = at[k]
             /\ Passing(r[k]) \in Nat /\ Passing(r[k]) = CostOf(at[k])
        /\ \A k \in 2 .. Len(r) :
             /\ <<vertices[at[k - 1]], vertices[at[k]]>> \in Wires
             /\ Max(Transports(r[k - 1], r[k])) \in Nat
  BY <1>1, PlacesOfRoute
<1>3. PICK cost : IsPrefixCost(cost, r)
  BY <1>1, <1>2, RouteCostMeans
<1>4. /\ cost \in [1 .. Len(r) -> Nat] /\ cost[1] = Passing(r[1])
      /\ \A k \in 2 .. Len(r) :
           cost[k] = cost[k - 1] + Max(Transports(r[k - 1], r[k])) + Passing(r[k])
      /\ RouteCost(r) = cost[Len(r)]
  BY <1>3 DEF IsPrefixCost
<1>5. n \in Nat /\ \A v \in 1 .. n : Settled(v) /\ latency[v] \in Nat \cup {Unreached}
  BY GraphFacts, AllAreSettled DEF IsRelaxed
<1> DEFINE T == {k \in 1 .. Len(r) : latency[at[k]] # Unreached /\ cost[k] <= latency[at[k]]}
<1>6. 1 \in T
  <2>1. 1 \in 1 .. Len(r)
    BY <1>1
  <2>2. IsSource(at[1])
    BY <1>1, <1>2, <2>1 DEF IsSource
  <2>3. Settled(at[1]) /\ cost[1] = CostOf(at[1])
    BY <1>2, <1>4, <1>5, <2>1
  <2>4. latency[at[1]] # Unreached /\ CostOf(at[1]) <= latency[at[1]]
    BY <2>2, <2>3 DEF Settled
  <2> QED
    BY <2>1, <2>3, <2>4
<1>7. ASSUME NEW k \in 1 .. Len(r), k # Len(r), k \in T
      PROVE  k + 1 \in T
  <2> DEFINE a == at[k]
             b == at[k + 1]
             most == Max(Transports(r[k], r[k + 1]))
  <2>1. k + 1 \in 2 .. Len(r) /\ k + 1 \in 1 .. Len(r) /\ (k + 1) - 1 = k
    BY <1>1, <1>7
  <2>2. a \in 1 .. n /\ b \in 1 .. n /\ vertices[a] = r[k] /\ vertices[b] = r[k + 1]
        /\ Passing(r[k + 1]) = CostOf(b) /\ CostOf(b) \in Nat
    BY <1>2, <2>1
  <2>3. <<vertices[a], vertices[b]>> \in Wires /\ most \in Nat
    BY <1>2, <2>1
  <2>4. cost[k + 1] = cost[k] + most + CostOf(b) /\ cost[k] \in Nat
    BY <1>4, <2>1, <2>2
  <2>5. latency[a] # Unreached /\ cost[k] <= latency[a] /\ latency[a] \in Nat /\ latency[b] \in Nat \cup {Unreached}
    BY <1>5, <1>7, <2>2
  <2>6. most = Max(Transports(vertices[a], vertices[b]))
    BY <2>2
  <2> HIDE DEF a, b, most
  <2>7. PICK i \in DOMAIN graph.edges :
          graph.edges[i].from = a /\ graph.edges[i].to = b /\ graph.edges[i].transport = most
    BY <2>2, <2>3, <2>6, WireFacts
  <2>8. i \in Arriving(b) /\ ArrivalBy(i) = latency[a] + most
    BY <2>5, <2>7 DEF Arriving, ArrivalBy
  <2>9. latency[b] # Unreached /\ ArrivalBy(i) + CostOf(b) <= latency[b]
    BY <1>5, <2>2, <2>8 DEF Settled
  <2>10. cost[k + 1] <= latency[b]
    <3>1. latency[b] \in Nat
      BY <2>5, <2>9
    <3>2. latency[a] + most + CostOf(b) <= latency[b]
      BY <2>8, <2>9
    <3>3. cost[k] + most + CostOf(b) <= latency[a] + most + CostOf(b)
      <4>1. \A x, y, z, c \in Nat : x <= y => x + z + c <= y + z + c
        OBVIOUS
      <4> QED
        BY <2>2, <2>3, <2>4, <2>5, <4>1
    <3>4. \A x, y, z \in Nat : x <= y /\ y <= z => x <= z
      OBVIOUS
    <3>5. cost[k] + most + CostOf(b) \in Nat /\ latency[a] + most + CostOf(b) \in Nat
      <4>1. \A x, y, z \in Nat : x + y + z \in Nat
        OBVIOUS
      <4>2. cost[k] \in Nat /\ latency[a] \in Nat /\ most \in Nat /\ CostOf(b) \in Nat
        BY <2>2, <2>3, <2>4, <2>5
      <4> QED
        BY ONLY <4>1, <4>2
    <3> QED
      BY <2>4, <3>1, <3>2, <3>3, <3>4, <3>5
  <2> QED
    BY <2>1, <2>9, <2>10 DEF b
<1>8. Len(r) \in T
  <2>1. 1 .. Len(r) \subseteq T
    <3> HIDE DEF T
    <3> QED
      BY <1>1, <1>6, <1>7, 1 \in Nat, Climbs
  <2> QED
    BY <1>1, <2>1
<1> DEFINE v == at[Len(r)]
<1>9. v \in 1 .. n /\ latency[v] # Unreached /\ RouteCost(r) <= latency[v]
  <2>1. Len(r) \in 1 .. Len(r)
    BY <1>1
  <2> QED
    BY <1>2, <1>4, <1>8, <2>1
<1>10. IsSink(v)
  <2>1. vertices[v] = Last(r)
    <3>1. Len(r) \in 1 .. Len(r)
      BY <1>1
    <3> QED
      BY <1>2, <3>1 DEF Last
  <2> QED
    BY <1>1, <2>1 DEF IsSink
<1> HIDE DEF v
<1> QED
  BY <1>9, <1>10 DEF ReachedSinks

LEMMA WorstSinkFacts ==
  ASSUME graph.n \in Nat, latency \in [1 .. graph.n -> Nat \cup {Unreached}], ReachedSinks # {}
  PROVE  /\ WorstSink \in 1 .. graph.n /\ IsSink(WorstSink) /\ latency[WorstSink] \in Nat
         /\ \A v \in ReachedSinks : latency[v] <= latency[WorstSink]
<1> DEFINE S == ReachedSinks
           T == {latency[v] : v \in S}
           Worst == {v \in S : \A u \in S : latency[u] <= latency[v]}
<1>1. /\ S \in SUBSET (1 .. graph.n)
      /\ \A v \in S : v \in 1 .. graph.n /\ IsSink(v) /\ latency[v] \in Nat
  BY DEF ReachedSinks
<1>2. IsFiniteSet(S)
  <2>1. IsFiniteSet(1 .. graph.n)
    BY FS_Interval
  <2> HIDE DEF S
  <2> QED
    BY <1>1, <2>1, FS_Subset
<1>3. S # {}
  OBVIOUS
<1>4. WorstSink = Min(Worst)
  BY DEF WorstSink
<1> HIDE DEF S
<1>5. IsFiniteSet(T) /\ T \subseteq Int /\ T # {}
  <2>1. [v \in S |-> latency[v]] \in Surjection(S, T)
    BY DEF Surjection
  <2>2. IsFiniteSet(T)
    BY <1>2, <2>1, FS_Surjection
  <2>3. \A a \in Nat : a \in Int
    OBVIOUS
  <2>4. \A v \in S : latency[v] \in Int
    BY <1>1, <2>3
  <2>5. T \subseteq Int
    BY <2>4
  <2>6. T # {}
    BY <1>3
  <2> QED
    BY <2>2, <2>5, <2>6
<1>6. \A v \in S : latency[v] \in T
  OBVIOUS
<1>7. \A x \in T : \E v \in S : latency[v] = x
  OBVIOUS
<1> HIDE DEF T
<1>8. Max(T) \in T /\ \A x \in T : x <= Max(T)
  BY <1>5, MaxFacts
<1>9. Worst # {} /\ Worst \in SUBSET S
  BY <1>6, <1>7, <1>8
<1>10. \A v \in Worst : v \in S /\ \A u \in S : latency[u] <= latency[v]
  OBVIOUS
<1> HIDE DEF Worst
<1>11. Min(Worst) \in Worst
  <2>1. IsFiniteSet(Worst)
    BY <1>2, <1>9, FS_Subset
  <2>2. Worst \subseteq Int
    BY <1>1, <1>9
  <2> QED
    BY <1>9, <2>1, <2>2, MinFacts
<1>12. WorstSink \in S /\ \A u \in S : latency[u] <= latency[WorstSink]
  BY <1>4, <1>10, <1>11
<1> QED
  BY <1>1, <1>12 DEF S

-----------------------------------------------------------------------------
(***************************************************************************)
(* The invariant, part by part.  What the search for the subtree has found *)
(* lies below the scope; while a pass has found nothing, the scopes it has *)
(* looked at are no children of what was found.                            *)
(***************************************************************************)
ScopesInv ==
  /\ subtree \in SUBSET ({sp.scope} \cup DOMAIN view.parent)
  /\ sp.scope \in subtree
  /\ looked \in 0 .. Len(view.parent)
  /\ before \in Nat /\ before <= Cardinality(subtree)
  /\ \A s \in subtree : LiesBelow(s)
  /\ pc = "subtree" /\ Cardinality(subtree) = before =>
       \A s \in 1 .. looked : view.parent[s] \in subtree => s \in subtree
  /\ pc # "subtree" => HasChildren(subtree)

\* The two ends are those of the scope path, and a search without an end has failed.
EndsInv ==
  /\ pc \notin {"subtree", "ends"} => sources = Starts /\ sinks = Stops
  /\ pc \notin {"subtree", "ends", "done"} => Starts # {} /\ Stops # {}

LoweredInv == pc \in {"index", "sort", "relax", "walk"} => IsLowered(vertices, graph)

OrderInv ==
  /\ pc = "sort" => SortProofs!Inv
  /\ pc \in {"relax", "walk"} => IsOrdered

RelaxedInv ==
  /\ pc \in {"relax", "walk"} => IsRelaxed
  /\ pc = "walk" => relaxed = graph.n /\ ReachedSinks # {}

\* The places of the vertices walked over: from the worst sink on, each is the one
\* before on the longest route to the one before it, and the order they have in the
\* graph tells how many there can be.
IsWalk(at) ==
  /\ DOMAIN at = 1 .. Len(traversed)
  /\ \A j \in 1 .. Len(traversed) :
       /\ at[j] \in 1 .. graph.n /\ traversed[j] = vertices[at[j]]
       /\ latency[at[j]] # Unreached
  /\ \A j \in 1 .. Len(traversed) - 1 : prev[at[j]] = at[j + 1]
  /\ IF traversed = <<>> THEN cur = WorstSink
     ELSE at[1] = WorstSink /\ prev[at[Len(traversed)]] = cur

WalkInv ==
  pc = "walk" =>
    /\ traversed \in Seq(RouteVertices(Wires))
    /\ cur \in 0 .. graph.n
    /\ cur # NoVertex => latency[cur] # Unreached
    /\ Len(traversed) <= graph.n
    /\ \A k \in 1 .. graph.n : order[k] = cur => Len(traversed) + k <= graph.n
    /\ \E at : IsWalk(at)
    /\ sampling = SamplingTerm(Reverse(traversed))

AnswerInv ==
  /\ pc # "done" => answer = NoAnswer
  /\ FailureIsJustified /\ RouteIsLongest /\ RouteIsHonest

Inv ==
  /\ pc \in {"subtree", "ends", "lower", "index", "sort", "relax", "walk", "done"}
  /\ IsView(view)
  /\ ScopesInv /\ EndsInv /\ LoweredInv /\ OrderInv /\ RelaxedInv /\ WalkInv /\ AnswerInv

-----------------------------------------------------------------------------
LEMMA ArgsAreFixed ==
  ASSUME RouteNext
  PROVE  view' = view /\ sp' = sp
BY DEF RouteNext, RouteStep, RouteReturned, routeVars, args, LookAtScope, EndPass, FindEnds,
       BuildPathGraph, StartSort, SortStep, FailCycle, StartRelax, Relax, PickSink, FailNoRoute,
       WalkBack, Deliver

(***************************************************************************)
(* The subtree.                                                            *)
(***************************************************************************)
LEMMA SubtreeIsFinite ==
  ASSUME IsView(view), NEW S \in SUBSET ({sp.scope} \cup DOMAIN view.parent)
  PROVE  IsFiniteSet(S) /\ Cardinality(S) \in Nat
<1>1. IsFiniteSet(DOMAIN view.parent)
  BY SeqFacts DEF IsView
<1>2. IsFiniteSet(DOMAIN view.parent \cup {sp.scope})
  BY <1>1, FS_AddElement
<1>3. S \in SUBSET (DOMAIN view.parent \cup {sp.scope})
  OBVIOUS
<1> QED
  BY <1>2, <1>3, FS_Subset, FS_CardinalityType

LEMMA SubtreeIsRight ==
  ASSUME ScopesInv, pc # "subtree"
  PROVE  InsideIsRight
<1>1. \A x : LiesBelow(x) => x \in subtree
  BY DEF ScopesInv, LiesBelow
<1>2. \A x \in subtree : LiesBelow(x)
  BY DEF ScopesInv
<1> QED
  BY <1>1, <1>2 DEF InsideIsRight, Inside, LiesInside

LEMMA LookAtScopeFinds ==
  ASSUME IsView(view), ScopesInv, LookAtScope
  PROVE  ScopesInv'
<1>1. /\ pc = "subtree" /\ pc' = "subtree" /\ view' = view /\ sp' = sp /\ before' = before
      /\ looked < Len(view.parent) /\ looked' = looked + 1
  BY DEF LookAtScope, args
<1>2. Len(view.parent) \in Nat /\ DOMAIN view.parent = 1 .. Len(view.parent)
  BY SeqFacts DEF IsView
<1>3. looked' \in 0 .. Len(view.parent) /\ looked' \in 1 .. Len(view.parent) /\ looked \in Nat
  BY <1>1, <1>2 DEF ScopesInv
<1>4. \A x : LiesBelow(x)' = LiesBelow(x)
  BY <1>1, SameMembers DEF args
<1>5. IsFiniteSet(subtree) /\ Cardinality(subtree) \in Nat
  BY SubtreeIsFinite DEF ScopesInv
<1>6. CASE view.parent[looked + 1] \in subtree /\ looked + 1 \notin subtree
  <2>1. subtree' = subtree \cup {looked + 1}
    BY <1>6 DEF LookAtScope
  <2>2. Cardinality(subtree') = Cardinality(subtree) + 1
    BY <1>5, <1>6, <2>1, FS_AddElement
  <2>3. subtree' \in SUBSET ({sp.scope} \cup DOMAIN view.parent) /\ sp.scope \in subtree'
    BY <1>1, <1>2, <1>3, <2>1 DEF ScopesInv
  <2>4. LiesBelow(looked + 1)
    <3> SUFFICES ASSUME NEW S \in SUBSET ({sp.scope} \cup DOMAIN view.parent),
                        sp.scope \in S, HasChildren(S)
                 PROVE  looked + 1 \in S
      BY DEF LiesBelow
    <3>1. LiesBelow(view.parent[looked + 1])
      BY <1>6 DEF ScopesInv
    <3>2. view.parent[looked + 1] \in S
      BY <3>1 DEF LiesBelow
    <3> QED
      BY <1>1, <1>2, <1>3, <3>2 DEF HasChildren
  <2>5. \A s \in subtree' : LiesBelow(s)
    BY <2>1, <2>4 DEF ScopesInv
  <2>6. before <= Cardinality(subtree') /\ Cardinality(subtree') # before /\ before \in Nat
    BY <1>5, <2>2 DEF ScopesInv
  <2> QED
    BY <1>1, <1>3, <1>4, <2>3, <2>5, <2>6 DEF ScopesInv
<1>7. CASE ~ (view.parent[looked + 1] \in subtree /\ looked + 1 \notin subtree)
  <2>1. subtree' = subtree
    BY <1>7 DEF LookAtScope
  <2>2. ASSUME Cardinality(subtree) = before
        PROVE  \A s \in 1 .. looked + 1 : view.parent[s] \in subtree => s \in subtree
    <3>1. \A s \in 1 .. looked + 1 : s \in 1 .. looked \/ s = looked + 1
      BY <1>3
    <3> QED
      BY <1>1, <1>7, <2>2, <3>1 DEF ScopesInv
  <2> QED
    BY <1>1, <1>3, <1>4, <2>1, <2>2 DEF ScopesInv
<1> QED
  BY <1>6, <1>7

LEMMA EndPassFinds ==
  ASSUME IsView(view), ScopesInv, EndPass
  PROVE  ScopesInv'
<1>1. /\ pc = "subtree" /\ view' = view /\ sp' = sp /\ subtree' = subtree
      /\ looked = Len(view.parent)
  BY DEF EndPass, args
<1>2. Len(view.parent) \in Nat /\ DOMAIN view.parent = 1 .. Len(view.parent)
  BY SeqFacts DEF IsView
<1>3. \A x : LiesBelow(x)' = LiesBelow(x)
  BY <1>1, SameMembers DEF args
<1>4. Cardinality(subtree) \in Nat
  BY SubtreeIsFinite DEF ScopesInv
<1>5. CASE Cardinality(subtree) = before
  <2>1. pc' = "ends" /\ looked' = looked /\ before' = before
    BY <1>5 DEF EndPass
  <2>2. HasChildren(subtree)'
    BY <1>1, <1>2, <1>5 DEF ScopesInv, HasChildren
  <2> QED
    BY <1>1, <1>3, <2>1, <2>2 DEF ScopesInv
<1>6. CASE Cardinality(subtree) # before
  <2>1. pc' = "subtree" /\ looked' = 0 /\ before' = Cardinality(subtree)
    BY <1>1, <1>6 DEF EndPass
  <2>2. 0 \in 0 .. Len(view.parent) /\ Cardinality(subtree) <= Cardinality(subtree)
    BY <1>2, <1>4
  <2>3. \A s \in 1 .. 0 : FALSE
    OBVIOUS
  <2> QED
    BY <1>1, <1>3, <1>4, <2>1, <2>2, <2>3 DEF ScopesInv
<1> QED
  BY <1>5, <1>6

LEMMA ScopesStep ==
  ASSUME IsView(view), ScopesInv, RouteStep
  PROVE  ScopesInv'
<1>1. CASE LookAtScope
  BY <1>1, LookAtScopeFinds
<1>2. CASE EndPass
  BY <1>2, EndPassFinds
<1>3. CASE ~ LookAtScope /\ ~ EndPass
  <2>1. pc # "subtree" /\ pc' # "subtree" /\ UNCHANGED <<view, sp, subtree, looked, before>>
    BY <1>3 DEF RouteStep, args, scoping, Answer, FindEnds, BuildPathGraph, StartSort, SortStep,
                FailCycle, StartRelax, Relax, PickSink, FailNoRoute, WalkBack, Deliver
  <2>2. \A x : LiesBelow(x)' = LiesBelow(x)
    BY <2>1, SameMembers DEF args
  <2>3. HasChildren(subtree)'
    BY <2>1 DEF ScopesInv, HasChildren
  <2> QED
    BY <2>1, <2>2, <2>3 DEF ScopesInv
<1> QED
  BY <1>1, <1>2, <1>3

(***************************************************************************)
(* The ends and the graph.                                                 *)
(***************************************************************************)
LEMMA EndsStep ==
  ASSUME Inv, RouteStep
  PROVE  EndsInv'
<1>1. /\ view' = view /\ sp' = sp
      /\ Starts' = Starts /\ Stops' = Stops
  BY ArgsAreFixed, SameWires DEF RouteNext, args
<1>2. CASE FindEnds
  <2>1. InsideIsRight
    BY <1>2, SubtreeIsRight DEF Inv, FindEnds
  <2>2. sources' = Starts /\ sinks' = Stops
    BY <1>2, <2>1 DEF FindEnds, InsideIsRight, Starts, Stops
  <2>3. (sources' = {} \/ sinks' = {}) => pc' = "done"
    BY <1>2 DEF FindEnds, Answer
  <2> QED
    BY <1>1, <2>2, <2>3 DEF EndsInv
<1>3. CASE LookAtScope \/ EndPass
  <2>1. pc' \in {"subtree", "ends"}
    BY <1>3 DEF LookAtScope, EndPass
  <2> QED
    BY <2>1 DEF EndsInv
<1>4. CASE ~ FindEnds /\ ~ LookAtScope /\ ~ EndPass
  <2>1. /\ sources' = sources /\ sinks' = sinks
        /\ pc \notin {"subtree", "ends", "done"}
    BY <1>4 DEF RouteStep, ends, BuildPathGraph, StartSort, SortStep,
                FailCycle, StartRelax, Relax, PickSink, FailNoRoute, WalkBack, Deliver
  <2> QED
    BY <1>1, <2>1 DEF Inv, EndsInv
<1> QED
  BY <1>2, <1>3, <1>4

LEMMA LoweredStaysLowered ==
  ASSUME UNCHANGED args, NEW vs, NEW g, IsLowered(vs, g), vertices' = vs, graph' = g
  PROVE  IsLowered(vertices, graph)'
<1>1. RouteVertices(Wires)' = RouteVertices(Wires)
  BY SameWires
<1>2. \A u, w : Transports(u, w)' = Transports(u, w)
  BY SameTransports
<1> QED
  BY <1>1, <1>2 DEF IsLowered

LEMMA LoweredStep ==
  ASSUME Inv, RouteStep
  PROVE  LoweredInv'
<1>1. view' = view /\ sp' = sp /\ UNCHANGED args
  BY ArgsAreFixed DEF RouteNext, args
<1>2. CASE BuildPathGraph
  <2> DEFINE vs == Listed(Declared \cup Touched)
             hs == Listed(Hops)
             g == [n |-> Len(vs), edges |-> [i \in DOMAIN hs |-> Indexed(vs, RawEdge(hs[i]))]]
  <2>1. vertices' = vs /\ graph' = g
    BY <1>2 DEF BuildPathGraph
  <2>2. IsView(view) /\ InsideIsRight
    BY <1>2, SubtreeIsRight DEF Inv, BuildPathGraph
  <2>3. IsLowered(vs, g)
    BY <2>2, BuildLowers
  <2> HIDE DEF vs, g
  <2>4. IsLowered(vertices, graph)'
    BY <1>1, <2>1, <2>3, LoweredStaysLowered
  <2> QED
    BY <2>4 DEF LoweredInv
<1>3. CASE LookAtScope \/ EndPass \/ FindEnds
  <2>1. pc' \notin {"index", "sort", "relax", "walk"}
    BY <1>3 DEF LookAtScope, EndPass, FindEnds, Answer
  <2> QED
    BY <2>1 DEF LoweredInv
<1>4. CASE ~ (BuildPathGraph \/ LookAtScope \/ EndPass \/ FindEnds)
  <2>1. /\ vertices' = vertices /\ graph' = graph
        /\ pc \in {"index", "sort", "relax", "walk"}
    BY <1>4 DEF RouteStep, lowered, StartSort, SortStep, Sort!Step, Sort!Seed, Sort!Take,
                Sort!Follow, Sort!FollowEdge,
                FailCycle, StartRelax, Relax, PickSink, FailNoRoute, WalkBack, Deliver
  <2>2. IsLowered(vertices, graph)'
    BY <1>1, <2>1, LoweredStaysLowered DEF Inv, LoweredInv
  <2> QED
    BY <2>2 DEF LoweredInv
<1> QED
  BY <1>2, <1>3, <1>4

(***************************************************************************)
(* The order.                                                              *)
(***************************************************************************)
LEMMA StartIsSound == SortProofs!AtStart => SortProofs!Inv
BY SortProofs!StartInv

LEMMA SortStarts ==
  ASSUME Inv, StartSort
  PROVE  SortProofs!Inv'
<1>1. pc = "index" /\ graph' = graph /\ IsView(view) /\ IsLowered(vertices, graph)
  BY DEF StartSort, lowered, Inv, LoweredInv
<1>2. SortProofs!IsGraph(graph)'
  BY <1>1, GraphIsOne DEF SortProofs!IsGraph, SortProofs!IsFiniteSet
<1>3. /\ indeg' = SortProofs!Indegrees(graph)'
      /\ seeded' = 0 /\ queue' = <<>> /\ order' = <<>> /\ pending' = {}
  BY <1>1 DEF StartSort, Sort!Indegrees, SortProofs!Indegrees, Sort!Vertices, SortProofs!Vertices,
              Sort!Into, SortProofs!Into, Sort!Cardinality, SortProofs!Cardinality
<1>4. SortProofs!AtStart'
  BY <1>2, <1>3 DEF SortProofs!AtStart
<1> QED
  BY <1>4, StartIsSound, PTL

LEMMA SortStays ==
  ASSUME Inv, SortStep
  PROVE  SortProofs!Inv'
<1>1. SortProofs!Inv
  BY DEF Inv, OrderInv, SortStep
<1>2. SortProofs!Step
  BY DEF SortStep, SortProofs!Step, Sort!Step, SortProofs!Seed, Sort!Seed, SortProofs!Take, Sort!Take,
         SortProofs!Follow, Sort!Follow, SortProofs!FollowEdge, Sort!FollowEdge,
         SortProofs!OutOf, Sort!OutOf
<1> QED
  BY <1>1, <1>2, SortProofs!StepInv

LEMMA SortStutters ==
  ASSUME UNCHANGED <<graph, indeg, seeded, queue, order, pending>>, SortProofs!Inv
  PROVE  SortProofs!Inv'
BY SortProofs!StutterInv DEF SortProofs!vars

LEMMA OrderStaysInOrder ==
  ASSUME IsOrdered, graph' = graph, order' = order
  PROVE  IsOrdered'
BY DEF IsOrdered

LEMMA OrderStep ==
  ASSUME Inv, RouteStep
  PROVE  OrderInv'
<1>1. CASE StartSort
  <2>1. pc' = "sort"
    BY <1>1 DEF StartSort
  <2> QED
    BY <1>1, <2>1, SortStarts DEF OrderInv
<1>2. CASE SortStep
  <2>1. pc' = "sort"
    BY <1>2 DEF SortStep
  <2> QED
    BY <1>2, <2>1, SortStays DEF OrderInv
<1>3. CASE StartRelax
  <2>1. pc = "sort" /\ pc' = "relax" /\ graph' = graph /\ order' = order /\ Sort!Sorted
    BY <1>3 DEF StartRelax, lowered, sorting
  <2>2. IsOrdered
    BY <2>1, OrderIsFound DEF Inv, OrderInv, LoweredInv
  <2> QED
    BY <2>1, <2>2, OrderStaysInOrder DEF OrderInv
<1>4. CASE Relax \/ PickSink \/ WalkBack
  <2>1. /\ pc \in {"relax", "walk"} /\ pc' \in {"relax", "walk"}
        /\ graph' = graph /\ order' = order
    BY <1>4 DEF Relax, PickSink, WalkBack, lowered, sorting
  <2>2. IsOrdered
    BY <2>1 DEF Inv, OrderInv
  <2>3. IsOrdered'
    BY <2>1, <2>2, OrderStaysInOrder
  <2> QED
    BY <2>1, <2>3 DEF OrderInv
<1>5. CASE LookAtScope \/ EndPass \/ FindEnds \/ BuildPathGraph \/ FailCycle \/ FailNoRoute \/ Deliver
  <2>1. pc' \notin {"sort", "relax", "walk"}
    BY <1>5 DEF LookAtScope, EndPass, FindEnds, BuildPathGraph, FailCycle, FailNoRoute, Deliver, Answer
  <2> QED
    BY <2>1 DEF OrderInv
<1> QED
  BY <1>1, <1>2, <1>3, <1>4, <1>5 DEF RouteStep

(***************************************************************************)
(* The latencies.                                                          *)
(***************************************************************************)
LEMMA RelaxedStays ==
  ASSUME IsRelaxed, UNCHANGED <<view, sources, vertices, graph, order, relaxed, latency, prev>>
  PROVE  IsRelaxed'
BY DEF IsRelaxed, Settled, Arriving, ArrivalBy, CostOf, IsSource, Unreached, NoVertex

LEMMA RelaxedStep ==
  ASSUME Inv, RouteStep
  PROVE  RelaxedInv'
<1>1. CASE StartRelax
  <2>1. pc = "sort" /\ pc' = "relax" /\ Sort!Sorted
    BY <1>1 DEF StartRelax
  <2>2. IsOrdered
    BY <2>1, OrderIsFound DEF Inv, OrderInv, LoweredInv
  <2>3. graph.n \in Nat
    BY <2>1, GraphFacts DEF Inv, LoweredInv
  <2> QED
    BY <1>1, <2>1, <2>2, <2>3, StartRelaxes DEF RelaxedInv
<1>2. CASE Relax
  <2>1. pc = "relax" /\ pc' = "relax"
    BY <1>2 DEF Relax
  <2>2. IsRelaxed'
    BY <1>2, <2>1, RelaxSettles DEF Inv, LoweredInv, OrderInv, RelaxedInv
  <2> QED
    BY <2>1, <2>2 DEF RelaxedInv
<1>3. CASE PickSink \/ WalkBack
  <2>1. /\ pc \in {"relax", "walk"} /\ pc' = "walk"
        /\ UNCHANGED <<view, sources, sinks, vertices, graph, order, relaxed, latency, prev>>
    BY <1>3 DEF PickSink, WalkBack, args, ends, lowered, sorting, longest
  <2>2. IsRelaxed'
    BY <2>1, RelaxedStays DEF Inv, RelaxedInv
  <2>3. relaxed = graph.n /\ ReachedSinks # {}
    <3>1. CASE PickSink
      <4>1. relaxed = Len(order) /\ ReachedSinks # {} /\ pc = "relax"
        BY <3>1 DEF PickSink
      <4> QED
        BY <4>1 DEF Inv, OrderInv, IsOrdered
    <3>2. CASE WalkBack
      BY <3>2 DEF WalkBack, Inv, RelaxedInv
    <3> QED
      BY <1>3, <3>1, <3>2
  <2>4. ReachedSinks' = ReachedSinks
    BY <2>1 DEF ReachedSinks, IsSink, Unreached
  <2> QED
    BY <2>1, <2>2, <2>3, <2>4 DEF RelaxedInv
<1>4. CASE ~ (StartRelax \/ Relax \/ PickSink \/ WalkBack)
  <2>1. pc' \notin {"relax", "walk"}
    BY <1>4 DEF RouteStep, LookAtScope, EndPass, FindEnds, BuildPathGraph, StartSort, SortStep,
                FailCycle, FailNoRoute, Deliver, Answer
  <2> QED
    BY <2>1 DEF RelaxedInv
<1> QED
  BY <1>1, <1>2, <1>3, <1>4

(***************************************************************************)
(* The walk back.                                                          *)
(***************************************************************************)

\* What the walk stands on.
IsWalkable ==
  /\ IsView(view) /\ IsLowered(vertices, graph) /\ IsOrdered /\ IsRelaxed
  /\ relaxed = graph.n
  /\ ReachedSinks # {}
  /\ sources = Starts /\ sinks = Stops

LEMMA HopBack ==
  ASSUME IsWalkable, NEW v \in 1 .. graph.n, prev[v] # NoVertex
  PROVE  /\ prev[v] \in 1 .. graph.n
         /\ latency[v] \in Nat /\ latency[prev[v]] \in Nat /\ latency[prev[v]] # Unreached
         /\ <<vertices[prev[v]], vertices[v]>> \in Wires
         /\ latency[v] = latency[prev[v]] + Max(Transports(vertices[prev[v]], vertices[v]))
                           + CostOf(v)
         /\ \A j, k \in 1 .. graph.n : order[k] = v /\ order[j] = prev[v] => j < k
<1> DEFINE u == prev[v]
           n == graph.n
           most == Max(Transports(vertices[u], vertices[v]))
<1>1. /\ n \in Nat /\ prev \in [1 .. n -> 0 .. n]
      /\ latency \in [1 .. n -> Nat \cup {Unreached}]
      /\ Settled(v)
  BY GraphFacts, AllAreSettled DEF IsWalkable, IsRelaxed
<1>2. u \in 1 .. n
  BY <1>1 DEF NoVertex
<1>3. PICK i \in Arriving(v) : graph.edges[i].from = u /\ latency[v] = ArrivalBy(i) + CostOf(v)
  BY <1>1 DEF Settled
<1>4. i \in DOMAIN graph.edges /\ graph.edges[i].to = v /\ latency[u] # Unreached
  BY <1>3 DEF Arriving
<1>5. latency[u] \in Nat /\ ArrivalBy(i) = latency[u] + graph.edges[i].transport
      /\ graph.edges[i].transport \in Nat /\ CostOf(v) \in Nat
  BY <1>1, <1>2, <1>3, <1>4, GraphFacts DEF ArrivalBy, IsWalkable
<1>6. <<vertices[u], vertices[v]>> \in Wires
  BY <1>3, <1>4, GraphFacts DEF IsWalkable
<1> HIDE DEF u
<1>7. most \in Nat /\ graph.edges[i].transport <= most
  BY <1>2, <1>3, <1>4, <1>6, WireFacts DEF IsWalkable
<1>8. PICK l \in DOMAIN graph.edges :
        graph.edges[l].from = u /\ graph.edges[l].to = v /\ graph.edges[l].transport = most
  BY <1>2, <1>6, WireFacts DEF IsWalkable
<1>9. l \in Arriving(v) /\ ArrivalBy(l) = latency[u] + most
  BY <1>4, <1>8 DEF Arriving, ArrivalBy
<1>10. latency[v] # Unreached /\ ArrivalBy(l) + CostOf(v) <= latency[v]
  BY <1>1, <1>9 DEF Settled
<1> HIDE DEF most
<1>11. latency[v] \in Nat
  BY <1>1, <1>10
<1>12. latency[v] = latency[u] + most + CostOf(v)
  BY <1>3, <1>5, <1>7, <1>9, <1>10, <1>11
<1>13. ASSUME NEW j \in 1 .. n, NEW k \in 1 .. n, order[k] = v, order[j] = u
       PROVE  j < k
  <2>1. /\ \A x, y \in 1 .. n : order[x] = order[y] => x = y
        /\ \A x \in 1 .. n : \A e \in DOMAIN graph.edges :
             graph.edges[e].to = order[x] =>
               \E y \in 1 .. n : y < x /\ order[y] = graph.edges[e].from
    BY DEF IsWalkable, IsOrdered
  <2>2. PICK y \in 1 .. n : y < k /\ order[y] = graph.edges[i].from
    BY <1>4, <1>13, <2>1
  <2> QED
    BY <1>3, <1>13, <2>1, <2>2
<1> QED
  BY <1>2, <1>4, <1>5, <1>6, <1>11, <1>12, <1>13 DEF u, most

LEMMA ReverseAppended ==
  ASSUME NEW V, NEW s \in Seq(V), NEW x \in V
  PROVE  /\ Reverse(s) \in Seq(V) /\ Len(Reverse(s)) = Len(s)
         /\ \A k \in 1 .. Len(s) : Reverse(s)[k] = s[(Len(s) - k) + 1] /\ (Len(s) - k) + 1 \in 1 .. Len(s)
         /\ Reverse(Append(s, x)) \in Seq(V) /\ Len(Reverse(Append(s, x))) = Len(s) + 1
         /\ Reverse(Append(s, x))[1] = x
         /\ \A k \in 1 .. Len(s) : Reverse(Append(s, x))[k + 1] = Reverse(s)[k]
<1> DEFINE t == Append(s, x)
<1>1. ASSUME NEW w \in Seq(V)
      PROVE  /\ Reverse(w) \in Seq(V) /\ Len(Reverse(w)) = Len(w)
             /\ \A k \in 1 .. Len(w) : Reverse(w)[k] = w[(Len(w) - k) + 1]
                                         /\ (Len(w) - k) + 1 \in 1 .. Len(w)
  <2>1. Reverse(w) = [k \in 1 .. Len(w) |-> w[(Len(w) - k) + 1]] /\ Len(w) \in Nat
    BY DEF Reverse
  <2>2. \A k \in 1 .. Len(w) : (Len(w) - k) + 1 \in 1 .. Len(w)
    BY <2>1
  <2>3. \A k \in 1 .. Len(w) : w[(Len(w) - k) + 1] \in V
    BY <2>2
  <2> QED
    BY <2>1, <2>2, <2>3
<1>2. t \in Seq(V) /\ Len(t) = Len(s) + 1 /\ Len(s) \in Nat
      /\ t[Len(s) + 1] = x /\ \A k \in 1 .. Len(s) : t[k] = s[k]
  OBVIOUS
<1> HIDE DEF t
<1>3. Reverse(t)[1] = x
  <2>1. 1 \in 1 .. Len(t) /\ (Len(t) - 1) + 1 = Len(s) + 1
    BY <1>2
  <2> QED
    BY <1>1, <1>2, <2>1
<1>4. ASSUME NEW k \in 1 .. Len(s)
      PROVE  Reverse(t)[k + 1] = Reverse(s)[k]
  <2>1. k + 1 \in 1 .. Len(t) /\ (Len(t) - (k + 1)) + 1 = (Len(s) - k) + 1
    BY <1>2
  <2> QED
    BY <1>1, <1>2, <2>1
<1> QED
  BY <1>1, <1>2, <1>3, <1>4 DEF t

LEMMA SamplingGrows ==
  ASSUME IsView(view), NEW s \in Seq(RouteVertices(Wires)), NEW u \in RouteVertices(Wires)
  PROVE  SamplingTerm(Reverse(Append(s, u))) = SamplingTerm(Reverse(s)) + SamplingOf(u)
<1> DEFINE V == RouteVertices(Wires)
           old == Reverse(s)
           new == Reverse(Append(s, u))
           a == [i \in DOMAIN old |-> SamplingOf(old[i])]
           b == [i \in DOMAIN new |-> SamplingOf(new[i])]
<1>1. \A w \in V : SamplingOf(w) \in Nat
  BY WireEnds, VertexCosts
<1> HIDE DEF V
<1>2. /\ old \in Seq(V) /\ Len(old) = Len(s) /\ Len(s) \in Nat
      /\ new \in Seq(V) /\ Len(new) = Len(s) + 1
      /\ new[1] = u /\ \A k \in 1 .. Len(s) : new[k + 1] = old[k]
  BY ReverseAppended DEF V
<1> HIDE DEF old, new
<1>3. DOMAIN old = 1 .. Len(s) /\ DOMAIN new = 1 .. Len(s) + 1
  BY <1>2
<1>4. a \in Seq(Nat) /\ Len(a) = Len(s) /\ \A k \in 1 .. Len(s) : a[k] = SamplingOf(old[k])
  BY <1>1, <1>2, <1>3
<1>5. b \in Seq(Nat) /\ Len(b) = Len(s) + 1 /\ \A k \in 1 .. Len(s) + 1 : b[k] = SamplingOf(new[k])
  BY <1>1, <1>2, <1>3
<1>6. SamplingTerm(old) = Total(a) /\ SamplingTerm(new) = Total(b)
  BY DEF SamplingTerm
<1> HIDE DEF a, b
<1>7. b[1] = SamplingOf(u) /\ \A k \in 1 .. Len(a) : b[k + 1] = a[k]
  <2>1. 1 \in 1 .. Len(s) + 1 /\ \A k \in 1 .. Len(s) : k + 1 \in 1 .. Len(s) + 1
    BY <1>2
  <2> QED
    BY <1>2, <1>4, <1>5, <2>1
<1>8. Total(b) = b[1] + Total(a)
  BY <1>4, <1>5, <1>7, TotalPrepended
<1>9. Total(a) \in Nat /\ SamplingOf(u) \in Nat
  <2>1. SamplingOf(u) \in Nat
    BY <1>1 DEF V
  <2>2. PICK c \in [0 .. Len(a) -> Nat] : Total(a) = c[Len(a)]
    BY <1>4, TotalMeans
  <2>3. Len(a) \in 0 .. Len(a)
    BY <1>2, <1>4
  <2> QED
    BY <2>1, <2>2, <2>3
<1> QED
  BY <1>6, <1>7, <1>8, <1>9 DEF old, new

LEMMA WalkGroundStays ==
  ASSUME UNCHANGED <<view, sp, sinks, vertices, graph, latency>>
  PROVE  /\ WorstSink' = WorstSink
         /\ RouteVertices(Wires)' = RouteVertices(Wires)
         /\ \A u : SamplingOf(u)' = SamplingOf(u)
         /\ \A r : SamplingTerm(r)' = SamplingTerm(r)
<1>1. ReachedSinks' = ReachedSinks
  BY DEF ReachedSinks, IsSink, Unreached
<1>2. WorstSink' = WorstSink
  BY <1>1 DEF WorstSink
<1>3. \A u : SamplingOf(u)' = SamplingOf(u)
  BY DEF SamplingOf
<1>4. \A r : SamplingTerm(r)' = SamplingTerm(r)
  BY <1>3 DEF SamplingTerm
<1> QED
  BY <1>2, <1>3, <1>4, SameWires DEF args

LEMMA WalkStarts ==
  ASSUME Inv, PickSink
  PROVE  WalkInv'
<1>1. /\ UNCHANGED <<view, sp, sinks, vertices, graph, latency, order>>
      /\ cur' = WorstSink /\ traversed' = <<>> /\ sampling' = 0
  BY DEF PickSink, args, ends, lowered, sorting, longest
<1>2. graph.n \in Nat
  BY GraphFacts DEF Inv, LoweredInv, PickSink
<1>3. WorstSink \in 1 .. graph.n /\ latency[WorstSink] \in Nat
  BY <1>2, WorstSinkFacts DEF Inv, RelaxedInv, IsRelaxed, PickSink
<1>4. traversed' \in Seq(RouteVertices(Wires)') /\ Len(traversed') = 0
  BY <1>1
<1>5. IsWalk(<<>>)'
  <2>1. DOMAIN << >> = 1 .. Len(traversed')
    BY <1>1
  <2>2. \A j \in 1 .. Len(traversed') : FALSE
    BY <1>4
  <2>3. \A j \in 1 .. Len(traversed') - 1 : FALSE
    BY <1>4
  <2> QED
    BY <1>1, <2>1, <2>2, <2>3, WalkGroundStays DEF IsWalk
<1>6. SamplingTerm(Reverse(<< >>)) = 0
  <2>1. Reverse(<< >>) = << >>
    BY DEF Reverse
  <2>2. [i \in DOMAIN << >> |-> SamplingOf(<< >>[i])] = << >>
    OBVIOUS
  <2>3. PICK a \in [0 .. Len(<< >>) -> Nat] : a[0] = 0 /\ Total(<< >>) = a[Len(<< >>)]
    BY TotalMeans, << >> \in Seq(Nat)
  <2> QED
    BY <2>1, <2>2, <2>3 DEF SamplingTerm
<1>7. sampling' = SamplingTerm(Reverse(traversed))'
  BY <1>1, <1>6, WalkGroundStays
<1>8. \A k \in 1 .. graph.n : 0 + k <= graph.n
  BY <1>2
<1>9. /\ cur' \in 0 .. graph'.n
      /\ latency'[cur'] # Unreached
      /\ Len(traversed') <= graph'.n
      /\ \A k \in 1 .. graph'.n : order'[k] = cur' => Len(traversed') + k <= graph'.n
  BY <1>1, <1>2, <1>3, <1>4, <1>8 DEF Unreached
<1> QED
  BY <1>4, <1>5, <1>7, <1>9 DEF WalkInv, Unreached

LEMMA CanWalk ==
  ASSUME Inv, pc = "walk"
  PROVE  IsWalkable /\ WalkInv
BY DEF Inv, LoweredInv, OrderInv, RelaxedInv, EndsInv, IsWalkable

LEMMA WalkGoesOn ==
  ASSUME Inv, WalkBack
  PROVE  WalkInv'
<1> DEFINE n == graph.n
           m == Len(traversed)
           u == vertices[cur]
<1>1. /\ UNCHANGED <<view, sp, sinks, vertices, graph, latency, prev, order>>
      /\ pc = "walk" /\ cur # NoVertex
      /\ traversed' = Append(traversed, u) /\ sampling' = sampling + SamplingOf(u)
      /\ cur' = prev[cur]
  BY DEF WalkBack, args, ends, lowered, sorting, longest, SamplingOf
<1>2. IsWalkable /\ WalkInv
  BY <1>1, CanWalk
<1>3. /\ traversed \in Seq(RouteVertices(Wires)) /\ m \in Nat
      /\ cur \in 1 .. n /\ latency[cur] # Unreached
      /\ \A k \in 1 .. n : order[k] = cur => m + k <= n
      /\ sampling = SamplingTerm(Reverse(traversed))
  BY <1>1, <1>2 DEF WalkInv, NoVertex
<1>4. n \in Nat /\ u \in RouteVertices(Wires) /\ prev \in [1 .. n -> 0 .. n]
  BY <1>2, <1>3, GraphFacts DEF IsWalkable, IsRelaxed
<1>5. PICK at : IsWalk(at)
  BY <1>1, <1>2 DEF WalkInv
<1> HIDE DEF u
<1>6. /\ traversed' \in Seq(RouteVertices(Wires)) /\ Len(traversed') = m + 1
      /\ traversed'[m + 1] = u /\ \A j \in 1 .. m : traversed'[j] = traversed[j]
  BY <1>1, <1>3, <1>4
<1>7. sampling' = SamplingTerm(Reverse(traversed'))
  BY <1>1, <1>2, <1>3, <1>4, SamplingGrows DEF IsWalkable
<1>8. prev[cur] # NoVertex =>
        /\ prev[cur] \in 1 .. n /\ latency[prev[cur]] # Unreached
        /\ \A j, k \in 1 .. n : order[k] = cur /\ order[j] = prev[cur] => j < k
  BY <1>2, <1>3, HopBack
<1>9. PICK k \in 1 .. n : order[k] = cur
  BY <1>2, <1>3 DEF IsWalkable, IsOrdered
<1>10. m + 1 <= n
  BY <1>3, <1>4, <1>9
<1>11. ASSUME NEW j \in 1 .. n, order[j] = prev[cur]
       PROVE  (m + 1) + j <= n
  <2>1. prev[cur] # NoVertex
    <3>1. order[j] \in 1 .. n
      BY <1>2, <1>4, OrderFacts DEF IsWalkable
    <3> QED
      BY <1>4, <1>11, <3>1 DEF NoVertex
  <2>2. j < k /\ m + k <= n
    BY <1>3, <1>8, <1>9, <1>11, <2>1
  <2> QED
    BY <1>3, <1>4, <2>2
<1>12. /\ DOMAIN at = 1 .. m
       /\ \A j \in 1 .. m : at[j] \in 1 .. n /\ traversed[j] = vertices[at[j]]
                              /\ latency[at[j]] # Unreached
       /\ \A j \in 1 .. m - 1 : prev[at[j]] = at[j + 1]
       /\ IF traversed = <<>> THEN cur = WorstSink
          ELSE at[1] = WorstSink /\ prev[at[m]] = cur
  BY <1>5 DEF IsWalk
<1>13. PICK to : /\ DOMAIN to = 1 .. m + 1 /\ to[m + 1] = cur
                 /\ \A j \in 1 .. m : to[j] = at[j]
  <2> DEFINE to == [j \in 1 .. m + 1 |-> IF j = m + 1 THEN cur ELSE at[j]]
  <2>1. m + 1 \in 1 .. m + 1 /\ \A j \in 1 .. m : j \in 1 .. m + 1 /\ j # m + 1
    BY <1>3
  <2>2. /\ DOMAIN to = 1 .. m + 1 /\ to[m + 1] = cur
        /\ \A j \in 1 .. m : to[j] = at[j]
    BY <2>1
  <2> QED
    BY <2>2
<1>14. \A j \in 1 .. m + 1 : to[j] \in 1 .. n /\ traversed'[j] = vertices[to[j]]
                               /\ latency[to[j]] # Unreached
  <2> SUFFICES ASSUME NEW j \in 1 .. m + 1
               PROVE  to[j] \in 1 .. n /\ traversed'[j] = vertices[to[j]]
                        /\ latency[to[j]] # Unreached
    OBVIOUS
  <2>1. CASE j = m + 1
    BY <1>3, <1>6, <1>13, <2>1 DEF u
  <2>2. CASE j # m + 1
    <3>1. j \in 1 .. m
      BY <1>3, <2>2
    <3> QED
      BY <1>6, <1>12, <1>13, <3>1
  <2> QED
    BY <2>1, <2>2
<1>15. \A j \in 1 .. (m + 1) - 1 : prev[to[j]] = to[j + 1]
  <2> SUFFICES ASSUME NEW j \in 1 .. m PROVE prev[to[j]] = to[j + 1]
    BY <1>3
  <2>1. CASE j = m
    <3>1. traversed # <<>>
      BY <1>3, <2>1
    <3> QED
      BY <1>12, <1>13, <2>1, <3>1
  <2>2. CASE j # m
    <3>1. j \in 1 .. m - 1 /\ j + 1 \in 1 .. m
      BY <1>3, <2>2
    <3> QED
      BY <1>12, <1>13, <3>1
  <2> QED
    BY <2>1, <2>2
<1>16. to[1] = WorstSink
  <2>1. CASE traversed = <<>>
    <3>1. m = 0
      BY <2>1
    <3> QED
      BY <1>12, <1>13, <2>1, <3>1
  <2>2. CASE traversed # <<>>
    <3>1. 1 \in 1 .. m
      BY <1>3, <2>2
    <3> QED
      BY <1>12, <1>13, <2>2, <3>1
  <2> QED
    BY <2>1, <2>2
<1>17. IsWalk(to)'
  <2>1. traversed' # <<>>
    BY <1>3, <1>6
  <2> HIDE DEF m
  <2> QED
    BY <1>1, <1>6, <1>13, <1>14, <1>15, <1>16, <2>1, WalkGroundStays DEF IsWalk, Unreached
<1>18. /\ cur' \in 0 .. graph'.n
       /\ cur' # NoVertex => latency'[cur'] # Unreached
       /\ Len(traversed') <= graph'.n
       /\ \A j \in 1 .. graph'.n : order'[j] = cur' => Len(traversed') + j <= graph'.n
  BY <1>1, <1>3, <1>4, <1>6, <1>8, <1>10, <1>11
<1>19. traversed' \in Seq(RouteVertices(Wires)') /\ sampling' = SamplingTerm(Reverse(traversed))'
  BY <1>1, <1>6, <1>7, WalkGroundStays
<1> QED
  BY <1>17, <1>18, <1>19 DEF WalkInv, Unreached, NoVertex

LEMMA WalkStep ==
  ASSUME Inv, RouteStep
  PROVE  WalkInv'
<1>1. CASE PickSink
  BY <1>1, WalkStarts
<1>2. CASE WalkBack
  BY <1>2, WalkGoesOn
<1>3. CASE ~ PickSink /\ ~ WalkBack
  <2>1. pc' # "walk"
    BY <1>3 DEF RouteStep, LookAtScope, EndPass, FindEnds, BuildPathGraph, StartSort, SortStep,
                FailCycle, StartRelax, Relax, FailNoRoute, Deliver, Answer
  <2> QED
    BY <2>1 DEF WalkInv
<1> QED
  BY <1>1, <1>2, <1>3

\* The walk from the worst sink to a vertex with nothing before it is a route, and
\* its cost is the latency of the sink.
LEMMA WalkIsRoute ==
  ASSUME Inv, pc = "walk", cur = NoVertex
  PROVE  /\ Reverse(traversed) \in Routes(Wires)
         /\ RouteCost(Reverse(traversed)) = latency[WorstSink]
<1> DEFINE n == graph.n
           m == Len(traversed)
           r == Reverse(traversed)
<1>1. IsWalkable /\ WalkInv
  BY CanWalk
<1>2. /\ IsView(view) /\ IsLowered(vertices, graph)
      /\ n \in Nat /\ n = Cardinality(RouteVertices(Wires))
      /\ sources = Starts /\ sinks = Stops
      /\ \A v \in 1 .. n : Settled(v)
      /\ WorstSink \in 1 .. n /\ IsSink(WorstSink) /\ latency[WorstSink] \in Nat
  <2>1. /\ IsView(view) /\ IsLowered(vertices, graph) /\ IsOrdered /\ IsRelaxed
        /\ relaxed = n /\ ReachedSinks # {} /\ sources = Starts /\ sinks = Stops
    BY <1>1 DEF IsWalkable
  <2>2. n \in Nat /\ n = Cardinality(RouteVertices(Wires))
    BY <2>1, GraphFacts DEF IsLowered
  <2>3. \A v \in 1 .. n : Settled(v)
    BY <2>1, <2>2, AllAreSettled
  <2>4. WorstSink \in 1 .. n /\ IsSink(WorstSink) /\ latency[WorstSink] \in Nat
    BY <2>1, <2>2, WorstSinkFacts DEF IsRelaxed
  <2> QED
    BY <2>1, <2>2, <2>3, <2>4
<1>3. PICK at : IsWalk(at)
  BY <1>1 DEF WalkInv
<1>4. /\ traversed \in Seq(RouteVertices(Wires)) /\ m \in Nat /\ m <= n
      /\ traversed # <<>>
  <2>1. traversed \in Seq(RouteVertices(Wires)) /\ m <= n
    BY <1>1 DEF WalkInv
  <2>2. traversed # <<>>
    BY <1>2, <1>3 DEF IsWalk, NoVertex
  <2> QED
    BY <2>1, <2>2
<1>5. m \in 1 .. n
  BY <1>2, <1>4
<1>6. /\ \A j \in 1 .. m : at[j] \in 1 .. n /\ traversed[j] = vertices[at[j]]
                             /\ latency[at[j]] # Unreached
      /\ \A j \in 1 .. m - 1 : prev[at[j]] = at[j + 1]
      /\ at[1] = WorstSink /\ prev[at[m]] = NoVertex
  BY <1>3, <1>4 DEF IsWalk
<1>7. /\ r \in Seq(RouteVertices(Wires)) /\ Len(r) = m
      /\ \A k \in 1 .. m : r[k] = traversed[(m - k) + 1] /\ (m - k) + 1 \in 1 .. m
  <2>1. \A x \in RouteVertices(Wires) :
          /\ Reverse(traversed) \in Seq(RouteVertices(Wires))
          /\ Len(Reverse(traversed)) = Len(traversed)
          /\ \A k \in 1 .. Len(traversed) :
               /\ Reverse(traversed)[k] = traversed[(Len(traversed) - k) + 1]
               /\ (Len(traversed) - k) + 1 \in 1 .. Len(traversed)
    BY <1>4, ReverseAppended
  <2>2. traversed[1] \in RouteVertices(Wires)
    BY <1>4, <1>5
  <2> QED
    BY <2>1, <2>2
<1> DEFINE rt == [k \in 1 .. m |-> at[(m - k) + 1]]
<1>8. /\ \A k \in 1 .. m : rt[k] \in 1 .. n /\ r[k] = vertices[rt[k]] /\ latency[rt[k]] # Unreached
      /\ rt[m] = WorstSink /\ prev[rt[1]] = NoVertex
  <2>1. m \in 1 .. m /\ 1 \in 1 .. m /\ (m - m) + 1 = 1 /\ (m - 1) + 1 = m
    BY <1>5
  <2> QED
    BY <1>6, <1>7, <2>1
<1>9. ASSUME NEW k \in 2 .. m
      PROVE  k \in 1 .. m /\ k - 1 \in 1 .. m /\ prev[rt[k]] = rt[k - 1]
  <2>1. /\ k \in 1 .. m /\ k - 1 \in 1 .. m /\ (m - k) + 1 \in 1 .. m - 1
        /\ ((m - k) + 1) + 1 = (m - (k - 1)) + 1
    BY <1>5
  <2>2. prev[at[(m - k) + 1]] = at[((m - k) + 1) + 1]
    BY <1>6, <2>1
  <2>3. rt[k] = at[(m - k) + 1] /\ rt[k - 1] = at[(m - (k - 1)) + 1]
    BY <2>1
  <2> QED
    BY <2>1, <2>2, <2>3
<1> HIDE DEF rt, r
<1>10. ASSUME NEW k \in 2 .. m
       PROVE  /\ <<r[k - 1], r[k]>> \in Wires
              /\ latency[rt[k]] = latency[rt[k - 1]] + Max(Transports(r[k - 1], r[k])) + Passing(r[k])
  <2> DEFINE v == rt[k]
  <2>1. v \in 1 .. n /\ prev[v] = rt[k - 1] /\ rt[k - 1] \in 1 .. n
        /\ r[k] = vertices[v] /\ r[k - 1] = vertices[rt[k - 1]]
    BY <1>8, <1>9
  <2>2. prev[v] # NoVertex /\ CostOf(v) = Passing(vertices[v])
    BY <1>2, <2>1, GraphFacts DEF NoVertex
  <2> HIDE DEF v
  <2>3. /\ <<vertices[prev[v]], vertices[v]>> \in Wires
        /\ latency[v] = latency[prev[v]] + Max(Transports(vertices[prev[v]], vertices[v])) + CostOf(v)
    BY <1>1, <2>1, <2>2, HopBack
  <2>4. /\ <<r[k - 1], r[k]>> \in Wires
        /\ latency[v] = latency[rt[k - 1]] + Max(Transports(r[k - 1], r[k])) + Passing(r[k])
    BY <2>1, <2>2, <2>3
  <2> QED
    BY <2>4 DEF v
<1>11. FollowsWires(r, Wires)
  <2> SUFFICES ASSUME NEW k \in 1 .. m - 1 PROVE <<r[k], r[k + 1]>> \in Wires
    BY <1>7 DEF FollowsWires
  <2>1. k + 1 \in 2 .. m /\ (k + 1) - 1 = k
    BY <1>5
  <2>2. <<r[(k + 1) - 1], r[k + 1]>> \in Wires
    BY <1>10, <2>1
  <2> QED
    BY <2>1, <2>2
<1>12. 1 \in 1 .. m /\ m \in 1 .. m
  BY <1>5
<1>13. /\ r[1][1] \in Starts /\ latency[rt[1]] = Passing(r[1])
  <2> DEFINE v == rt[1]
  <2>1. v \in 1 .. n /\ r[1] = vertices[v] /\ latency[v] # Unreached /\ prev[v] = NoVertex
    BY <1>8, <1>12
  <2>2. CostOf(v) = Passing(vertices[v])
    BY <1>2, <2>1, GraphFacts
  <2> HIDE DEF v
  <2>3. IsSource(v) /\ latency[v] = CostOf(v)
    BY <1>2, <2>1 DEF Settled
  <2>4. r[1][1] \in Starts /\ latency[v] = Passing(r[1])
    BY <1>2, <2>1, <2>2, <2>3 DEF IsSource
  <2> QED
    BY <2>4 DEF v
<1>14. Last(r)[1] \in Stops
  <2>1. Last(r) = vertices[WorstSink]
    BY <1>7, <1>8, <1>12 DEF Last
  <2> QED
    BY <1>2, <2>1 DEF IsSink
<1>15. r \in Routes(Wires)
  BY <1>2, <1>5, <1>7, <1>11, <1>13, <1>14, RouteMeans
<1>16. PICK cost : IsPrefixCost(cost, r)
  <2>1. Len(r) \in Nat \ {0}
    BY <1>5, <1>7
  <2>2. /\ \A k \in 1 .. Len(r) : Passing(r[k]) \in Nat
        /\ \A k \in 2 .. Len(r) : Max(Transports(r[k - 1], r[k])) \in Nat
    BY <1>2, <1>7, <1>11, <2>1, PlacesOfRoute
  <2> QED
    BY <2>1, <2>2, RouteCostMeans
<1>17. /\ cost[1] = Passing(r[1])
       /\ \A k \in 2 .. m :
            cost[k] = cost[k - 1] + Max(Transports(r[k - 1], r[k])) + Passing(r[k])
       /\ RouteCost(r) = cost[m]
  BY <1>7, <1>16 DEF IsPrefixCost
<1> DEFINE T == {k \in 1 .. m : cost[k] = latency[rt[k]]}
<1>18. 1 \in T
  BY <1>12, <1>13, <1>17
<1>19. ASSUME NEW k \in 1 .. m, k # m, k \in T
       PROVE  k + 1 \in T
  <2>1. k + 1 \in 2 .. m /\ (k + 1) - 1 = k /\ k + 1 \in 1 .. m
    BY <1>5, <1>19
  <2>2. cost[k + 1] = cost[k] + Max(Transports(r[k], r[k + 1])) + Passing(r[k + 1])
    BY <1>17, <2>1
  <2>3. latency[rt[k + 1]] = latency[rt[k]] + Max(Transports(r[k], r[k + 1])) + Passing(r[k + 1])
    BY <1>10, <2>1
  <2>4. cost[k] = latency[rt[k]]
    BY <1>19
  <2> QED
    BY <2>1, <2>2, <2>3, <2>4
<1>20. m \in T
  <2>1. m \in Nat /\ 1 \in Nat
    BY <1>4
  <2>2. 1 .. m \subseteq T
    <3> HIDE DEF T, m
    <3> QED
      BY <1>18, <1>19, <2>1, Climbs
  <2> QED
    BY <1>12, <2>2
<1>21. RouteCost(r) = latency[WorstSink]
  BY <1>8, <1>17, <1>20
<1> QED
  BY <1>15, <1>21 DEF r

(***************************************************************************)
(* The answer.                                                             *)
(***************************************************************************)
LEMMA OutcomeMeans ==
  /\ Starts = {} \/ Stops = {} => Outcome(Wires) = "NoEndpoints"
  /\ Starts # {} /\ Stops # {} =>
       /\ IsCyclic(Wires) => Outcome(Wires) = "Cycle"
       /\ ~ IsCyclic(Wires) /\ Routes(Wires) = {} => Outcome(Wires) = "NoRoute"
       /\ ~ IsCyclic(Wires) /\ Routes(Wires) # {} => Outcome(Wires) = "route"
<1> DEFINE none == Starts = {} \/ Stops = {}
           cyclic == IsCyclic(Wires)
           noRoute == Routes(Wires) = {}
<1>1. Outcome(Wires) =
        CASE none -> "NoEndpoints"
          [] ~ none /\ cyclic -> "Cycle"
          [] ~ none /\ ~ cyclic /\ noRoute -> "NoRoute"
          [] OTHER -> "route"
  BY DEF Outcome
<1>2. (Starts # {} /\ Stops # {}) = ~ none
  OBVIOUS
<1> HIDE DEF none, cyclic, noRoute
<1>3. /\ none => Outcome(Wires) = "NoEndpoints"
      /\ ~ none => /\ cyclic => Outcome(Wires) = "Cycle"
                   /\ ~ cyclic /\ noRoute => Outcome(Wires) = "NoRoute"
                   /\ ~ cyclic /\ ~ noRoute => Outcome(Wires) = "route"
  BY <1>1
<1> QED
  BY <1>2, <1>3 DEF none, cyclic, noRoute

\* A search that fails with a kind fails with its outcome, and answers no route.
LEMMA FailureAnswers ==
  ASSUME UNCHANGED args, NEW kind, kind # "route", kind = Outcome(Wires),
         answer' = [kind |-> kind], pc' = "done"
  PROVE  AnswerInv'
<1>1. Outcome(Wires)' = Outcome(Wires)
  BY SameWires
<1>2. answer'.kind = Outcome(Wires)' /\ answer'.kind # "route"
  BY <1>1
<1> QED
  BY <1>2 DEF AnswerInv, FailureIsJustified, RouteIsLongest, RouteIsHonest

LEMMA DeliverAnswers ==
  ASSUME Inv, Deliver
  PROVE  AnswerInv'
<1> DEFINE r == Reverse(traversed)
<1>1. /\ pc = "walk" /\ pc' = "done" /\ cur = NoVertex /\ view' = view /\ sp' = sp
      /\ answer' = [kind |-> "route", total |-> latency[WorstSink],
                    sampling |-> sampling, vertices |-> r]
  BY DEF Deliver, Answer, args
<1>2. IsWalkable /\ WalkInv
  BY <1>1, CanWalk
<1>3. r \in Routes(Wires) /\ RouteCost(r) = latency[WorstSink]
  BY <1>1, WalkIsRoute
<1>4. sampling = SamplingTerm(r)
  BY <1>1, <1>2 DEF WalkInv
<1> HIDE DEF r
<1>5. answer'.kind = "route" /\ answer'.total = latency[WorstSink]
      /\ answer'.sampling = sampling /\ answer'.vertices = r
  BY <1>1
<1>6. ~ IsCyclic(Wires) /\ Starts # {} /\ Stops # {}
  BY <1>1, <1>2, OrderedIsAcyclic DEF IsWalkable, Inv, EndsInv
<1>7. Outcome(Wires) = "route"
  BY <1>3, <1>6, OutcomeMeans
<1>8. ASSUME NEW q \in Routes(Wires)
      PROVE  RouteCost(q) <= latency[WorstSink]
  <2>1. PICK v \in ReachedSinks : RouteCost(q) <= latency[v]
    BY <1>2, RoutesAreBounded DEF IsWalkable
  <2>2. /\ latency \in [1 .. graph.n -> Nat \cup {Unreached}] /\ graph.n \in Nat
        /\ ReachedSinks # {}
    BY <1>2, GraphFacts DEF IsWalkable, IsRelaxed
  <2>3. latency[v] <= latency[WorstSink] /\ latency[WorstSink] \in Nat
    BY <2>2, WorstSinkFacts
  <2>4. latency[v] \in Nat
    BY <2>2 DEF ReachedSinks
  <2>5. RouteCost(q) \in Nat
    <3>1. /\ q \in Seq(RouteVertices(Wires)) /\ FollowsWires(q, Wires) /\ Len(q) \in Nat \ {0}
          /\ IsView(view) /\ IsLowered(vertices, graph)
      BY <1>2, RouteMeans DEF IsWalkable
    <3>2. /\ \A k \in 1 .. Len(q) : Passing(q[k]) \in Nat
          /\ \A k \in 2 .. Len(q) : Max(Transports(q[k - 1], q[k])) \in Nat
      BY <3>1, PlacesOfRoute
    <3>3. PICK cost : IsPrefixCost(cost, q)
      BY <3>1, <3>2, RouteCostMeans
    <3>4. Len(q) \in 1 .. Len(q)
      BY <3>1
    <3> QED
      BY <3>3, <3>4 DEF IsPrefixCost
  <2> QED
    BY <2>1, <2>3, <2>4, <2>5
<1>9. /\ Routes(Wires)' = Routes(Wires) /\ Outcome(Wires)' = Outcome(Wires)
      /\ \A q : RouteCost(q)' = RouteCost(q)
  BY <1>1, SameWires, SameCosts DEF args
<1>10. FailureIsJustified'
  BY <1>5, <1>7, <1>9 DEF FailureIsJustified
<1>11. RouteIsLongest'
  BY <1>5, <1>8, <1>9 DEF RouteIsLongest
<1>12. RouteIsHonest'
  <2>1. SamplingTerm(r) = Total([i \in DOMAIN r |-> SamplingCost(Node(view, r[i][1]), r[i][2])])
    BY DEF SamplingTerm, SamplingOf
  <2>2. RouteCost(answer.vertices)' = latency[WorstSink]
    BY <1>3, <1>5, <1>9
  <2> QED
    BY <1>1, <1>3, <1>4, <1>5, <1>9, <2>1, <2>2 DEF RouteIsHonest
<1> QED
  BY <1>1, <1>10, <1>11, <1>12 DEF AnswerInv

LEMMA AnswerStep ==
  ASSUME Inv, RouteStep
  PROVE  AnswerInv'
<1>1. UNCHANGED args
  BY ArgsAreFixed DEF RouteNext, args
<1>2. CASE FindEnds /\ pc' = "done"
  <2>1. InsideIsRight
    BY <1>2, SubtreeIsRight DEF Inv, FindEnds
  <2>2. sources' = Starts /\ sinks' = Stops
    BY <1>2, <2>1 DEF FindEnds, InsideIsRight, Starts, Stops
  <2>3. (Starts = {} \/ Stops = {}) /\ answer' = [kind |-> "NoEndpoints"]
    BY <1>2, <2>2 DEF FindEnds, Answer
  <2>4. Outcome(Wires) = "NoEndpoints"
    BY <2>3, OutcomeMeans
  <2> QED
    BY <1>1, <1>2, <2>3, <2>4, FailureAnswers
<1>3. CASE FailCycle
  <2>1. pc = "sort" /\ pc' = "done" /\ Sort!Cyclic /\ answer' = [kind |-> "Cycle"]
    BY <1>3 DEF FailCycle, Answer
  <2>2. IsCyclic(Wires) /\ Starts # {} /\ Stops # {}
    BY <2>1, CycleIsFound DEF Inv, OrderInv, LoweredInv, EndsInv
  <2>3. Outcome(Wires) = "Cycle"
    BY <2>2, OutcomeMeans
  <2> QED
    BY <1>1, <2>1, <2>3, FailureAnswers
<1>4. CASE FailNoRoute
  <2>1. /\ pc = "relax" /\ pc' = "done" /\ relaxed = Len(order) /\ ReachedSinks = {}
        /\ answer' = [kind |-> "NoRoute"]
    BY <1>4 DEF FailNoRoute, Answer
  <2>2. /\ IsView(view) /\ IsLowered(vertices, graph) /\ IsOrdered /\ IsRelaxed
        /\ relaxed = graph.n /\ sources = Starts /\ sinks = Stops
        /\ Starts # {} /\ Stops # {}
    BY <2>1 DEF Inv, OrderInv, LoweredInv, EndsInv, RelaxedInv, IsOrdered
  <2>3. Routes(Wires) = {}
    BY <2>1, <2>2, RoutesAreBounded
  <2>4. Outcome(Wires) = "NoRoute"
    BY <2>2, <2>3, OrderedIsAcyclic, OutcomeMeans
  <2> QED
    BY <1>1, <2>1, <2>4, FailureAnswers
<1>5. CASE Deliver
  BY <1>5, DeliverAnswers
<1>6. CASE pc' # "done" /\ answer' = answer
  <2>1. pc # "done"
    BY DEF RouteStep, LookAtScope, EndPass, FindEnds, BuildPathGraph, StartSort, SortStep,
           FailCycle, StartRelax, Relax, PickSink, FailNoRoute, WalkBack, Deliver
  <2>2. answer' = NoAnswer /\ NoAnswer.kind # "route"
    BY <1>6, <2>1 DEF Inv, AnswerInv, NoAnswer
  <2> QED
    BY <1>6, <2>2 DEF AnswerInv, FailureIsJustified, RouteIsLongest, RouteIsHonest, NoAnswer
<1>7. CASE FindEnds /\ pc' # "done"
  <2>1. answer' = answer
    BY <1>7 DEF FindEnds, Answer
  <2> QED
    BY <1>6, <1>7, <2>1
<1>8. CASE ~ (FindEnds \/ FailCycle \/ FailNoRoute \/ Deliver)
  <2>1. pc' # "done" /\ answer' = answer
    BY <1>8 DEF RouteStep, LookAtScope, EndPass, BuildPathGraph, StartSort, SortStep,
                StartRelax, Relax, PickSink, WalkBack
  <2> QED
    BY <1>6, <2>1
<1> QED
  BY <1>2, <1>3, <1>4, <1>5, <1>7, <1>8

-----------------------------------------------------------------------------
(***************************************************************************)
(* The theorems of the resolution.                                         *)
(***************************************************************************)
AtStart ==
  /\ IsView(view)
  /\ pc = "subtree" /\ subtree = {sp.scope} /\ looked = 0 /\ before = 1 /\ answer = NoAnswer

LEMMA StartInv == AtStart => Inv
<1> SUFFICES ASSUME AtStart PROVE Inv
  OBVIOUS
<1>1. /\ pc = "subtree" /\ subtree = {sp.scope} /\ looked = 0 /\ before = 1 /\ answer = NoAnswer
  BY DEF AtStart
<1>2. IsView(view)
  BY DEF AtStart
<1>3. ScopesInv
  <2>1. Len(view.parent) \in Nat
    BY <1>2, SeqFacts DEF IsView
  <2>2. Cardinality({sp.scope}) = 1
    BY FS_Singleton
  <2>3. LiesBelow(sp.scope)
    BY DEF LiesBelow
  <2> QED
    BY <1>1, <2>1, <2>2, <2>3 DEF ScopesInv
<1>4. AnswerInv
  BY <1>1 DEF AnswerInv, NoAnswer, FailureIsJustified, RouteIsLongest, RouteIsHonest
<1> QED
  BY <1>1, <1>2, <1>3, <1>4 DEF Inv, EndsInv, LoweredInv, OrderInv, RelaxedInv, WalkInv

LEMMA InitInv == RouteInit => Inv
BY RequestsAreWellFormed, StartInv DEF RouteInit, AtStart

LEMMA StepInv == Inv /\ RouteStep => Inv'
<1> SUFFICES ASSUME Inv, RouteStep PROVE Inv'
  OBVIOUS
<1>1. pc' \in {"subtree", "ends", "lower", "index", "sort", "relax", "walk", "done"}
  BY DEF RouteStep, Inv, LookAtScope, EndPass, FindEnds, BuildPathGraph, StartSort, SortStep,
         FailCycle, StartRelax, Relax, PickSink, FailNoRoute, WalkBack, Deliver, Answer
<1>2. IsView(view)'
  BY ArgsAreFixed DEF RouteNext, Inv
<1>3. ScopesInv'
  BY ScopesStep DEF Inv
<1> QED
  BY <1>1, <1>2, <1>3, EndsStep, LoweredStep, OrderStep, RelaxedStep, WalkStep, AnswerStep DEF Inv

LEMMA StutterInv == Inv /\ UNCHANGED routeVars => Inv'
<1> SUFFICES ASSUME Inv, UNCHANGED routeVars PROVE Inv'
  OBVIOUS
<1>1. UNCHANGED <<pc, view, sp, subtree, looked, before, sources, sinks, vertices, graph,
                  indeg, seeded, queue, order, pending, relaxed, latency, prev,
                  cur, traversed, sampling, answer>>
  BY DEF routeVars, args, scoping, ends, lowered, sorting, longest, walk
<1>2. UNCHANGED args
  BY <1>1 DEF args
<1>3. ScopesInv'
  BY <1>1, <1>2, SameMembers DEF Inv, ScopesInv, HasChildren
<1>4. EndsInv'
  BY <1>1, <1>2, SameWires DEF Inv, EndsInv
<1>5. LoweredInv'
  BY <1>1, <1>2, LoweredStaysLowered DEF Inv, LoweredInv
<1>6. OrderInv'
  <2>1. SortProofs!Inv => SortProofs!Inv'
    BY <1>1, SortStutters
  <2>2. IsOrdered => IsOrdered'
    BY <1>1, OrderStaysInOrder
  <2> QED
    BY <1>1, <2>1, <2>2 DEF Inv, OrderInv
<1>7. RelaxedInv'
  <2>1. IsRelaxed => IsRelaxed'
    BY <1>1, RelaxedStays
  <2>2. ReachedSinks' = ReachedSinks
    BY <1>1 DEF ReachedSinks, IsSink, Unreached
  <2> QED
    BY <1>1, <2>1, <2>2 DEF Inv, RelaxedInv
<1>8. WalkInv'
  <2> SUFFICES ASSUME pc = "walk" PROVE WalkInv'
    BY <1>1 DEF WalkInv
  <2>1. WalkInv
    BY DEF Inv
  <2>2. PICK at : IsWalk(at)
    BY <2>1 DEF WalkInv
  <2>3. IsWalk(at)'
    BY <1>1, <2>2, WalkGroundStays DEF IsWalk, Unreached
  <2>4. sampling' = SamplingTerm(Reverse(traversed))'
    BY <1>1, <2>1, WalkGroundStays DEF WalkInv
  <2> QED
    BY <1>1, <2>1, <2>3, <2>4, WalkGroundStays DEF WalkInv, Unreached, NoVertex
<1>9. AnswerInv'
  <2>1. /\ Routes(Wires)' = Routes(Wires) /\ Outcome(Wires)' = Outcome(Wires)
        /\ \A q : RouteCost(q)' = RouteCost(q)
    BY <1>2, SameWires, SameCosts
  <2>2. FailureIsJustified'
    BY <1>1, <2>1 DEF Inv, AnswerInv, FailureIsJustified
  <2>3. RouteIsLongest'
    BY <1>1, <2>1 DEF Inv, AnswerInv, RouteIsLongest
  <2>4. RouteIsHonest'
    <3> SUFFICES ASSUME answer.kind = "route" PROVE RouteIsHonest'
      BY <1>1 DEF RouteIsHonest
    <3>1. RouteCost(answer.vertices)' = answer.total
      BY <1>1, <2>1 DEF Inv, AnswerInv, RouteIsHonest
    <3> QED
      BY <1>1, <2>1, <3>1 DEF Inv, AnswerInv, RouteIsHonest
  <2> QED
    BY <1>1, <2>2, <2>3, <2>4 DEF Inv, AnswerInv, NoAnswer
<1> QED
  BY <1>1, <1>3, <1>4, <1>5, <1>6, <1>7, <1>8, <1>9 DEF Inv

\* The invariant, part by part: the subtree, the ends, the graph, its order, the
\* latencies, the walk and the answer (graph.rs:62-377).
THEOREM Invariance == RouteSpec => []Inv
<1>1. Inv /\ [RouteNext]_routeVars => Inv'
  BY StepInv, StutterInv DEF RouteNext, RouteReturned
<1> QED
  BY <1>1, InitInv, PTL DEF RouteSpec

\* A scope path of any model fails for the reason that applies to it, the first of no
\* endpoints, a cycle and no route, and a path with a route is answered with one
\* (`RouteFailure`, graph.rs:198-207).
THEOREM FailuresAreJustified == RouteSpec => []FailureIsJustified
<1>1. Inv => FailureIsJustified
  BY DEF Inv, AnswerInv
<1> QED
  BY <1>1, Invariance, PTL

\* No route of any model from a source to a sink costs more than the answered total:
\* one relaxation in topological order finds the worst case (graph.rs:293-368).
THEOREM RoutesAreLongest == RouteSpec => []RouteIsLongest
<1>1. Inv => RouteIsLongest
  BY DEF Inv, AnswerInv
<1> QED
  BY <1>1, Invariance, PTL

\* What is answered is a route of the model; it costs the answered total, and the
\* sampling term is its own (graph.rs:352-377).
THEOREM RoutesAreHonest == RouteSpec => []RouteIsHonest
<1>1. Inv => RouteIsHonest
  BY DEF Inv, AnswerInv
<1> QED
  BY <1>1, Invariance, PTL

-----------------------------------------------------------------------------
(***************************************************************************)
(* ChainDerivation.  First, sequences that grow at their end.              *)
(***************************************************************************)
LEMMA AppendedFacts ==
  ASSUME NEW s, IsSeq(s), NEW x
  PROVE  /\ IsSeq(Append(s, x)) /\ Len(s) \in Nat /\ Len(Append(s, x)) = Len(s) + 1
         /\ DOMAIN s = 1 .. Len(s) /\ DOMAIN Append(s, x) = 1 .. Len(s) + 1
         /\ \A i \in 1 .. Len(s) : Append(s, x)[i] = s[i]
         /\ Append(s, x)[Len(s) + 1] = x
         /\ ToSet(Append(s, x)) = ToSet(s) \cup {x}
         /\ Append(s, x) # <<>> /\ Last(Append(s, x)) = x
<1> DEFINE V == ToSet(s) \cup {x}
           t == Append(s, x)
<1>1. Len(s) \in Nat /\ DOMAIN s = 1 .. Len(s) /\ s \in Seq(V)
  <2>1. s \in Seq(ToSet(s))
    BY DEF IsSeq
  <2>2. ToSet(s) \subseteq V
    OBVIOUS
  <2> HIDE DEF V
  <2> QED
    BY <2>1, <2>2
<1>2. x \in V
  OBVIOUS
<1> HIDE DEF V
<1>3. /\ t \in Seq(V) /\ Len(t) = Len(s) + 1 /\ DOMAIN t = 1 .. Len(s) + 1
      /\ \A i \in 1 .. Len(s) : t[i] = s[i]
      /\ t[Len(s) + 1] = x
  BY <1>1, <1>2
<1> HIDE DEF t
<1>4. ToSet(t) = V
  <2>1. \A i \in 1 .. Len(s) : i \in 1 .. Len(s) + 1
    BY <1>1
  <2>2. Len(s) + 1 \in 1 .. Len(s) + 1
    BY <1>1
  <2>3. \A i \in 1 .. Len(s) + 1 : i \in 1 .. Len(s) \/ i = Len(s) + 1
    BY <1>1
  <2>4. ToSet(t) = {t[i] : i \in 1 .. Len(s) + 1} /\ ToSet(s) = {s[i] : i \in 1 .. Len(s)}
    BY <1>1, <1>3 DEF ToSet
  <2> QED
    BY <1>3, <2>1, <2>2, <2>3, <2>4 DEF V
<1>5. t # <<>> /\ Last(t) = x
  <2>1. Len(t) # 0 /\ Len(<<>>) = 0
    BY <1>1, <1>3
  <2> QED
    BY <1>3, <2>1 DEF Last
<1> QED
  BY <1>1, <1>3, <1>4, <1>5 DEF t, V, IsSeq

LEMMA IsSeqOver ==
  ASSUME NEW S, NEW s \in Seq(S)
  PROVE  IsSeq(s)
<1>1. Len(s) \in Nat /\ DOMAIN s = 1 .. Len(s)
  OBVIOUS
<1>2. \A i \in 1 .. Len(s) : s[i] \in ToSet(s)
  BY <1>1 DEF ToSet
<1> QED
  BY <1>1, <1>2 DEF IsSeq

\* One more of the elements is kept.
LEMMA KeptGrows ==
  ASSUME NEW s, NEW k \in Nat, NEW D \in SUBSET (1 .. k)
  PROVE  Kept(s, D \cup {k + 1}) = Append(Kept(s, D), s[k + 1])
<1> DEFINE E == D \cup {k + 1}
           P(i) == PlaceOf(D, {}, i)
           Q(i) == PlaceOf(E, {}, i)
           n == Cardinality(D)
<1>1. IsFiniteSet(1 .. k)
  BY FS_Interval
<1>0. \A d \in D : d \in Nat /\ d <= k
  OBVIOUS
<1>2. IsFiniteSet(D) /\ n \in Nat /\ k + 1 \notin D
  <2>1. IsFiniteSet(D)
    BY <1>1, FS_Subset
  <2> QED
    BY <1>0, <2>1, FS_CardinalityType
<1>3. IsFiniteSet(E) /\ Cardinality(E) = n + 1
  BY <1>2, FS_AddElement
<1>4. D \subseteq Int /\ E \subseteq Int
  OBVIOUS
<1>5. Orders({}, D) /\ Orders({}, E)
  BY DEF Orders
<1>6. /\ [i \in D |-> P(i)] \in Bijection(D, 1 .. n)
      /\ [i \in E |-> Q(i)] \in Bijection(E, 1 .. n + 1)
  BY <1>2, <1>3, <1>4, <1>5, PlacesAreTaken
<1>7. ASSUME NEW i \in D
      PROVE  Q(i) = P(i)
  <2>1. {j \in E : <<j, i>> \in {} \/ (<<i, j>> \notin {} /\ j <= i)}
          = {j \in D : <<j, i>> \in {} \/ (<<i, j>> \notin {} /\ j <= i)}
    <3>1. ~ (k + 1 <= i)
      BY <1>0
    <3> QED
      BY <3>1
  <2> QED
    BY <2>1 DEF PlaceOf
<1>8. Q(k + 1) = n + 1
  <2>1. {j \in E : <<j, k + 1>> \in {} \/ (<<k + 1, j>> \notin {} /\ j <= k + 1)} = E
    <3>1. \A j \in E : j <= k + 1
      BY <1>0
    <3> HIDE DEF E
    <3> QED
      BY <3>1
  <2> QED
    BY <1>3, <2>1 DEF PlaceOf
<1> HIDE DEF P, Q, n
<1>9. /\ \A m \in 1 .. n : \E i \in D : P(i) = m
      /\ \A i, j \in E : Q(i) = Q(j) => i = j
      /\ \A i \in D : P(i) \in 1 .. n
  BY <1>6 DEF Bijection, Injection, Surjection, IsInjective
<1>10. ASSUME NEW m \in 1 .. n
       PROVE  (CHOOSE i \in E : Q(i) = m) = (CHOOSE i \in D : P(i) = m)
  <2>1. PICK d \in D : P(d) = m
    BY <1>9
  <2>2. (CHOOSE i \in D : P(i) = m) = d
    BY <1>7, <1>9, <2>1
  <2>3. (CHOOSE i \in E : Q(i) = m) = d
    BY <1>7, <1>9, <2>1
  <2> QED
    BY <2>2, <2>3
<1>11. (CHOOSE i \in E : Q(i) = n + 1) = k + 1
  BY <1>8, <1>9
<1>12. /\ Kept(s, D) = [m \in 1 .. n |-> s[CHOOSE i \in D : P(i) = m]]
       /\ Kept(s, E) = [m \in 1 .. n + 1 |-> s[CHOOSE i \in E : Q(i) = m]]
  BY <1>3 DEF Kept, Arranged, P, Q, n
<1> DEFINE a == Kept(s, D)
<1>13. IsSeq(a) /\ Len(a) = n
  <2>1. a \in Seq({s[i] : i \in D})
    <3>1. \A m \in 1 .. n : (CHOOSE i \in D : P(i) = m) \in D
      BY <1>9
    <3>2. \A m \in 1 .. n : s[CHOOSE i \in D : P(i) = m] \in {s[i] : i \in D}
      BY <3>1
    <3> DEFINE R == {s[i] : i \in D}
               c(m) == s[CHOOSE i \in D : P(i) = m]
    <3>3. \A m \in 1 .. n : c(m) \in R
      BY <3>2
    <3>4. a = [m \in 1 .. n |-> c(m)]
      BY <1>12
    <3> HIDE DEF R, c, a
    <3> QED
      BY <1>2, <3>3, <3>4 DEF R
  <2>2. Len(a) = n
    BY <1>2, <1>12
  <2> HIDE DEF a
  <2> QED
    BY <2>1, <2>2, IsSeqOver
<1>14. /\ DOMAIN Append(a, s[k + 1]) = 1 .. n + 1
       /\ \A m \in 1 .. n : Append(a, s[k + 1])[m] = a[m]
       /\ Append(a, s[k + 1])[n + 1] = s[k + 1]
  BY <1>13, AppendedFacts
<1>15. /\ DOMAIN Kept(s, E) = 1 .. n + 1
       /\ \A m \in 1 .. n : Kept(s, E)[m] = a[m]
       /\ Kept(s, E)[n + 1] = s[k + 1]
  <2>1. n + 1 \in 1 .. n + 1 /\ \A m \in 1 .. n : m \in 1 .. n + 1
    BY <1>2
  <2> DEFINE c(m) == CHOOSE i \in D : P(i) = m
             d(m) == CHOOSE i \in E : Q(i) = m
  <2>2. Kept(s, D) = [m \in 1 .. n |-> s[c(m)]] /\ Kept(s, E) = [m \in 1 .. n + 1 |-> s[d(m)]]
    BY <1>12
  <2>3. d(n + 1) = k + 1 /\ \A m \in 1 .. n : d(m) = c(m)
    BY <1>10, <1>11
  <2> HIDE DEF c, d, E
  <2> QED
    BY <2>1, <2>2, <2>3
<1> HIDE DEF a, E
<1>16. \A m \in 1 .. n + 1 : m \in 1 .. n \/ m = n + 1
  BY <1>2
<1>17. \A m \in 1 .. n + 1 : Kept(s, E)[m] = Append(a, s[k + 1])[m]
  BY <1>14, <1>15, <1>16
<1>18. Kept(s, E) = [m \in 1 .. n + 1 |-> Kept(s, E)[m]]
       /\ Append(a, s[k + 1]) = [m \in 1 .. n + 1 |-> Append(a, s[k + 1])[m]]
  BY <1>12, <1>13, <1>14, <1>15
<1> QED
  BY <1>17, <1>18 DEF a, E

\* A sum with one more number at the end.
LEMMA TotalAppended ==
  ASSUME NEW s \in Seq(Nat), NEW t \in Seq(Nat), Len(t) = Len(s) + 1,
         \A k \in 1 .. Len(s) : t[k] = s[k]
  PROVE  Total(t) = Total(s) + t[Len(s) + 1] /\ Total(s) \in Nat
<1>1. PICK a \in [0 .. Len(s) -> Nat] :
        /\ a[0] = 0 /\ \A k \in 1 .. Len(s) : a[k] = a[k - 1] + s[k]
        /\ Total(s) = a[Len(s)]
  BY TotalMeans
<1>2. PICK b \in [0 .. Len(t) -> Nat] :
        /\ b[0] = 0 /\ \A k \in 1 .. Len(t) : b[k] = b[k - 1] + t[k]
        /\ Total(t) = b[Len(t)]
  BY TotalMeans
<1>3. Len(s) \in Nat
  OBVIOUS
<1> DEFINE T == {k \in 0 .. Len(s) : b[k] = a[k]}
<1>4. 0 \in T
  BY <1>1, <1>2, <1>3
<1>5. ASSUME NEW k \in 0 .. Len(s), k # Len(s), k \in T
      PROVE  k + 1 \in T
  <2>1. k + 1 \in 1 .. Len(s) /\ k + 1 \in 1 .. Len(t) /\ k + 1 \in 0 .. Len(s) /\ (k + 1) - 1 = k
    BY <1>3, <1>5
  <2>2. a[k + 1] = a[k] + s[k + 1] /\ b[k + 1] = b[k] + t[k + 1] /\ t[k + 1] = s[k + 1]
    BY <1>1, <1>2, <2>1
  <2> QED
    BY <1>5, <2>1, <2>2
<1>6. 0 .. Len(s) \subseteq T
  <2> HIDE DEF T
  <2> QED
    BY <1>3, <1>4, <1>5, 0 \in Nat, Climbs
<1>7. Len(s) \in 0 .. Len(s) /\ Len(s) + 1 \in 1 .. Len(t) /\ (Len(s) + 1) - 1 = Len(s)
  BY <1>3
<1>8. b[Len(s)] = a[Len(s)]
  BY <1>6, <1>7
<1> QED
  <2>1. Total(t) = b[Len(s) + 1] /\ b[Len(s) + 1] = b[Len(s)] + t[Len(s) + 1]
    BY <1>2, <1>7
  <2>2. Total(s) = b[Len(s)] /\ Total(s) \in Nat
    BY <1>1, <1>7, <1>8
  <2> QED
    BY <2>1, <2>2

\* The parts up to a place, one after the other.
IsFlattening(f, s, X) ==
  /\ f \in [1 .. Len(s) -> Seq(X)]
  /\ f[1] = s[1] /\ \A k \in 2 .. Len(s) : f[k] = f[k - 1] \o s[k]
  /\ FlattenSeq(s) = f[Len(s)]

LEMMA FlattenMeans ==
  ASSUME NEW X, NEW s \in Seq(Seq(X)), Len(s) # 0
  PROVE  \E f : IsFlattening(f, s, X)
<1> DEFINE V == Seq(X)
           n == Len(s)
           step == [kv \in (2 .. n) \X V |-> kv[2] \o s[kv[1]]]
           Flattens(f) == f = [k \in 1 .. n |-> IF k = 1 THEN s[k] ELSE f[k - 1] \o s[k]]
<1>0. n \in Nat \ {0} /\ \A k \in 1 .. n : s[k] \in V
  OBVIOUS
<1>1. /\ 1 \in 1 .. n
      /\ \A k \in 2 .. n : k \in 1 .. n /\ k - 1 \in 1 .. n /\ k # 1
      /\ \A k \in 1 .. n : k # 1 => k \in 2 .. n
  BY <1>0
<1>2. \A k \in 2 .. n : \A v \in V : step[<<k, v>>] = v \o s[k]
  OBVIOUS
<1>3. \A v, w \in V : v \o w \in V
  OBVIOUS
<1> HIDE DEF step, Flattens, V, n
<1>4. StepsWithin(step, 2, n, V)
  <2> SUFFICES ASSUME NEW k \in 2 .. n, NEW v \in V PROVE step[<<k, v>>] \in V
    BY DEF StepsWithin
  <2>1. s[k] \in V /\ step[<<k, v>>] = v \o s[k]
    BY <1>0, <1>1, <1>2
  <2> QED
    BY <1>3, <2>1
<1>5. PICK f \in [1 .. n -> V] : f[1] = s[1] /\ TakesSteps(f, step, 2, n)
  BY <1>0, <1>1, <1>4, RecursionFromOne
<1>6. \A k \in 2 .. n : f[k] = f[k - 1] \o s[k]
  <2> SUFFICES ASSUME NEW k \in 2 .. n
               PROVE  f[k] = f[k - 1] \o s[k]
    OBVIOUS
  <2>1. f[k - 1] \in V
    BY <1>1
  <2> QED
    BY <1>2, <1>5, <2>1 DEF TakesSteps
<1>7. Flattens(f)
  <2>1. \A k \in 1 .. n : f[k] = IF k = 1 THEN s[k] ELSE f[k - 1] \o s[k]
    BY <1>1, <1>5, <1>6
  <2> QED
    BY <2>1 DEF Flattens
<1> DEFINE flat == CHOOSE g : Flattens(g)
<1>8. Flattens(flat)
  BY <1>7
<1>9. FlattenSeq(s) = flat[n]
  BY <1>0 DEF FlattenSeq, Flattens, n
<1> HIDE DEF flat
<1>10. flat = [k \in 1 .. n |-> IF k = 1 THEN s[k] ELSE flat[k - 1] \o s[k]]
  BY <1>8 DEF Flattens
<1>11. flat[1] = s[1] /\ \A k \in 2 .. n : flat[k] = flat[k - 1] \o s[k]
  BY <1>1, <1>10
<1> DEFINE T == {k \in 1 .. n : flat[k] \in V}
<1>12. 1 .. n \subseteq T
  <2>1. 1 \in T
    BY <1>0, <1>1, <1>11
  <2>2. ASSUME NEW k \in 1 .. n, k # n, k \in T
        PROVE  k + 1 \in T
    <3>1. k + 1 \in 2 .. n /\ k + 1 \in 1 .. n /\ (k + 1) - 1 = k
      BY <1>0, <2>2
    <3>2. flat[k + 1] = flat[k] \o s[k + 1]
      BY <1>11, <3>1
    <3> QED
      BY <1>0, <1>3, <2>2, <3>1, <3>2
  <2> HIDE DEF T
  <2> QED
    BY <1>0, <2>1, <2>2, 1 \in Nat, Climbs
<1>13. flat \in [1 .. n -> V]
  BY <1>10, <1>12
<1> QED
  BY <1>9, <1>11, <1>13 DEF IsFlattening, V, n

\* Two lists of parts that agree up to a place are flattened alike up to it.
LEMMA FlattenedAlike ==
  ASSUME NEW X, NEW s \in Seq(Seq(X)), NEW t \in Seq(Seq(X)), NEW f, NEW g,
         IsFlattening(f, s, X), IsFlattening(g, t, X), NEW n \in Nat \ {0},
         n <= Len(s), n <= Len(t), \A k \in 1 .. n : s[k] = t[k]
  PROVE  f[n] = g[n]
<1> DEFINE T == {k \in 1 .. n : f[k] = g[k]}
<1>1. 1 \in T
  BY DEF IsFlattening
<1>2. ASSUME NEW k \in 1 .. n, k # n, k \in T
      PROVE  k + 1 \in T
  <2>1. k + 1 \in 2 .. Len(s) /\ k + 1 \in 2 .. Len(t) /\ k + 1 \in 1 .. n /\ (k + 1) - 1 = k
    BY <1>2
  <2>2. f[k + 1] = f[k] \o s[k + 1] /\ g[k + 1] = g[k] \o t[k + 1]
    BY <2>1 DEF IsFlattening
  <2> QED
    BY <1>2, <2>1, <2>2
<1>3. 1 .. n \subseteq T
  <2> HIDE DEF T
  <2> QED
    BY <1>1, <1>2, 1 \in Nat, Climbs
<1> QED
  BY <1>3

LEMMA FlattenAppended ==
  ASSUME NEW X, NEW s \in Seq(Seq(X)), NEW w \in Seq(X)
  PROVE  FlattenSeq(s) \in Seq(X) /\ FlattenSeq(Append(s, w)) = FlattenSeq(s) \o w
<1> DEFINE t == Append(s, w)
           n == Len(s)
<1>1. /\ t \in Seq(Seq(X)) /\ Len(t) = n + 1 /\ n \in Nat
      /\ t[n + 1] = w /\ \A k \in 1 .. n : t[k] = s[k]
  OBVIOUS
<1> HIDE DEF t
<1>2. Len(t) # 0
  BY <1>1
<1>3. PICK g : IsFlattening(g, t, X)
  BY <1>1, <1>2, FlattenMeans
<1>4. CASE n = 0
  <2>1. FlattenSeq(s) = <<>> /\ s = <<>>
    BY <1>4 DEF FlattenSeq
  <2>2. FlattenSeq(t) = w
    BY <1>1, <1>3, <1>4 DEF IsFlattening
  <2>3. <<>> \in Seq(X) /\ <<>> \o w = w
    OBVIOUS
  <2> QED
    BY <2>1, <2>2, <2>3 DEF t
<1>5. CASE n # 0
  <2>1. PICK f : IsFlattening(f, s, X)
    BY <1>5, FlattenMeans
  <2>2. f[n] = g[n]
    <3>1. n \in Nat \ {0} /\ n <= Len(s) /\ n <= Len(t) /\ \A k \in 1 .. n : s[k] = t[k]
      BY <1>1, <1>5
    <3>2. s \in Seq(Seq(X)) /\ t \in Seq(Seq(X))
      BY <1>1
    <3> HIDE DEF n
    <3> QED
      BY ONLY <1>3, <2>1, <3>1, <3>2, FlattenedAlike
  <2>3. n + 1 \in 2 .. Len(t) /\ (n + 1) - 1 = n /\ n \in 1 .. n
    BY <1>1, <1>5
  <2>4. g[n + 1] = g[n] \o t[n + 1]
    BY <1>3, <2>3 DEF IsFlattening
  <2>5. FlattenSeq(s) = f[n] /\ FlattenSeq(t) = g[n + 1] /\ f[n] \in Seq(X)
    BY <1>1, <1>3, <2>1, <2>3 DEF IsFlattening
  <2> QED
    BY <1>1, <2>2, <2>4, <2>5 DEF t
<1> QED
  BY <1>4, <1>5

LEMMA FlattenExtended ==
  ASSUME NEW X, NEW s \in Seq(Seq(X)), Len(s) # 0, NEW u \in X
  PROVE  FlattenSeq([s EXCEPT ![Len(s)] = Append(@, u)]) = Append(FlattenSeq(s), u)
<1> DEFINE n == Len(s)
           t == [s EXCEPT ![n] = Append(@, u)]
<1>1. /\ n \in Nat \ {0} /\ n \in 1 .. n /\ s[n] \in Seq(X)
      /\ t \in Seq(Seq(X)) /\ Len(t) = n
      /\ t[n] = Append(s[n], u) /\ \A k \in 1 .. n : k # n => t[k] = s[k]
  OBVIOUS
<1> HIDE DEF t
<1>2. PICK f : IsFlattening(f, s, X)
  BY FlattenMeans
<1>3. PICK g : IsFlattening(g, t, X)
  BY <1>1, FlattenMeans
<1>4. FlattenSeq(s) = f[n] /\ FlattenSeq(t) = g[n]
  BY <1>1, <1>2, <1>3 DEF IsFlattening
<1>5. CASE n = 1
  BY <1>1, <1>2, <1>3, <1>4, <1>5 DEF IsFlattening, t
<1>6. CASE n # 1
  <2>1. n - 1 \in Nat \ {0} /\ n - 1 <= Len(s) /\ n - 1 <= Len(t) /\ n \in 2 .. n
        /\ n - 1 \in 1 .. n /\ \A k \in 1 .. n - 1 : s[k] = t[k]
    BY <1>1, <1>6
  <2>2. f[n - 1] = g[n - 1]
    <3> DEFINE m == n - 1
    <3>1. /\ m \in Nat \ {0} /\ m <= Len(s) /\ m <= Len(t)
          /\ \A k \in 1 .. m : s[k] = t[k]
      BY <2>1
    <3> HIDE DEF m
    <3>2. f[m] = g[m]
      BY <1>1, <1>2, <1>3, <3>1, FlattenedAlike
    <3> QED
      BY <3>2 DEF m
  <2>3. f[n] = f[n - 1] \o s[n] /\ f[n - 1] \in Seq(X)
    BY <1>2, <2>1 DEF IsFlattening
  <2>5. g[n] = g[n - 1] \o t[n]
    BY <1>1, <1>3, <2>1 DEF IsFlattening
  <2>4. \A v, w \in Seq(X) : v \o Append(w, u) = Append(v \o w, u)
    OBVIOUS
  <2>6. f[n - 1] \o t[n] = Append(f[n - 1] \o s[n], u)
    BY <1>1, <2>3, <2>4
  <2> QED
    BY <1>4, <2>2, <2>3, <2>5, <2>6 DEF t
<1> QED
  BY <1>5, <1>6

\* The least of a few numbers, and one more.
LEMMA MinGrows ==
  ASSUME NEW T, T \subseteq Int, IsFiniteSet(T), T # {}, NEW x \in Int
  PROVE  Min(T \cup {x}) = Min({Min(T), x})
<1>1. Min(T) \in T /\ \A y \in T : Min(T) <= y
  BY MinFacts
<1>2. T \cup {x} \subseteq Int /\ IsFiniteSet(T \cup {x}) /\ T \cup {x} # {}
  BY FS_AddElement
<1>3. {Min(T), x} \subseteq Int /\ IsFiniteSet({Min(T), x}) /\ {Min(T), x} # {}
  <2>1. IsFiniteSet({x}) /\ {Min(T), x} = {x} \cup {Min(T)}
    BY FS_Singleton
  <2> QED
    BY <1>1, <2>1, FS_AddElement
<1> DEFINE a == Min(T \cup {x})
           b == Min({Min(T), x})
           c == Min(T)
<1>4. a \in T \cup {x} /\ \A y \in T \cup {x} : a <= y
  BY <1>2, MinFacts
<1>5. b \in {c, x} /\ \A y \in {c, x} : b <= y
  BY <1>3, MinFacts
<1> HIDE DEF a, b, c
<1>6. a \in Int /\ b \in Int /\ c \in Int /\ c \in T /\ \A y \in T : c <= y
  BY <1>1, <1>4, <1>5 DEF c
<1>7. a <= b
  BY <1>4, <1>5, <1>6
<1>8. b <= a
  BY <1>4, <1>5, <1>6
<1> QED
  BY <1>6, <1>7, <1>8 DEF a, b

-----------------------------------------------------------------------------
(***************************************************************************)
(* Concurrency: the groups that declared sets make.                        *)
(***************************************************************************)
ClosedUnder(D, S) == \A d \in D : d \cap S # {} => d \subseteq S

\* The groups are disjoint, no declared set is divided among them, and none is larger
\* than it has to be.
IsGrouping(G, D) ==
  /\ \A g, h \in G : g # h => g \cap h = {}
  /\ \A d \in D : d # {} => \E g \in G : d \subseteq g
  /\ \A g \in G : g \subseteq UNION D
  /\ \A g \in G : \A S : ClosedUnder(D, S) /\ S \cap g # {} => g \subseteq S

\* The groups with one more set.
Regrouped(G, d) ==
  {g \in G : g \cap d = {}}
    \cup (IF d = {} THEN {} ELSE {d \cup UNION {g \in G : g \cap d # {}}})

LEMMA GroupingGrows ==
  ASSUME NEW G, NEW D, IsGrouping(G, D), NEW d
  PROVE  IsGrouping(Regrouped(G, d), D \cup {d})
<1> DEFINE kept == {g \in G : g \cap d = {}}
           met == {g \in G : g \cap d # {}}
           all == d \cup UNION met
           E == D \cup {d}
           R == Regrouped(G, d)
<1>1. \A g \in R : g \in kept \/ (d # {} /\ g = all)
  BY DEF Regrouped
<1>2. kept \subseteq R /\ (d # {} => all \in R)
  BY DEF Regrouped
<1> HIDE DEF R
<1>3. ASSUME NEW g \in kept
      PROVE  g \cap all = {}
  <2>1. \A h \in met : g # h /\ g \in G /\ h \in G
    OBVIOUS
  <2>2. \A h \in met : g \cap h = {}
    BY <2>1 DEF IsGrouping
  <2> QED
    BY <2>2
<1>4. ASSUME NEW g \in R, NEW h \in R, g # h
      PROVE  g \cap h = {}
  <2>1. CASE g \in kept /\ h \in kept
    BY <1>4, <2>1 DEF IsGrouping
  <2>2. CASE g \in kept /\ h = all
    BY <1>3, <2>2
  <2>3. CASE g = all /\ h \in kept
    BY <1>3, <2>3
  <2> HIDE DEF kept, all
  <2> QED
    BY <1>1, <1>4, <2>1, <2>2, <2>3
<1>5. ASSUME NEW c \in E, c # {}
      PROVE  \E g \in R : c \subseteq g
  <2>1. CASE c = d
    BY <1>2, <1>5, <2>1
  <2>2. CASE c \in D
    <3>1. PICK g \in G : c \subseteq g
      BY <1>5, <2>2 DEF IsGrouping
    <3>2. CASE g \cap d = {}
      BY <1>2, <3>1, <3>2
    <3>3. CASE g \cap d # {}
      <4>1. d # {} /\ g \subseteq all
        BY <3>3
      <4> QED
        BY <1>2, <3>1, <4>1
    <3> QED
      BY <3>2, <3>3
  <2> QED
    BY <2>1, <2>2
<1>6. ASSUME NEW g \in R
      PROVE  g \subseteq UNION E
  <2>1. \A h \in G : h \subseteq UNION E
    BY DEF IsGrouping
  <2>2. all \subseteq UNION E
    BY <2>1
  <2> QED
    BY <1>1, <2>1, <2>2
<1>7. ASSUME NEW g \in R, NEW S, ClosedUnder(E, S), S \cap g # {}
      PROVE  g \subseteq S
  <2>1. ClosedUnder(D, S) /\ (d \cap S # {} => d \subseteq S)
    BY <1>7 DEF ClosedUnder
  <2>2. \A h \in G : S \cap h # {} => h \subseteq S
    BY <2>1 DEF IsGrouping
  <2>3. CASE g \in kept
    BY <1>7, <2>2, <2>3
  <2>4. CASE g = all
    <3>1. S \cap d # {}
      <4>1. CASE S \cap d = {}
        <5>1. PICK x \in S : x \in UNION met
          BY <1>7, <2>4, <4>1
        <5>2. PICK h \in met : x \in h
          BY <5>1
        <5>3. h \subseteq S
          BY <2>2, <5>1, <5>2
        <5>4. h \cap d # {}
          BY <5>2
        <5> QED
          BY <4>1, <5>3, <5>4
      <4> QED
        BY <4>1
    <3>2. d \subseteq S
      BY <2>1, <3>1
    <3>3. \A h \in met : h \subseteq S
      BY <2>2, <3>2
    <3> QED
      BY <2>4, <3>2, <3>3
  <2> QED
    BY <1>1, <2>3, <2>4
<1> QED
  <2>1. \A g, h \in R : g # h => g \cap h = {}
    BY <1>4
  <2>2. \A c \in E : c # {} => \E g \in R : c \subseteq g
    BY <1>5
  <2>3. \A g \in R : g \subseteq UNION E
    BY <1>6
  <2>4. \A g \in R : \A S : ClosedUnder(E, S) /\ S \cap g # {} => g \subseteq S
    BY <1>7
  <2> HIDE DEF E
  <2>5. IsGrouping(R, E)
    BY <2>1, <2>2, <2>3, <2>4 DEF IsGrouping
  <2> QED
    BY <2>5 DEF R, E

Before(gs, k) == {gs[i] : i \in 1 .. k}

LEMMA AddSetMeans ==
  ASSUME NEW U, NEW gs \in Seq(SUBSET U), NEW d \in SUBSET U,
         \A g, h \in ToSet(gs) : g # h => g \cap h = {}
  PROVE  /\ AddSet(gs, d) \in Seq(SUBSET U)
         /\ ToSet(AddSet(gs, d)) = Regrouped(ToSet(gs), d)
<1> DEFINE V == [merged : SUBSET U, kept : Seq(SUBSET U)]
           n == Len(gs)
           first == [merged |-> d, kept |-> <<>>]
           step == [kv \in (1 .. n) \X V |-> Absorb(kv[2], gs[kv[1]])]
           Makes(f) == f = [k \in 0 .. n |-> IF k = 0 THEN first ELSE Absorb(f[k - 1], gs[k])]
<1>1. n \in Nat /\ DOMAIN gs = 1 .. n /\ \A k \in 1 .. n : gs[k] \in SUBSET U
  OBVIOUS
<1>2. \A k \in 1 .. n : \A v \in V : step[<<k, v>>] = Absorb(v, gs[k])
  OBVIOUS
<1>3. ASSUME NEW v \in V, NEW g \in SUBSET U
      PROVE  /\ Absorb(v, g) \in V
             /\ g \cap v.merged = {} => /\ Absorb(v, g).merged = v.merged
                                        /\ Absorb(v, g).kept = Append(v.kept, g)
             /\ g \cap v.merged # {} => /\ Absorb(v, g).merged = v.merged \cup g
                                        /\ Absorb(v, g).kept = v.kept
  <2>1. v.kept \in Seq(SUBSET U) /\ v.merged \in SUBSET U
          /\ v = [merged |-> v.merged, kept |-> v.kept]
    OBVIOUS
  <2>2. CASE g \cap v.merged = {}
    <3>1. Absorb(v, g) = [merged |-> v.merged, kept |-> Append(v.kept, g)]
      BY <2>1, <2>2 DEF Absorb
    <3>2. Append(v.kept, g) \in Seq(SUBSET U)
      BY <2>1
    <3> QED
      BY <2>1, <2>2, <3>1, <3>2
  <2>3. CASE g \cap v.merged # {}
    <3>1. Absorb(v, g) = [merged |-> v.merged \cup g, kept |-> v.kept]
      BY <2>1, <2>3 DEF Absorb
    <3> QED
      BY <2>1, <2>3, <3>1
  <2> QED
    BY <2>2, <2>3
<1>4. first \in V
  OBVIOUS
<1> HIDE DEF V, step, Makes, first, n
<1>5. StepsWithin(step, 1, n, V)
  <2> SUFFICES ASSUME NEW k \in 1 .. n, NEW v \in V PROVE step[<<k, v>>] \in V
    BY DEF StepsWithin
  <2>1. gs[k] \in SUBSET U
    BY <1>1
  <2> QED
    BY <1>2, <1>3, <2>1
<1>6. PICK f \in [0 .. n -> V] : f[0] = first /\ TakesSteps(f, step, 1, n)
  BY <1>1, <1>4, <1>5, RecursionExists
<1>7. \A k \in 1 .. n : k - 1 \in 0 .. n /\ k \in 0 .. n /\ k # 0
  BY <1>1
<1>8. \A k \in 1 .. n : f[k] = Absorb(f[k - 1], gs[k])
  <2> SUFFICES ASSUME NEW k \in 1 .. n PROVE f[k] = Absorb(f[k - 1], gs[k])
    OBVIOUS
  <2>1. f[k - 1] \in V
    BY <1>6, <1>7
  <2> QED
    BY <1>2, <1>6, <2>1 DEF TakesSteps
<1>9. Makes(f)
  <2>1. \A k \in 0 .. n : k # 0 => k \in 1 .. n
    BY <1>1
  <2>2. \A k \in 0 .. n : f[k] = IF k = 0 THEN first ELSE Absorb(f[k - 1], gs[k])
    BY <1>6, <1>8, <2>1
  <2> QED
    BY <2>2 DEF Makes
<1> DEFINE acc == CHOOSE g : Makes(g)
<1>10. Makes(acc)
  BY <1>9
<1>11. AddSet(gs, d) = IF acc[n].merged = {} THEN acc[n].kept ELSE Append(acc[n].kept, acc[n].merged)
  BY DEF AddSet, Makes, first, n
<1> HIDE DEF acc
<1>12. acc = [k \in 0 .. n |-> IF k = 0 THEN first ELSE Absorb(acc[k - 1], gs[k])]
  BY <1>10 DEF Makes
<1>13. acc[0] = first /\ \A k \in 1 .. n : acc[k] = Absorb(acc[k - 1], gs[k])
  BY <1>1, <1>7, <1>12
<1> DEFINE Apart(k) == {g \in Before(gs, k) : g \cap d = {}}
           Met(k) == {g \in Before(gs, k) : g \cap d # {}}
           T == {k \in 0 .. n : /\ acc[k] \in V
                                /\ acc[k].merged = d \cup UNION Met(k)
                                /\ ToSet(acc[k].kept) = Apart(k)}
<1>14. 0 \in T
  <2>1. Before(gs, 0) = {}
    BY DEF Before
  <2>2. ToSet(<<>>) = {}
    BY DEF ToSet
  <2>3. 0 \in 0 .. n
    BY <1>1
  <2> QED
    BY <1>4, <1>13, <2>1, <2>2, <2>3 DEF first
<1>15. ASSUME NEW k \in 0 .. n, k # n, k \in T
       PROVE  k + 1 \in T
  <2> DEFINE g == gs[k + 1]
             a == acc[k]
             b == acc[k + 1]
  <2>1. k + 1 \in 1 .. n /\ k + 1 \in 0 .. n /\ (k + 1) - 1 = k /\ k \in Nat
    BY <1>1, <1>15
  <2>2. g \in SUBSET U /\ b = Absorb(a, g)
    BY <1>1, <1>13, <2>1
  <2>3. a \in V /\ a.merged = d \cup UNION Met(k) /\ ToSet(a.kept) = Apart(k)
    BY <1>15
  <2>4. Before(gs, k + 1) = Before(gs, k) \cup {g}
    <3>1. 1 .. k + 1 = (1 .. k) \cup {k + 1}
      BY <2>1
    <3> QED
      BY <3>1 DEF Before
  <2>5. \A h \in Before(gs, k) : h \in ToSet(gs)
    BY <1>1, <2>1 DEF Before, ToSet
  <2>6. g \in ToSet(gs)
    BY <1>1, <2>1 DEF ToSet
  <2> HIDE DEF g, a, b
  <2>7. CASE g \cap d = {}
    <3>1. \A h \in Met(k) : h # g /\ h \cap g = {}
      BY <2>5, <2>6, <2>7
    <3>2. g \cap a.merged = {}
      BY <2>3, <2>7, <3>1
    <3>3. b \in V /\ b.merged = a.merged /\ b.kept = Append(a.kept, g)
      BY <1>3, <2>2, <2>3, <3>2
    <3>4. Met(k + 1) = Met(k) /\ Apart(k + 1) = Apart(k) \cup {g}
      BY <2>4, <2>7
    <3>5. ToSet(b.kept) = ToSet(a.kept) \cup {g}
      <4>1. IsSeq(a.kept)
        BY <2>3, IsSeqOver DEF V
      <4> QED
        BY <3>3, <4>1, AppendedFacts
    <3> QED
      BY <2>1, <2>3, <3>3, <3>4, <3>5 DEF b
  <2>8. CASE g \cap d # {}
    <3>1. g \cap a.merged # {}
      BY <2>3, <2>8
    <3>2. b \in V /\ b.merged = a.merged \cup g /\ b.kept = a.kept
      BY <1>3, <2>2, <2>3, <3>1
    <3>3. Met(k + 1) = Met(k) \cup {g} /\ Apart(k + 1) = Apart(k)
      BY <2>4, <2>8
    <3>4. UNION Met(k + 1) = (UNION Met(k)) \cup g
      <4>1. \A A, B : A = B \cup {g} => UNION A = (UNION B) \cup g
        OBVIOUS
      <4> HIDE DEF Met, Apart
      <4> QED
        BY <3>3, <4>1
    <3>5. b.merged = d \cup UNION Met(k + 1)
      <4>1. b.merged = (d \cup UNION Met(k)) \cup g
        BY <2>3, <3>2
      <4> HIDE DEF Met
      <4> QED
        BY <3>4, <4>1
    <3>6. ToSet(b.kept) = Apart(k + 1)
      BY <2>3, <3>2, <3>3
    <3> HIDE DEF Met, Apart
    <3> QED
      BY <2>1, <3>2, <3>5, <3>6 DEF b
  <2> QED
    BY <2>7, <2>8
<1>16. 0 .. n \subseteq T
  <2> HIDE DEF T
  <2> QED
    BY <1>1, <1>14, <1>15, 0 \in Nat, Climbs
<1>17. /\ acc[n] \in V
       /\ acc[n].merged = d \cup UNION Met(n) /\ ToSet(acc[n].kept) = Apart(n)
  <2>1. n \in 0 .. n
    BY <1>1
  <2>2. n \in T
    BY <1>16, <2>1
  <2> QED
    BY <2>2
<1>18. Before(gs, n) = ToSet(gs)
  BY <1>1 DEF Before, ToSet
<1> DEFINE last == acc[n]
<1>19. /\ last.kept \in Seq(SUBSET U) /\ last.merged \in SUBSET U
       /\ last.merged = {} <=> d = {}
  BY <1>17 DEF V
<1>20. ToSet(last.kept) = {g \in ToSet(gs) : g \cap d = {}}
       /\ last.merged = d \cup UNION {g \in ToSet(gs) : g \cap d # {}}
  BY <1>17, <1>18
<1> HIDE DEF last
<1>21. AddSet(gs, d) = IF last.merged = {} THEN last.kept ELSE Append(last.kept, last.merged)
  BY <1>11 DEF last
<1>22. CASE d = {}
  BY <1>19, <1>20, <1>21, <1>22 DEF Regrouped
<1>23. CASE d # {}
  <2>1. AddSet(gs, d) = Append(last.kept, last.merged)
    BY <1>19, <1>21, <1>23
  <2>2. ToSet(AddSet(gs, d)) = ToSet(last.kept) \cup {last.merged}
    BY <1>19, <2>1, IsSeqOver, AppendedFacts
  <2> QED
    BY <1>19, <1>20, <1>23, <2>1, <2>2 DEF Regrouped
<1> QED
  BY <1>22, <1>23

\* Groups over U, of which no two share a member.
Groupings(U) == {gs \in Seq(SUBSET U) : \A g, h \in ToSet(gs) : g # h => g \cap h = {}}

LEMMA AddSetRegroups ==
  ASSUME NEW U, NEW gs \in Groupings(U), NEW d \in SUBSET U
  PROVE  AddSet(gs, d) \in Groupings(U) /\ ToSet(AddSet(gs, d)) = Regrouped(ToSet(gs), d)
<1> DEFINE G == ToSet(gs)
<1>1. gs \in Seq(SUBSET U) /\ \A g, h \in G : g # h => g \cap h = {}
  BY DEF Groupings
<1>2. AddSet(gs, d) \in Seq(SUBSET U) /\ ToSet(AddSet(gs, d)) = Regrouped(G, d)
  BY <1>1, AddSetMeans
<1> HIDE DEF G
<1>3. IsGrouping(G, G)
  BY <1>1 DEF IsGrouping, ClosedUnder
<1>4. \A g, h \in Regrouped(G, d) : g # h => g \cap h = {}
  <2>1. IsGrouping(Regrouped(G, d), G \cup {d})
    BY <1>3, GroupingGrows
  <2> QED
    BY <2>1 DEF IsGrouping
<1> QED
  BY <1>2, <1>4 DEF Groupings, G

LEMMA GroupsMean ==
  ASSUME NEW U, NEW sets \in Seq(SUBSET U)
  PROVE  IsGrouping(ToSet(Groups(sets)), ToSet(sets))
<1> DEFINE V == Groupings(U)
           n == Len(sets)
           step == [kv \in (1 .. n) \X V |-> AddSet(kv[2], sets[kv[1]])]
           Makes(f) == f = [k \in 0 .. n |-> IF k = 0 THEN <<>> ELSE AddSet(f[k - 1], sets[k])]
<1>1. n \in Nat /\ DOMAIN sets = 1 .. n /\ \A k \in 1 .. n : sets[k] \in SUBSET U
  OBVIOUS
<1>2. \A k \in 1 .. n : \A v \in V : step[<<k, v>>] = AddSet(v, sets[k])
  OBVIOUS
<1>3. \A v \in V, d \in SUBSET U :
        AddSet(v, d) \in V /\ ToSet(AddSet(v, d)) = Regrouped(ToSet(v), d)
  BY AddSetRegroups
<1>4. <<>> \in V /\ ToSet(<<>>) = {}
  BY DEF Groupings, ToSet
<1> HIDE DEF V, step, Makes, n
<1>5. StepsWithin(step, 1, n, V)
  <2> SUFFICES ASSUME NEW k \in 1 .. n, NEW v \in V PROVE step[<<k, v>>] \in V
    BY DEF StepsWithin
  <2> QED
    BY <1>1, <1>2, <1>3
<1>6. PICK f \in [0 .. n -> V] : f[0] = <<>> /\ TakesSteps(f, step, 1, n)
  BY <1>1, <1>4, <1>5, RecursionExists
<1>7. \A k \in 1 .. n : k - 1 \in 0 .. n /\ k \in 0 .. n /\ k # 0
  BY <1>1
<1>8. \A k \in 1 .. n : f[k] = AddSet(f[k - 1], sets[k])
  <2> SUFFICES ASSUME NEW k \in 1 .. n PROVE f[k] = AddSet(f[k - 1], sets[k])
    OBVIOUS
  <2>1. f[k - 1] \in V
    BY <1>6, <1>7
  <2> QED
    BY <1>2, <1>6, <2>1 DEF TakesSteps
<1>9. Makes(f)
  <2>1. \A k \in 0 .. n : k # 0 => k \in 1 .. n
    BY <1>1
  <2>2. \A k \in 0 .. n : f[k] = IF k = 0 THEN <<>> ELSE AddSet(f[k - 1], sets[k])
    BY <1>6, <1>8, <2>1
  <2> QED
    BY <2>2 DEF Makes
<1> DEFINE groups == CHOOSE g : Makes(g)
<1>10. Makes(groups)
  BY <1>9
<1>11. Groups(sets) = groups[n]
  BY DEF Groups, Makes, n
<1> HIDE DEF groups
<1>12. groups = [k \in 0 .. n |-> IF k = 0 THEN <<>> ELSE AddSet(groups[k - 1], sets[k])]
  BY <1>10 DEF Makes
<1>13. groups[0] = <<>> /\ \A k \in 1 .. n : groups[k] = AddSet(groups[k - 1], sets[k])
  BY <1>1, <1>7, <1>12
<1> DEFINE T == {k \in 0 .. n : groups[k] \in V /\ IsGrouping(ToSet(groups[k]), Before(sets, k))}
<1>14. 0 \in T
  <2>1. Before(sets, 0) = {} /\ 0 \in 0 .. n
    BY <1>1 DEF Before
  <2>2. IsGrouping({}, {})
    BY DEF IsGrouping
  <2> QED
    BY <1>4, <1>13, <2>1, <2>2
<1>15. ASSUME NEW k \in 0 .. n, k # n, k \in T
       PROVE  k + 1 \in T
  <2>1. k + 1 \in 1 .. n /\ k + 1 \in 0 .. n /\ (k + 1) - 1 = k /\ k \in Nat
    BY <1>1, <1>15
  <2>2. Before(sets, k + 1) = Before(sets, k) \cup {sets[k + 1]}
    <3>1. 1 .. k + 1 = (1 .. k) \cup {k + 1}
      BY <2>1
    <3> QED
      BY <3>1 DEF Before
  <2>3. groups[k + 1] = AddSet(groups[k], sets[k + 1]) /\ sets[k + 1] \in SUBSET U
    BY <1>1, <1>13, <2>1
  <2>4. groups[k] \in V /\ IsGrouping(ToSet(groups[k]), Before(sets, k))
    BY <1>15
  <2>5. groups[k + 1] \in V
        /\ ToSet(groups[k + 1]) = Regrouped(ToSet(groups[k]), sets[k + 1])
    BY <1>3, <2>3, <2>4
  <2>6. IsGrouping(ToSet(groups[k + 1]), Before(sets, k + 1))
    BY <2>2, <2>4, <2>5, GroupingGrows
  <2> QED
    BY <2>1, <2>5, <2>6
<1>16. 0 .. n \subseteq T
  <2> HIDE DEF T
  <2> QED
    BY <1>1, <1>14, <1>15, 0 \in Nat, Climbs
<1>17. IsGrouping(ToSet(groups[n]), Before(sets, n))
  <2>1. n \in 0 .. n
    BY <1>1
  <2>2. n \in T
    BY <1>16, <2>1
  <2> QED
    BY <2>2
<1>18. Before(sets, n) = ToSet(sets)
  BY <1>1 DEF Before, ToSet
<1> QED
  BY <1>11, <1>17, <1>18

\* Two names are together if no closed set parts them.
AreTogether(D, p, q) ==
  /\ \E d \in D : p \in d
  /\ \A S \in SUBSET UNION D : p \in S /\ ClosedUnder(D, S) => q \in S

LEMMA TogetherMeansGroup ==
  ASSUME NEW G, NEW D, IsGrouping(G, D), NEW p, NEW q
  PROVE  AreTogether(D, p, q) <=> \E g \in G : p \in g /\ q \in g
<1>1. ASSUME NEW g \in G
      PROVE  ClosedUnder(D, g)
  <2> SUFFICES ASSUME NEW d \in D, d \cap g # {} PROVE d \subseteq g
    BY DEF ClosedUnder
  <2>1. d # {}
    OBVIOUS
  <2>2. PICK h \in G : d \subseteq h
    BY <2>1 DEF IsGrouping
  <2>3. h \cap g # {}
    BY <2>2
  <2>4. h = g
    BY <2>3 DEF IsGrouping
  <2> QED
    BY <2>2, <2>4
<1>2. ASSUME AreTogether(D, p, q)
      PROVE  \E g \in G : p \in g /\ q \in g
  <2>1. PICK d \in D : p \in d
    BY <1>2 DEF AreTogether
  <2>2. PICK g \in G : d \subseteq g
    BY <2>1 DEF IsGrouping
  <2>3. g \in SUBSET UNION D
    BY DEF IsGrouping
  <2>4. q \in g
    BY <1>1, <1>2, <2>1, <2>2, <2>3 DEF AreTogether
  <2> QED
    BY <2>1, <2>2, <2>4
<1>3. ASSUME NEW g \in G, p \in g, q \in g
      PROVE  AreTogether(D, p, q)
  <2>1. \E d \in D : p \in d
    BY <1>3 DEF IsGrouping
  <2>2. ASSUME NEW S \in SUBSET UNION D, p \in S, ClosedUnder(D, S)
        PROVE  q \in S
    <3>1. S \cap g # {}
      BY <1>3, <2>2
    <3>2. g \subseteq S
      BY <2>2, <3>1 DEF IsGrouping
    <3> QED
      BY <1>3, <3>2
  <2> QED
    BY <2>1, <2>2 DEF AreTogether
<1> QED
  BY <1>2, <1>3

\* A node claims concurrency exactly if two of its paths are not together.
LEMMA ClaimsMean ==
  ASSUME NEW node, IsModelNode(node), node.exclusive # NoExclusive => IsSeq(node.exclusive)
  PROVE  ClaimsConcurrency(node) <=>
           /\ node.exclusive # NoExclusive
           /\ \E p, q \in NamesOf(node.paths) :
                p # q /\ ~ AreTogether(ToSet(node.exclusive), p, q)
<1> SUFFICES ASSUME node.exclusive # NoExclusive
             PROVE  ClaimsConcurrency(node) <=>
                      \E p, q \in NamesOf(node.paths) :
                        p # q /\ ~ AreTogether(ToSet(node.exclusive), p, q)
  BY DEF ClaimsConcurrency
<1> DEFINE names == NamesOf(node.paths)
           D == ToSet(node.exclusive)
           G == ToSet(Groups(node.exclusive))
           n == Len(node.paths)
<1>1. IsGrouping(G, D)
  <2> DEFINE U == UNION D
  <2>1. node.exclusive \in Seq(D) /\ D \subseteq SUBSET U
    BY DEF IsSeq
  <2> HIDE DEF U, D
  <2>2. node.exclusive \in Seq(SUBSET U)
    BY <2>1
  <2> QED
    BY <2>2, GroupsMean DEF D
<1>2. ClaimsConcurrency(node) <=> n > 1 /\ ~ \E g \in G : names \subseteq g
  BY DEF ClaimsConcurrency
<1>3. /\ n \in Nat /\ DOMAIN node.paths = 1 .. n
      /\ \A i, j \in 1 .. n : node.paths[i].name = node.paths[j].name => i = j
  BY SeqFacts DEF IsModelNode, NamedOnce
<1>4. names = {node.paths[i].name : i \in 1 .. n}
  BY <1>3 DEF NamesOf
<1> HIDE DEF D, G, n, names
<1>5. \A p, q : AreTogether(D, p, q) <=> \E g \in G : p \in g /\ q \in g
  BY <1>1, TogetherMeansGroup
<1>6. ASSUME n > 1, ~ \E g \in G : names \subseteq g
      PROVE  \E p, q \in names : p # q /\ ~ AreTogether(D, p, q)
  <2> SUFFICES ASSUME \A p, q \in names : p # q => AreTogether(D, p, q) PROVE FALSE
    OBVIOUS
  <2>1. 1 \in 1 .. n /\ 2 \in 1 .. n
    BY <1>3, <1>6
  <2>2. PICK p \in names, q \in names : p # q
    <3>1. node.paths[1].name # node.paths[2].name
      BY <1>3, <2>1
    <3>2. node.paths[1].name \in names /\ node.paths[2].name \in names
      BY <1>4, <2>1
    <3> QED
      BY <3>1, <3>2
  <2>3. PICK g \in G : p \in g /\ q \in g
    BY <1>5, <2>2
  <2>4. ASSUME NEW r \in names
        PROVE  r \in g
    <3>1. CASE r = p
      BY <2>3, <3>1
    <3>2. CASE r # p
      <4>1. PICK h \in G : p \in h /\ r \in h
        BY <1>5, <3>2
      <4>2. h = g
        BY <1>1, <2>3, <4>1 DEF IsGrouping
      <4> QED
        BY <4>1, <4>2
    <3> QED
      BY <3>1, <3>2
  <2> QED
    BY <1>6, <2>4
<1>7. ASSUME NEW p \in names, NEW q \in names, p # q, ~ AreTogether(D, p, q)
      PROVE  n > 1 /\ ~ \E g \in G : names \subseteq g
  <2>1. PICK i \in 1 .. n, j \in 1 .. n : p = node.paths[i].name /\ q = node.paths[j].name
    BY <1>4
  <2>2. i # j
    BY <1>7, <2>1
  <2>3. n > 1
    BY <1>3, <2>1, <2>2
  <2> QED
    BY <1>5, <1>7, <2>3
<1> QED
  BY <1>2, <1>6, <1>7 DEF names, D

-----------------------------------------------------------------------------
(***************************************************************************)
(* A route that is split into elements: X are the vertices it may have.    *)
(***************************************************************************)
IsElement(X, e) ==
  \/ e.kind = "boundary" /\ e.link \in X /\ e.period \in Nat
  \/ \E links \in Seq(X) : e = [kind |-> "segment", links |-> links]

AreElements(X, es) == IsSeq(es) /\ \A i \in DOMAIN es : IsElement(X, es[i])

LEMMA ElementFacts ==
  ASSUME NEW X, NEW e, IsElement(X, e)
  PROVE  /\ LinksOf(e) \in Seq(X) /\ SampledBy(e) \in Nat
         /\ e.kind \in {"boundary", "segment"}
<1>1. CASE e.kind = "boundary" /\ e.link \in X /\ e.period \in Nat
  <2>1. <<e.link>> \in Seq(X)
    BY <1>1
  <2> QED
    BY <1>1, <2>1 DEF LinksOf, SampledBy
<1>2. CASE \E links \in Seq(X) : e = [kind |-> "segment", links |-> links]
  BY <1>2 DEF LinksOf, SampledBy
<1> QED
  BY <1>1, <1>2 DEF IsElement

\* The links and the periods, element by element.
LinkLists(es) == [i \in DOMAIN es |-> LinksOf(es[i])]
Periods(es) == [i \in DOMAIN es |-> SampledBy(es[i])]

LEMMA ListsOfElements ==
  ASSUME NEW X, NEW es, AreElements(X, es)
  PROVE  /\ LinkLists(es) \in Seq(Seq(X)) /\ Len(LinkLists(es)) = Len(es)
         /\ Periods(es) \in Seq(Nat) /\ Len(Periods(es)) = Len(es)
         /\ \A i \in 1 .. Len(es) : LinkLists(es)[i] = LinksOf(es[i])
                                    /\ Periods(es)[i] = SampledBy(es[i])
         /\ Len(es) \in Nat /\ DOMAIN es = 1 .. Len(es)
         /\ Links(es) = FlattenSeq(LinkLists(es)) /\ Sampling(es) = Total(Periods(es))
<1>1. Len(es) \in Nat /\ DOMAIN es = 1 .. Len(es)
  BY SeqFacts DEF AreElements
<1>2. \A i \in 1 .. Len(es) : LinksOf(es[i]) \in Seq(X) /\ SampledBy(es[i]) \in Nat
  BY <1>1, ElementFacts DEF AreElements
<1> DEFINE V == Seq(X)
           l(i) == LinksOf(es[i])
           p(i) == SampledBy(es[i])
<1>3. LinkLists(es) = [i \in 1 .. Len(es) |-> l(i)] /\ Periods(es) = [i \in 1 .. Len(es) |-> p(i)]
  BY <1>1 DEF LinkLists, Periods
<1>4. \A i \in 1 .. Len(es) : l(i) \in V /\ p(i) \in Nat
  BY <1>2
<1> HIDE DEF V, l, p
<1>5. /\ LinkLists(es) \in Seq(V) /\ Len(LinkLists(es)) = Len(es)
      /\ Periods(es) \in Seq(Nat) /\ Len(Periods(es)) = Len(es)
      /\ \A i \in 1 .. Len(es) : LinkLists(es)[i] = l(i) /\ Periods(es)[i] = p(i)
  BY <1>1, <1>3, <1>4
<1> QED
  BY <1>1, <1>5 DEF V, l, p, Links, LinkLists, Sampling, Periods

LEMMA LinksAreVertices ==
  ASSUME NEW X, NEW es, AreElements(X, es)
  PROVE  Links(es) \in Seq(X)
BY ListsOfElements, FlattenAppended, <<>> \in Seq(X)

LEMMA ElementAppended ==
  ASSUME NEW X, NEW es, AreElements(X, es), NEW e, IsElement(X, e)
  PROVE  /\ AreElements(X, Append(es, e))
         /\ Links(Append(es, e)) = Links(es) \o LinksOf(e)
         /\ Sampling(Append(es, e)) = Sampling(es) + SampledBy(e)
<1> DEFINE t == Append(es, e)
           n == Len(es)
<1>1. /\ IsSeq(t) /\ n \in Nat /\ Len(t) = n + 1 /\ DOMAIN t = 1 .. n + 1
      /\ \A i \in 1 .. n : t[i] = es[i]
      /\ t[n + 1] = e
  BY AppendedFacts DEF AreElements
<1> HIDE DEF t
<1>2. \A i \in 1 .. n + 1 : i \in 1 .. n \/ i = n + 1
  BY <1>1
<1>3. AreElements(X, t)
  BY <1>1, <1>2, ListsOfElements DEF AreElements
<1>4. /\ LinkLists(es) \in Seq(Seq(X)) /\ Len(LinkLists(es)) = n
      /\ LinkLists(t) \in Seq(Seq(X)) /\ Len(LinkLists(t)) = n + 1
      /\ Periods(es) \in Seq(Nat) /\ Len(Periods(es)) = n
      /\ Periods(t) \in Seq(Nat) /\ Len(Periods(t)) = n + 1
  BY <1>1, <1>3, ListsOfElements
<1>5. /\ \A i \in 1 .. n : LinkLists(t)[i] = LinkLists(es)[i] /\ Periods(t)[i] = Periods(es)[i]
      /\ LinkLists(t)[n + 1] = LinksOf(e) /\ Periods(t)[n + 1] = SampledBy(e)
  <2>1. n + 1 \in 1 .. n + 1 /\ \A i \in 1 .. n : i \in 1 .. n + 1
    BY <1>1
  <2>2. \A i \in 1 .. n : LinkLists(es)[i] = LinksOf(es[i]) /\ Periods(es)[i] = SampledBy(es[i])
    BY ListsOfElements
  <2>3. \A i \in 1 .. Len(t) : LinkLists(t)[i] = LinksOf(t[i]) /\ Periods(t)[i] = SampledBy(t[i])
    BY <1>3, ListsOfElements
  <2>4. \A i \in 1 .. n + 1 : LinkLists(t)[i] = LinksOf(t[i]) /\ Periods(t)[i] = SampledBy(t[i])
    BY <1>1, <2>3
  <2> QED
    BY <1>1, <2>1, <2>2, <2>4
<1>6. LinksOf(e) \in Seq(X)
  BY ElementFacts
<1> DEFINE V == Seq(X)
<1>7. LinkLists(t) = Append(LinkLists(es), LinksOf(e))
  <2> HIDE DEF V
  <2>1. LinkLists(es) \in Seq(V) /\ LinkLists(t) \in Seq(V) /\ LinksOf(e) \in V
    BY <1>4, <1>6 DEF V
  <2>2. LinkLists(t) = [i \in 1 .. n + 1 |-> LinkLists(t)[i]]
    BY <1>4, <2>1
  <2>3. Append(LinkLists(es), LinksOf(e))
          = [i \in 1 .. n + 1 |-> IF i = n + 1 THEN LinksOf(e) ELSE LinkLists(es)[i]]
    <3> DEFINE a == LinkLists(es)
               b == Append(a, LinksOf(e))
    <3>1. a \in Seq(V) /\ Len(a) = n
      BY <1>4, <2>1
    <3> HIDE DEF a
    <3>2. /\ b \in Seq(V) /\ Len(b) = n + 1
          /\ b[n + 1] = LinksOf(e) /\ \A i \in 1 .. n : b[i] = a[i]
      BY <2>1, <3>1
    <3> HIDE DEF b
    <3>3. b = [i \in 1 .. n + 1 |-> b[i]]
      BY <3>2
    <3>4. \A i \in 1 .. n + 1 : b[i] = IF i = n + 1 THEN LinksOf(e) ELSE a[i]
      BY <1>2, <3>2
    <3> QED
      BY <3>3, <3>4 DEF a, b
  <2>4. \A i \in 1 .. n + 1 :
          LinkLists(t)[i] = IF i = n + 1 THEN LinksOf(e) ELSE LinkLists(es)[i]
    BY <1>2, <1>5
  <2> QED
    BY <2>2, <2>3, <2>4
<1>8. Links(t) = Links(es) \o LinksOf(e)
  <2>1. FlattenSeq(Append(LinkLists(es), LinksOf(e))) = FlattenSeq(LinkLists(es)) \o LinksOf(e)
    BY <1>4, <1>6, FlattenAppended
  <2> QED
    BY <1>3, <1>7, <2>1, ListsOfElements
<1>9. Sampling(t) = Sampling(es) + SampledBy(e)
  <2>1. Total(Periods(t)) = Total(Periods(es)) + Periods(t)[n + 1]
    BY <1>4, <1>5, TotalAppended
  <2> QED
    BY <1>3, <1>5, <2>1, ListsOfElements
<1> QED
  BY <1>3, <1>8, <1>9 DEF t

LEMMA PlaceUpdated ==
  ASSUME NEW V, NEW q \in Seq(V), NEW n \in 1 .. Len(q), NEW v \in V
  PROVE  LET t == [q EXCEPT ![n] = v]
         IN  /\ t \in Seq(V) /\ Len(t) = Len(q) /\ DOMAIN t = 1 .. Len(q)
             /\ t[n] = v /\ \A i \in 1 .. Len(q) : i # n => t[i] = q[i]
OBVIOUS

LEMMA IsUpdated ==
  ASSUME NEW V, NEW q \in Seq(V), NEW n \in 1 .. Len(q), NEW v \in V,
         NEW b \in Seq(V), Len(b) = Len(q), b[n] = v,
         \A i \in 1 .. Len(q) : i # n => b[i] = q[i]
  PROVE  b = [q EXCEPT ![n] = v]
<1> DEFINE t == [q EXCEPT ![n] = v]
<1>1. /\ t \in Seq(V) /\ Len(t) = Len(q)
      /\ t[n] = v /\ \A i \in 1 .. Len(q) : i # n => t[i] = q[i]
  BY PlaceUpdated
<1> HIDE DEF t
<1>2. \A i \in 1 .. Len(q) : b[i] = t[i]
  BY <1>1
<1>3. b = [i \in 1 .. Len(q) |-> b[i]] /\ t = [i \in 1 .. Len(q) |-> t[i]]
  BY <1>1
<1>4. b = t
  BY <1>2, <1>3
<1> QED
  BY <1>4 DEF t

LEMMA SegmentExtended ==
  ASSUME NEW X, NEW es, AreElements(X, es), es # <<>>, Last(es).kind = "segment", NEW u \in X
  PROVE  LET t == [es EXCEPT ![Len(es)].links = Append(@, u)]
         IN  /\ AreElements(X, t) /\ Len(t) = Len(es)
             /\ \A i \in 1 .. Len(es) : t[i].kind = es[i].kind
             /\ Links(t) = Append(Links(es), u)
             /\ Sampling(t) = Sampling(es)
<1> DEFINE n == Len(es)
           t == [es EXCEPT ![n].links = Append(@, u)]
<1>1. n \in Nat /\ DOMAIN es = 1 .. n /\ es \in Seq(ToSet(es))
  BY SeqFacts DEF AreElements, IsSeq
<1>2. n # 0 /\ n \in 1 .. n /\ Last(es) = es[n]
  BY <1>1 DEF Last
<1>3. PICK links \in Seq(X) : es[n] = [kind |-> "segment", links |-> links]
  BY <1>1, <1>2 DEF AreElements, IsElement
<1> DEFINE last == [kind |-> "segment", links |-> Append(links, u)]
           V == ToSet(es) \cup {last}
<1>0. last.kind = "segment" /\ last.links = Append(links, u)
  OBVIOUS
<1>4. t = [es EXCEPT ![n] = last]
  <2> HIDE DEF n
  <2> DEFINE e == es[n]
             a == Append(links, u)
  <2>0. e = [kind |-> "segment", links |-> links]
    BY <1>3
  <2> HIDE DEF e, a
  <2>4. [e EXCEPT !.links = a] = [kind |-> "segment", links |-> a]
    BY ONLY <2>0
  <2>1. [e EXCEPT !.links = a] = last
    BY <2>4 DEF a
  <2>3. [e EXCEPT !.links = Append(@, u)] = [e EXCEPT !.links = a]
    BY <2>0 DEF a
  <2> HIDE DEF last
  <2>2. t = [es EXCEPT ![n] = [e EXCEPT !.links = Append(@, u)]]
    BY DEF e
  <2> QED
    BY <2>1, <2>2, <2>3
<1>5. Append(links, u) \in Seq(X)
  OBVIOUS
<1>6. /\ t \in Seq(V) /\ Len(t) = n /\ DOMAIN t = 1 .. n
      /\ t[n] = last /\ \A i \in 1 .. n : i # n => t[i] = es[i]
  <2>1. es \in Seq(V) /\ last \in V
    <3>1. ToSet(es) \subseteq V /\ last \in V
      OBVIOUS
    <3> HIDE DEF V, last
    <3> QED
      BY <1>1, <3>1
  <2> HIDE DEF V, last, t
  <2> QED
    BY <1>2, <1>4, <2>1, PlaceUpdated
<1> HIDE DEF t, V
<1>13. t[n].kind = "segment" /\ t[n].links = Append(links, u)
  BY <1>0, <1>6
<1>14. es[n].kind = "segment" /\ es[n].links = links
  BY <1>3
<1>7. IsElement(X, last)
  BY <1>5 DEF IsElement
<1>8. IsSeq(t)
  BY <1>6, IsSeqOver
<1>9. AreElements(X, t)
  BY <1>1, <1>6, <1>7, <1>8 DEF AreElements
<1>10. \A i \in 1 .. n : t[i].kind = es[i].kind /\ SampledBy(t[i]) = SampledBy(es[i])
  <2> SUFFICES ASSUME NEW i \in 1 .. n
               PROVE  t[i].kind = es[i].kind /\ SampledBy(t[i]) = SampledBy(es[i])
    OBVIOUS
  <2>1. CASE i = n
    <3>1. t[i].kind = "segment" /\ es[i].kind = "segment"
      BY <1>13, <1>14, <2>1
    <3> QED
      BY <3>1 DEF SampledBy
  <2>2. CASE i # n
    BY <1>6, <2>2
  <2> QED
    BY <2>1, <2>2
<1>11. Sampling(t) = Sampling(es)
  <2>1. Periods(t) = Periods(es)
    BY <1>1, <1>6, <1>10 DEF Periods
  <2> QED
    BY <1>9, <2>1, ListsOfElements
<1>12. Links(t) = Append(Links(es), u)
  <2> DEFINE a == LinkLists(es)
             b == LinkLists(t)
             W == Seq(X)
  <2>1. /\ a \in Seq(W) /\ Len(a) = n /\ b \in Seq(W) /\ Len(b) = n
        /\ \A i \in 1 .. n : a[i] = LinksOf(es[i]) /\ b[i] = LinksOf(t[i])
    BY <1>6, <1>9, ListsOfElements
  <2>2. b[n] = Append(a[n], u) /\ a[n] = links
    <3>1. LinksOf(es[n]) = links
      BY <1>14 DEF LinksOf
    <3>2. LinksOf(t[n]) = Append(links, u)
      BY <1>13 DEF LinksOf
    <3> QED
      BY <1>2, <2>1, <3>1, <3>2
  <2>3. \A i \in 1 .. n : i # n => b[i] = a[i]
    BY <1>6, <2>1
  <2> HIDE DEF a, b, W, t, last
  <2>4. b = [a EXCEPT ![n] = Append(a[n], u)]
    <3> DEFINE v == Append(a[n], u)
    <3>1. /\ a \in Seq(W) /\ b \in Seq(W) /\ Len(b) = Len(a) /\ n \in 1 .. Len(a)
          /\ b[n] = v /\ v \in W
          /\ \A i \in 1 .. Len(a) : i # n => b[i] = a[i]
      <4>1. /\ a \in Seq(W) /\ Len(a) = n /\ b \in Seq(W) /\ Len(b) = n /\ n \in 1 .. n
            /\ b[n] = v /\ \A i \in 1 .. n : i # n => b[i] = a[i]
        BY <1>2, <2>1, <2>2, <2>3
      <4> HIDE DEF v, n
      <4>2. b[n] \in W
        BY ONLY <4>1
      <4> QED
        BY ONLY <4>1, <4>2
    <3> HIDE DEF v, n
    <3>2. b = [a EXCEPT ![n] = v]
      BY ONLY <3>1, IsUpdated
    <3> QED
      BY <3>2 DEF v
  <2>5. FlattenSeq([a EXCEPT ![n] = Append(a[n], u)]) = Append(FlattenSeq(a), u)
    BY <1>2, <2>1, FlattenExtended DEF W
  <2> QED
    BY <1>9, <2>1, <2>4, <2>5, ListsOfElements DEF a, b
<1> QED
  BY <1>6, <1>9, <1>10, <1>11, <1>12 DEF t

\* A vertex as the splitting sees it, in the view v: IsLink, the sampling term and
\* the criticality.
LinkIn(v, u) ==
  IsPath(Node(v, u[1]), u[2]) /\ EffectiveTrigger(Path(Node(v, u[1]), u[2])) # Unclassified
PeriodIn(v, u) == SamplingCost(Node(v, u[1]), u[2])
RankIn(v, u) == CriticalityOf(Node(v, u[1]))

IsSplittable(v, vs) ==
  /\ IsSeq(vs)
  /\ \A u \in ToSet(vs) :
       /\ PeriodIn(v, u) \in Nat /\ RankIn(v, u) \in 0 .. NoCriticality
       /\ ~ LinkIn(v, u) => PeriodIn(v, u) = 0

Linked(v, vs, k) == {i \in 1 .. k : LinkIn(v, vs[i])}
SampledUpTo(v, vs, k) == Total([i \in 1 .. k |-> PeriodIn(v, vs[i])])
Ranks(v, us) == {RankIn(v, u) : u \in us}

\* The first k vertices of the route vs are split into the elements es, and least is
\* the criticality so far.
IsSplit(v, vs, k, es, least) ==
  /\ AreElements(ToSet(vs), es)
  /\ es = <<>> => Linked(v, vs, k) = {}
  /\ Links(es) = Kept(vs, Linked(v, vs, k))
  /\ \A i \in 1 .. Len(es) - 1 : {es[i].kind, es[i + 1].kind} # {"segment"}
  /\ Sampling(es) = SampledUpTo(v, vs, k)
  /\ least = Min({2} \cup Ranks(v, ToSet(Links(es))))

LEMMA NothingSplit ==
  ASSUME NEW v, NEW vs, IsSplittable(v, vs)
  PROVE  IsSplit(v, vs, 0, <<>>, 2)
<1> DEFINE X == ToSet(vs)
<1>1. AreElements(X, <<>>)
  <2>1. <<>> \in Seq({}) /\ DOMAIN <<>> = {}
    OBVIOUS
  <2> QED
    BY <2>1, IsSeqOver DEF AreElements
<1>2. Linked(v, vs, 0) = {}
  BY DEF Linked
<1>3. /\ LinkLists(<<>>) \in Seq(Seq(X)) /\ Len(LinkLists(<<>>)) = 0
      /\ Periods(<<>>) \in Seq(Nat) /\ Len(Periods(<<>>)) = 0
      /\ Links(<<>>) = FlattenSeq(LinkLists(<<>>)) /\ Sampling(<<>>) = Total(Periods(<<>>))
  <2>1. Len(<<>>) = 0
    OBVIOUS
  <2> QED
    BY <1>1, <2>1, ListsOfElements
<1>4. Links(<<>>) = <<>>
  <2> DEFINE V == Seq(X)
  <2> HIDE DEF V
  <2>1. LinkLists(<<>>) = <<>>
    BY <1>3 DEF V
  <2>2. FlattenSeq(<<>>) = <<>>
    BY DEF FlattenSeq
  <2> QED
    BY <1>3, <2>1, <2>2
<1>5. Kept(vs, {}) = <<>>
  <2>1. Cardinality({}) = 0
    BY FS_EmptySet
  <2>2. 1 .. Cardinality({}) = {}
    BY <2>1
  <2> QED
    BY <2>2 DEF Kept, Arranged
<1>6. Sampling(<<>>) = SampledUpTo(v, vs, 0)
  <2>1. [i \in 1 .. 0 |-> PeriodIn(v, vs[i])] = <<>>
    OBVIOUS
  <2>2. Periods(<<>>) = <<>>
    BY <1>3
  <2> QED
    BY <1>3, <2>1, <2>2 DEF SampledUpTo
<1>7. Min({2} \cup Ranks(v, ToSet(<<>>))) = 2
  <2>1. Ranks(v, ToSet(<<>>)) = {}
    BY DEF Ranks, ToSet
  <2>2. {2} \cup Ranks(v, ToSet(<<>>)) = {2}
    BY <2>1
  <2>5. IsFiniteSet({2})
    BY FS_Singleton
  <2>3. {2} \subseteq Int /\ IsFiniteSet({2}) /\ {2} # {}
    BY <2>5
  <2>4. Min({2}) \in {2}
    BY <2>3, MinFacts
  <2> QED
    BY <2>2, <2>4
<1>8. \A i \in 1 .. Len(<<>>) - 1 : FALSE
  OBVIOUS
<1> QED
  BY <1>1, <1>2, <1>4, <1>5, <1>6, <1>7, <1>8 DEF IsSplit

\* What one more vertex adds to the sum of the periods.
LEMMA SampledUpToNext ==
  ASSUME NEW v, NEW vs, IsSplittable(v, vs), NEW k \in Nat, k < Len(vs)
  PROVE  SampledUpTo(v, vs, k + 1) = SampledUpTo(v, vs, k) + PeriodIn(v, vs[k + 1])
<1>1. Len(vs) \in Nat /\ DOMAIN vs = 1 .. Len(vs)
  BY SeqFacts DEF IsSplittable
<1>2. \A i \in 1 .. Len(vs) : PeriodIn(v, vs[i]) \in Nat
  BY <1>1, SeqFacts DEF IsSplittable
<1> DEFINE p(i) == PeriodIn(v, vs[i])
           s == [i \in 1 .. k |-> p(i)]
           t == [i \in 1 .. k + 1 |-> p(i)]
<1>3. \A i \in 1 .. k + 1 : p(i) \in Nat
  BY <1>1, <1>2
<1> HIDE DEF p
<1>4. /\ s \in Seq(Nat) /\ Len(s) = k
      /\ t \in Seq(Nat) /\ Len(t) = k + 1
      /\ t[k + 1] = p(k + 1) /\ \A i \in 1 .. k : t[i] = s[i]
  BY <1>3
<1> HIDE DEF s, t
<1>5. Total(t) = Total(s) + t[k + 1]
  BY <1>4, TotalAppended
<1> QED
  BY <1>4, <1>5 DEF s, t, p, SampledUpTo

LEMMA VertexAt ==
  ASSUME NEW v, NEW vs, IsSplittable(v, vs), NEW k \in Nat, k < Len(vs)
  PROVE  /\ vs[k + 1] \in ToSet(vs) /\ Len(vs) \in Nat
         /\ PeriodIn(v, vs[k + 1]) \in Nat /\ RankIn(v, vs[k + 1]) \in 0 .. NoCriticality
         /\ ~ LinkIn(v, vs[k + 1]) => PeriodIn(v, vs[k + 1]) = 0
         /\ SampledUpTo(v, vs, k) \in Nat
<1>1. Len(vs) \in Nat /\ DOMAIN vs = 1 .. Len(vs)
  BY SeqFacts DEF IsSplittable
<1>2. k + 1 \in 1 .. Len(vs)
  BY <1>1
<1>3. vs[k + 1] \in ToSet(vs)
  BY <1>1, <1>2, SeqFacts DEF IsSplittable
<1>4. SampledUpTo(v, vs, k) \in Nat
  <2> DEFINE p(i) == PeriodIn(v, vs[i])
             s == [i \in 1 .. k |-> p(i)]
             t == [i \in 1 .. k + 1 |-> p(i)]
  <2>1. \A i \in 1 .. k + 1 : p(i) \in Nat
    BY <1>1, <1>2, SeqFacts DEF IsSplittable
  <2> HIDE DEF p
  <2>2. /\ s \in Seq(Nat) /\ Len(s) = k
        /\ t \in Seq(Nat) /\ Len(t) = k + 1 /\ \A i \in 1 .. k : t[i] = s[i]
    BY <2>1
  <2> HIDE DEF s, t
  <2>3. Total(s) \in Nat
    BY <2>2, TotalAppended
  <2> QED
    BY <2>3 DEF s, p, SampledUpTo
<1> QED
  BY <1>1, <1>3, <1>4 DEF IsSplittable

LEMMA VertexPassed ==
  ASSUME NEW v, NEW vs, IsSplittable(v, vs), NEW k \in Nat, k < Len(vs),
         NEW es, NEW least, IsSplit(v, vs, k, es, least), ~ LinkIn(v, vs[k + 1])
  PROVE  IsSplit(v, vs, k + 1, es, least)
<1>1. Linked(v, vs, k + 1) = Linked(v, vs, k)
  <2>1. \A i : i \in 1 .. k + 1 <=> i \in 1 .. k \/ i = k + 1
    OBVIOUS
  <2> QED
    BY <2>1 DEF Linked
<1>2. SampledUpTo(v, vs, k + 1) = SampledUpTo(v, vs, k)
  BY SampledUpToNext, VertexAt
<1> QED
  BY <1>1, <1>2 DEF IsSplit

LEMMA LinkSplitOff ==
  ASSUME NEW v, NEW vs, IsSplittable(v, vs), NEW k \in Nat, k < Len(vs),
         NEW es, NEW least, IsSplit(v, vs, k, es, least), LinkIn(v, vs[k + 1]),
         NEW t, AreElements(ToSet(vs), t), t # <<>>,
         Links(t) = Append(Links(es), vs[k + 1]),
         Sampling(t) = Sampling(es) + PeriodIn(v, vs[k + 1]),
         \A i \in 1 .. Len(t) - 1 : {t[i].kind, t[i + 1].kind} # {"segment"}
  PROVE  IsSplit(v, vs, k + 1, t, Min({least, RankIn(v, vs[k + 1])}))
<1> DEFINE u == vs[k + 1]
           us == ToSet(Links(es))
           T == {2} \cup Ranks(v, us)
<1>1. Linked(v, vs, k + 1) = Linked(v, vs, k) \cup {k + 1}
  <2>1. \A i : i \in 1 .. k + 1 <=> i \in 1 .. k \/ i = k + 1
    OBVIOUS
  <2> QED
    BY <2>1 DEF Linked
<1>2. Links(t) = Kept(vs, Linked(v, vs, k + 1))
  <2>1. Linked(v, vs, k) \in SUBSET (1 .. k)
    BY DEF Linked
  <2>2. Kept(vs, Linked(v, vs, k) \cup {k + 1}) = Append(Kept(vs, Linked(v, vs, k)), u)
    BY <2>1, KeptGrows
  <2> QED
    BY <1>1, <2>2 DEF IsSplit
<1>3. Sampling(t) = SampledUpTo(v, vs, k + 1)
  BY SampledUpToNext DEF IsSplit
<1>4. Links(es) \in Seq(ToSet(vs))
  BY LinksAreVertices DEF IsSplit
<1>5. ToSet(Links(t)) = us \cup {u} /\ IsFiniteSet(us) /\ us \subseteq ToSet(vs)
  <2>1. IsSeq(Links(es))
    BY <1>4, IsSeqOver
  <2>2. us \subseteq ToSet(vs)
    BY <1>4 DEF ToSet
  <2> QED
    BY <2>1, <2>2, AppendedFacts, SeqFacts
<1> HIDE DEF us
<1>6. T \subseteq Int /\ IsFiniteSet(T) /\ T # {} /\ RankIn(v, u) \in Int
  <2>1. IsFiniteSet(Ranks(v, us))
    <3>1. [x \in us |-> RankIn(v, x)] \in Surjection(us, Ranks(v, us))
      BY DEF Surjection, Ranks
    <3> QED
      BY <1>5, <3>1, FS_Surjection
  <2>2. IsFiniteSet({2} \cup Ranks(v, us))
    BY <2>1, FS_Singleton, FS_Union
  <2>3. Ranks(v, us) \subseteq Int
    BY <1>5 DEF Ranks, IsSplittable, NoCriticality
  <2>4. RankIn(v, u) \in Int
    BY VertexAt DEF NoCriticality
  <2> QED
    BY <2>2, <2>3, <2>4
<1>7. {2} \cup Ranks(v, ToSet(Links(t))) = T \cup {RankIn(v, u)}
  BY <1>5 DEF Ranks
<1>8. Min(T \cup {RankIn(v, u)}) = Min({least, RankIn(v, u)})
  <2>1. Min(T \cup {RankIn(v, u)}) = Min({Min(T), RankIn(v, u)})
    <3> HIDE DEF T, u
    <3> QED
      BY <1>6, MinGrows
  <2> QED
    BY <2>1 DEF IsSplit, us
<1> QED
  BY <1>2, <1>3, <1>7, <1>8 DEF IsSplit

LEMMA InnerPlaces ==
  ASSUME NEW m \in Nat, NEW i \in 1 .. (m + 1) - 1
  PROVE  i \in 1 .. m /\ (i # m => i \in 1 .. m - 1 /\ i + 1 \in 1 .. m)
OBVIOUS

\* An element of its own: a boundary, or a segment that follows a boundary.
LEMMA ElementSplitOff ==
  ASSUME NEW v, NEW vs, IsSplittable(v, vs), NEW k \in Nat, k < Len(vs),
         NEW es, NEW least, IsSplit(v, vs, k, es, least), LinkIn(v, vs[k + 1]),
         NEW e, IsElement(ToSet(vs), e), LinksOf(e) = <<vs[k + 1]>>,
         SampledBy(e) = PeriodIn(v, vs[k + 1]),
         e.kind = "boundary" \/ es = <<>> \/ Last(es).kind # "segment"
  PROVE  IsSplit(v, vs, k + 1, Append(es, e), Min({least, RankIn(v, vs[k + 1])}))
<1> DEFINE X == ToSet(vs)
           t == Append(es, e)
           u == vs[k + 1]
           n == Len(es)
<1>1. AreElements(X, es) /\ Links(es) \in Seq(X) /\ u \in X
  BY LinksAreVertices, VertexAt DEF IsSplit
<1>2. /\ IsSeq(t) /\ n \in Nat /\ Len(t) = n + 1 /\ t # <<>>
      /\ \A i \in 1 .. n : t[i] = es[i]
      /\ t[n + 1] = e /\ DOMAIN es = 1 .. n
  BY <1>1, AppendedFacts DEF AreElements
<1>3. AreElements(X, t) /\ Links(t) = Links(es) \o <<u>> /\ Sampling(t) = Sampling(es) + SampledBy(e)
  <2>1. IsElement(X, e)
    OBVIOUS
  <2>2. /\ AreElements(X, t) /\ Links(t) = Links(es) \o LinksOf(e)
        /\ Sampling(t) = Sampling(es) + SampledBy(e)
    <3> HIDE DEF X
    <3> QED
      BY ONLY <1>1, <2>1, ElementAppended
  <2> QED
    BY <2>2
<1>4. Links(t) = Append(Links(es), u)
  <2>1. \A q \in Seq(X) : q \o <<u>> = Append(q, u)
    <3> HIDE DEF X, u
    <3> QED
      BY <1>1
  <2> QED
    BY <1>1, <1>3, <2>1
<1> HIDE DEF t
<1>5. ASSUME NEW i \in 1 .. Len(t) - 1
      PROVE  {t[i].kind, t[i + 1].kind} # {"segment"}
  <2>1. i \in 1 .. n /\ (i # n => i \in 1 .. n - 1 /\ i + 1 \in 1 .. n)
    <3>1. n \in Nat /\ i \in 1 .. (n + 1) - 1
      BY <1>2
    <3> HIDE DEF n
    <3> QED
      BY ONLY <3>1, InnerPlaces
  <2>2. CASE i = n
    <3>1. t[i] = es[n] /\ t[i + 1] = e /\ es # <<>>
      BY <1>2, <2>1, <2>2
    <3>2. es[n] = Last(es)
      BY DEF Last
    <3> QED
      BY <3>1, <3>2
  <2>3. CASE i # n
    <3>1. t[i] = es[i] /\ t[i + 1] = es[i + 1]
      BY <1>2, <2>1, <2>3
    <3> QED
      BY <2>1, <2>3, <3>1 DEF IsSplit
  <2> QED
    BY <2>2, <2>3
<1>6. IsSplit(v, vs, k + 1, t, Min({least, RankIn(v, u)}))
  BY <1>2, <1>3, <1>4, <1>5, LinkSplitOff
<1> QED
  BY <1>6 DEF t

LEMMA BoundaryPushed ==
  ASSUME NEW v, NEW vs, IsSplittable(v, vs), NEW k \in Nat, k < Len(vs),
         NEW es, NEW least, IsSplit(v, vs, k, es, least), LinkIn(v, vs[k + 1]), NEW x
  PROVE  LET e == [kind |-> "boundary", link |-> vs[k + 1], period |-> PeriodIn(v, vs[k + 1]),
                   exec |-> x]
         IN  IsSplit(v, vs, k + 1, Append(es, e), Min({least, RankIn(v, vs[k + 1])}))
<1> DEFINE u == vs[k + 1]
           e == [kind |-> "boundary", link |-> u, period |-> PeriodIn(v, u), exec |-> x]
<1>1. u \in ToSet(vs) /\ PeriodIn(v, u) \in Nat
  BY VertexAt
<1>2. e.kind = "boundary" /\ e.link = u /\ e.period = PeriodIn(v, u)
  OBVIOUS
<1> HIDE DEF e
<1>3. IsElement(ToSet(vs), e) /\ LinksOf(e) = <<u>> /\ SampledBy(e) = PeriodIn(v, u)
  BY <1>1, <1>2 DEF IsElement, LinksOf, SampledBy
<1>4. IsSplit(v, vs, k + 1, Append(es, e), Min({least, RankIn(v, u)}))
  BY <1>2, <1>3, ElementSplitOff
<1> QED
  BY <1>4 DEF e

LEMMA SegmentPushed ==
  ASSUME NEW v, NEW vs, IsSplittable(v, vs), NEW k \in Nat, k < Len(vs),
         NEW es, NEW least, IsSplit(v, vs, k, es, least), LinkIn(v, vs[k + 1]),
         PeriodIn(v, vs[k + 1]) = 0, es = <<>> \/ Last(es).kind # "segment"
  PROVE  LET e == [kind |-> "segment", links |-> <<vs[k + 1]>>]
         IN  IsSplit(v, vs, k + 1, Append(es, e), Min({least, RankIn(v, vs[k + 1])}))
<1> DEFINE u == vs[k + 1]
           e == [kind |-> "segment", links |-> <<u>>]
<1>1. <<u>> \in Seq(ToSet(vs))
  BY VertexAt
<1>2. e.kind = "segment" /\ e.links = <<u>>
  OBVIOUS
<1>3. IsElement(ToSet(vs), e)
  BY <1>1 DEF IsElement
<1> HIDE DEF e
<1>4. LinksOf(e) = <<u>> /\ SampledBy(e) = PeriodIn(v, u)
  BY <1>2 DEF LinksOf, SampledBy
<1>5. IsSplit(v, vs, k + 1, Append(es, e), Min({least, RankIn(v, u)}))
  BY <1>3, <1>4, ElementSplitOff
<1> QED
  BY <1>5 DEF e

LEMMA SegmentGoesOn ==
  ASSUME NEW v, NEW vs, IsSplittable(v, vs), NEW k \in Nat, k < Len(vs),
         NEW es, NEW least, IsSplit(v, vs, k, es, least), LinkIn(v, vs[k + 1]),
         PeriodIn(v, vs[k + 1]) = 0, es # <<>>, Last(es).kind = "segment"
  PROVE  LET t == [es EXCEPT ![Len(es)].links = Append(@, vs[k + 1])]
         IN  IsSplit(v, vs, k + 1, t, Min({least, RankIn(v, vs[k + 1])}))
<1> DEFINE u == vs[k + 1]
           X == ToSet(vs)
           t == [es EXCEPT ![Len(es)].links = Append(@, u)]
<1>1. AreElements(X, es) /\ u \in X /\ Len(es) \in Nat
  BY VertexAt, SeqFacts DEF IsSplit, AreElements
<1>2. /\ AreElements(X, t) /\ Len(t) = Len(es)
      /\ \A i \in 1 .. Len(es) : t[i].kind = es[i].kind
      /\ Links(t) = Append(Links(es), u)
      /\ Sampling(t) = Sampling(es)
  BY <1>1, SegmentExtended
<1> HIDE DEF t
<1>3. t # <<>>
  <2>1. Len(es) # 0
    BY <1>1, SeqFacts DEF AreElements, IsSeq
  <2>2. Len(<<>>) = 0
    OBVIOUS
  <2> QED
    BY <1>2, <2>1, <2>2
<1>4. \A i \in 1 .. Len(t) - 1 : {t[i].kind, t[i + 1].kind} # {"segment"}
  <2>1. \A i \in 1 .. Len(t) - 1 : i \in 1 .. Len(es) /\ i + 1 \in 1 .. Len(es)
    BY <1>1, <1>2
  <2> QED
    BY <1>2, <2>1 DEF IsSplit
<1>5. Sampling(t) = Sampling(es) + PeriodIn(v, u)
  <2>1. Sampling(es) \in Nat
    BY VertexAt DEF IsSplit
  <2> QED
    BY <1>2, <2>1
<1>6. IsSplit(v, vs, k + 1, t, Min({least, RankIn(v, u)}))
  BY <1>2, <1>3, <1>4, <1>5, LinkSplitOff
<1> QED
  BY <1>6 DEF t

-----------------------------------------------------------------------------
(***************************************************************************)
(* The report of the first n scope paths: in their order, each is resolved *)
(* or skipped, once.                                                       *)
(***************************************************************************)
ResolvedAs(res, i) == {k \in DOMAIN res : res[k] = i}
SkippedAs(skp, i) == {k \in DOMAIN skp : skp[k].path = i}

IsReport(n, res, skp) ==
  /\ n \in Nat /\ IsSeq(res) /\ IsSeq(skp)
  /\ Len(res) + Len(skp) = n
  /\ \A k \in 1 .. Len(res) : res[k] \in 1 .. n
  /\ \A k \in 1 .. Len(skp) : skp[k].path \in 1 .. n
  /\ \A k \in 1 .. Len(res) - 1 : res[k] < res[k + 1]
  /\ \A i \in 1 .. n :
       Cardinality(ResolvedAs(res, i)) + Cardinality(SkippedAs(skp, i)) = 1

LEMMA ReportResolves ==
  ASSUME NEW n, NEW res, NEW skp, IsReport(n, res, skp)
  PROVE  IsReport(n + 1, Append(res, n + 1), skp)
<1> DEFINE a == Append(res, n + 1)
           m == Len(res)
<1>1. n \in Nat /\ IsSeq(res) /\ IsSeq(skp) /\ Len(skp) \in Nat /\ DOMAIN skp = 1 .. Len(skp)
  BY SeqFacts DEF IsReport
<1>2. /\ IsSeq(a) /\ m \in Nat /\ Len(a) = m + 1
      /\ DOMAIN res = 1 .. m /\ DOMAIN a = 1 .. m + 1
      /\ \A i \in 1 .. m : a[i] = res[i]
      /\ a[m + 1] = n + 1
  BY <1>1, AppendedFacts
<1> HIDE DEF a
<1>3. \A i : i \in 1 .. m + 1 <=> i \in 1 .. m \/ i = m + 1
  BY <1>2
<1>4. /\ \A k \in 1 .. m : res[k] \in 1 .. n
      /\ \A k \in 1 .. Len(skp) : skp[k].path \in 1 .. n
      /\ m + Len(skp) = n
  BY DEF IsReport
<1>5. \A i : i \in 1 .. n + 1 <=> i \in 1 .. n \/ i = n + 1
  BY <1>1
<1>6. n + 1 \notin 1 .. n
  BY <1>1
<1>7. \A k \in 1 .. m + 1 : a[k] \in 1 .. n + 1
  BY <1>2, <1>3, <1>4, <1>5
<1>8. \A k \in 1 .. Len(skp) : skp[k].path \in 1 .. n + 1
  BY <1>4, <1>5
<1>9. ASSUME NEW k \in 1 .. Len(a) - 1
      PROVE  a[k] < a[k + 1]
  <2>1. k \in 1 .. m /\ (k # m => k \in 1 .. m - 1 /\ k + 1 \in 1 .. m)
    <3>1. m \in Nat /\ k \in 1 .. (m + 1) - 1
      BY <1>2
    <3> HIDE DEF m
    <3> QED
      BY ONLY <3>1, InnerPlaces
  <2>2. CASE k = m
    <3>1. a[k] = res[k] /\ a[k + 1] = n + 1 /\ res[k] \in 1 .. n
      BY <1>2, <1>4, <2>1, <2>2
    <3> QED
      BY <1>1, <3>1
  <2>3. CASE k # m
    <3>1. a[k] = res[k] /\ a[k + 1] = res[k + 1]
      BY <1>2, <2>1, <2>3
    <3> QED
      BY <2>1, <2>3, <3>1 DEF IsReport
  <2> QED
    BY <2>2, <2>3
<1>10. ASSUME NEW i \in 1 .. n + 1
       PROVE  Cardinality(ResolvedAs(a, i)) + Cardinality(SkippedAs(skp, i)) = 1
  <2>1. CASE i = n + 1
    <3>1. ResolvedAs(a, i) = {m + 1}
      <4>1. \A k \in 1 .. m : a[k] # n + 1
        BY <1>2, <1>4, <1>6
      <4> QED
        BY <1>2, <1>3, <2>1, <4>1 DEF ResolvedAs
    <3>2. SkippedAs(skp, i) = {}
      BY <1>1, <1>4, <1>6, <2>1 DEF SkippedAs
    <3>3. Cardinality({m + 1}) = 1 /\ Cardinality({}) = 0
      BY FS_Singleton, FS_EmptySet
    <3> QED
      BY <3>1, <3>2, <3>3
  <2>2. CASE i # n + 1
    <3>1. i \in 1 .. n
      BY <1>5, <2>2
    <3>2. ResolvedAs(a, i) = ResolvedAs(res, i)
      BY <1>2, <1>3, <2>2 DEF ResolvedAs
    <3> QED
      BY <3>1, <3>2 DEF IsReport
  <2> QED
    BY <2>1, <2>2
<1>11. n + 1 \in Nat /\ Len(a) + Len(skp) = n + 1
  BY <1>1, <1>2, <1>4
<1>12. IsReport(n + 1, a, skp)
  BY <1>1, <1>2, <1>7, <1>8, <1>9, <1>10, <1>11 DEF IsReport
<1> QED
  BY <1>12 DEF a

LEMMA ReportSkips ==
  ASSUME NEW n, NEW res, NEW skp, IsReport(n, res, skp), NEW reason
  PROVE  IsReport(n + 1, res, Append(skp, [path |-> n + 1, reason |-> reason]))
<1> DEFINE e == [path |-> n + 1, reason |-> reason]
           a == Append(skp, e)
           m == Len(skp)
<1>1. n \in Nat /\ IsSeq(res) /\ IsSeq(skp) /\ Len(res) \in Nat /\ DOMAIN res = 1 .. Len(res)
  BY SeqFacts DEF IsReport
<1>0. e.path = n + 1
  OBVIOUS
<1> HIDE DEF e
<1>2. /\ IsSeq(a) /\ m \in Nat /\ Len(a) = m + 1
      /\ DOMAIN skp = 1 .. m /\ DOMAIN a = 1 .. m + 1
      /\ \A i \in 1 .. m : a[i] = skp[i]
      /\ a[m + 1] = e
  BY <1>1, AppendedFacts
<1> HIDE DEF a
<1>3. \A i : i \in 1 .. m + 1 <=> i \in 1 .. m \/ i = m + 1
  BY <1>2
<1>4. /\ \A k \in 1 .. m : skp[k].path \in 1 .. n
      /\ \A k \in 1 .. Len(res) : res[k] \in 1 .. n
      /\ m + Len(res) = n
  BY <1>1, <1>2 DEF IsReport
<1>5. \A i : i \in 1 .. n + 1 <=> i \in 1 .. n \/ i = n + 1
  BY <1>1
<1>6. n + 1 \notin 1 .. n
  BY <1>1
<1>7. \A k \in 1 .. m + 1 : a[k].path \in 1 .. n + 1
  BY <1>0, <1>2, <1>3, <1>4, <1>5
<1>8. \A k \in 1 .. Len(res) : res[k] \in 1 .. n + 1
  BY <1>4, <1>5
<1>10. ASSUME NEW i \in 1 .. n + 1
       PROVE  Cardinality(ResolvedAs(res, i)) + Cardinality(SkippedAs(a, i)) = 1
  <2>1. CASE i = n + 1
    <3>1. SkippedAs(a, i) = {m + 1}
      <4>1. \A k \in 1 .. m : a[k].path # n + 1
        BY <1>2, <1>4, <1>6
      <4> QED
        BY <1>0, <1>2, <1>3, <2>1, <4>1 DEF SkippedAs
    <3>2. ResolvedAs(res, i) = {}
      BY <1>1, <1>4, <1>6, <2>1 DEF ResolvedAs
    <3>3. Cardinality({m + 1}) = 1 /\ Cardinality({}) = 0
      BY FS_Singleton, FS_EmptySet
    <3> QED
      BY <3>1, <3>2, <3>3
  <2>2. CASE i # n + 1
    <3>1. i \in 1 .. n
      BY <1>5, <2>2
    <3>2. SkippedAs(a, i) = SkippedAs(skp, i)
      BY <1>0, <1>2, <1>3, <2>2 DEF SkippedAs
    <3> QED
      BY <3>1, <3>2 DEF IsReport
  <2> QED
    BY <2>1, <2>2
<1>11. n + 1 \in Nat /\ Len(res) + Len(a) = n + 1
  <2> DEFINE l == Len(res)
             la == Len(a)
  <2>1. n \in Nat /\ m \in Nat /\ l \in Nat /\ la = m + 1 /\ m + l = n
    BY <1>1, <1>2, <1>4
  <2> HIDE DEF l, la, m
  <2>2. n + 1 \in Nat /\ l + la = n + 1
    BY ONLY <2>1
  <2> QED
    BY <2>2 DEF l, la
<1>12. IsReport(n + 1, res, a)
  BY <1>1, <1>2, <1>7, <1>8, <1>10, <1>11 DEF IsReport
<1> QED
  BY <1>12 DEF a, e

LEMMA NothingReported == IsReport(0, <<>>, <<>>)
<1>1. <<>> \in Seq({}) /\ Len(<<>>) = 0
  OBVIOUS
<1>2. IsSeq(<<>>)
  BY <1>1, IsSeqOver
<1> QED
  BY <1>1, <1>2 DEF IsReport

\* The last path resolved is one of the first n, and the next one is not.
LEMMA LastIsReported ==
  ASSUME NEW n, NEW res, NEW skp, IsReport(n, res, skp), res # <<>>
  PROVE  Last(res) \in 1 .. n /\ Last(res) # n + 1
<1>1. Len(res) \in Nat /\ DOMAIN res = 1 .. Len(res) /\ Len(res) # 0 /\ n \in Nat
  BY SeqFacts DEF IsReport, IsSeq
<1>2. Len(res) \in 1 .. Len(res)
  BY <1>1
<1>3. Last(res) \in 1 .. n
  BY <1>2 DEF IsReport, Last
<1> QED
  BY <1>1, <1>3

-----------------------------------------------------------------------------
(***************************************************************************)
(* The invariant of the derivation, part by part.  The nodes described so  *)
(* far claim what their declarations say.                                  *)
(***************************************************************************)
NodesInv ==
  /\ IsSeq(nodes) /\ Len(nodes) <= Len(view.nodes)
  /\ \A i \in DOMAIN nodes : nodes[i].claims = ClaimsConcurrency(view.nodes[i])

\* The scope path of this turn is not in the report as long as it is worked on.
TurnsOver == IF phase \in {"route", "split"} THEN turn - 1 ELSE turn

ReportInv == IsSeq(chains) /\ IsReport(TurnsOver, resolved, skipped)

\* A turn has a route of its own, for its scope path, and what is known of a route
\* (Inv) holds of it.
RouteInv == phase \in {"route", "split"} => sp = view.scope_paths[turn] /\ Inv

SplitInv ==
  phase = "split" =>
    /\ answer.kind = "route" /\ place \in 0 .. Len(answer.vertices)
    /\ IsSplit(view, answer.vertices, place, elements, urgency)

\* How the turn before ended: with a chain that is its whole route, or without one.
WasResolved == resolved # <<>> /\ Last(resolved) = turn

IsWholeRoute(chain) ==
  /\ IsSplit(view, answer.vertices, Len(answer.vertices), chain.elements, chain.criticality)
  /\ answer.sampling = SampledUpTo(view, answer.vertices, Len(answer.vertices))

IsReason(reason) ==
  \/ reason = Outcome(Wires)
  \/ /\ reason = "NoPathOnRoute" /\ Outcome(Wires) = "route"
     /\ \A u \in ToSet(answer.vertices) : ~ IsLink(u)

OutcomeInv ==
  phase = "next" /\ turn > 0 =>
    /\ WasResolved => Outcome(Wires) = "route" /\ IsWholeRoute(Last(chains))
    /\ ~ WasResolved /\ view.scope_paths[turn].budget # NoBudget => IsReason(Last(skipped).reason)

DerivationInv ==
  /\ phase \in {"nodes", "next", "route", "split", "done"}
  /\ IsDerivable(view)
  /\ turn \in 0 .. Len(view.scope_paths)
  /\ phase = "nodes" => turn = 0
  /\ NodesInv /\ ReportInv /\ RouteInv /\ SplitInv /\ OutcomeInv

-----------------------------------------------------------------------------
LEMMA SplittableRoute ==
  ASSUME Inv, IsDerivable(view), answer.kind = "route"
  PROVE  /\ IsSplittable(view, answer.vertices)
         /\ answer.sampling = SampledUpTo(view, answer.vertices, Len(answer.vertices))
         /\ Outcome(Wires) = "route"
<1> DEFINE vs == answer.vertices
<1>1. IsView(view) /\ AnswerInv
  BY DEF Inv
<1>2. answer.kind = Outcome(Wires)
  <2>1. answer # NoAnswer
    BY DEF NoAnswer
  <2> QED
    BY <1>1, <2>1 DEF AnswerInv, FailureIsJustified
<1>3. /\ vs \in Routes(Wires)
      /\ answer.sampling = Total([i \in DOMAIN vs |-> SamplingCost(Node(view, vs[i][1]), vs[i][2])])
  BY <1>1 DEF AnswerInv, RouteIsHonest
<1>4. vs \in Seq(RouteVertices(Wires)) /\ RouteVertices(Wires) \subseteq Candidates
  BY <1>1, <1>3, RouteMeans, WireEnds
<1>5. IsSeq(vs) /\ DOMAIN vs = 1 .. Len(vs) /\ ToSet(vs) \subseteq Candidates
  <2>1. ToSet(vs) \subseteq RouteVertices(Wires)
    BY <1>4 DEF ToSet
  <2>2. IsSeq(vs)
    BY <1>4, IsSeqOver
  <2> QED
    BY <1>4, <2>1, <2>2, SeqFacts
<1>6. answer.sampling = SampledUpTo(view, vs, Len(vs))
  BY <1>3, <1>5 DEF SampledUpTo, PeriodIn
<1>7. ASSUME NEW u \in ToSet(vs)
      PROVE  /\ PeriodIn(view, u) \in Nat /\ RankIn(view, u) \in 0 .. NoCriticality
             /\ ~ LinkIn(view, u) => PeriodIn(view, u) = 0
  <2>1. u \in Candidates
    BY <1>5
  <2>2. PICK m, p : u = <<m, p>> /\ LiesInside(m)
    BY <1>1, <2>1, CandidatesMean
  <2>3. Node(view, m) \in ToSet(view.nodes)
    BY <1>1, <2>2, NodeFacts DEF LiesInside
  <2>4. RankIn(view, u) \in 0 .. NoCriticality
    BY <2>2, <2>3 DEF IsDerivable, RankIn, CriticalityOf
  <2>5. ASSUME ~ LinkIn(view, u)
        PROVE  PeriodIn(view, u) = 0
    <3>1. CASE ~ IsPath(Node(view, u[1]), u[2])
      BY <3>1 DEF PeriodIn, SamplingCost
    <3>2. CASE EffectiveTrigger(Path(Node(view, u[1]), u[2])) = Unclassified
      <4>1. Unclassified.kind # "timer"
        BY DEF Unclassified
      <4> QED
        BY <3>2, <4>1 DEF PeriodIn, SamplingCost, PeriodOf
    <3> QED
      BY <2>5, <3>1, <3>2 DEF LinkIn
  <2> QED
    BY <1>1, <2>1, <2>4, <2>5, VertexCosts DEF SamplingOf, PeriodIn
<1> QED
  BY <1>2, <1>5, <1>6, <1>7 DEF IsSplittable

LEMMA LinksAreLinked ==
  /\ \A u : IsLink(u) <=> LinkIn(view, u)
  /\ \A k : LinksUpTo(k) = Linked(view, answer.vertices, k)
<1>1. \A u : IsLink(u) <=> LinkIn(view, u)
  BY DEF IsLink, LinkIn
<1> QED
  BY <1>1 DEF LinksUpTo, Linked

\* What does not change leaves a part of the invariant as it is.
LEMMA NodesStay ==
  ASSUME NodesInv, UNCHANGED <<view, nodes>>
  PROVE  NodesInv'
BY DEF NodesInv

LEMMA RouteRests ==
  ASSUME UNCHANGED <<view, routing>>
  PROVE  /\ UNCHANGED args /\ answer' = answer /\ sp' = sp
         /\ (Inv => Inv')
         /\ Outcome(Wires)' = Outcome(Wires)
         /\ \A u : IsLink(u)' = IsLink(u)
<1>1. UNCHANGED routeVars /\ UNCHANGED args /\ answer' = answer /\ sp' = sp /\ view' = view
  BY DEF routing, routeVars, args
<1>2. Inv => Inv'
  BY <1>1, StutterInv
<1>3. Outcome(Wires)' = Outcome(Wires)
  BY <1>1, SameWires
<1>4. \A u : IsLink(u)' = IsLink(u)
  BY <1>1 DEF IsLink
<1> QED
  BY <1>1, <1>2, <1>3, <1>4

-----------------------------------------------------------------------------
(***************************************************************************)
(* Every step keeps it.                                                    *)
(***************************************************************************)
LEMMA DerivationStarts == Init => DerivationInv
<1> SUFFICES ASSUME Init PROVE DerivationInv
  OBVIOUS
<1>1. /\ phase = "nodes" /\ nodes = <<>> /\ turn = 0
      /\ chains = <<>> /\ resolved = <<>> /\ skipped = <<>>
  BY DEF Init
<1>2. IsDerivable(view)
  BY ViewsAreWellFormed DEF Init
<1>3. Len(view.nodes) \in Nat /\ Len(view.scope_paths) \in Nat
  BY <1>2, SeqFacts DEF IsDerivable, IsView
<1>4. IsSeq(<<>>) /\ Len(<<>>) = 0 /\ DOMAIN <<>> = {}
  <2>1. <<>> \in Seq({})
    OBVIOUS
  <2>2. IsSeq(<<>>)
    BY <2>1, IsSeqOver
  <2> QED
    BY <2>2
<1>5. NodesInv
  BY <1>1, <1>3, <1>4 DEF NodesInv
<1>6. ReportInv
  BY <1>1, <1>4, NothingReported DEF ReportInv, TurnsOver
<1> QED
  BY <1>1, <1>2, <1>3, <1>5, <1>6 DEF DerivationInv, RouteInv, SplitInv, OutcomeInv

LEMMA DescribeNodeStep ==
  ASSUME DerivationInv, DescribeNode
  PROVE  DerivationInv'
<1> DEFINE node == view.nodes[Len(nodes) + 1]
<1>1. /\ phase = "nodes" /\ Len(nodes) < Len(view.nodes) /\ nodes' = Append(nodes, MapperNode(node))
      /\ UNCHANGED <<phase, view, turn, output>>
  BY DEF DescribeNode
<1>2. IsSeq(nodes) /\ IsSeq(view.nodes) /\ Len(view.nodes) \in Nat
  BY SeqFacts DEF DerivationInv, NodesInv, IsDerivable, IsView
<1> DEFINE n == Len(nodes)
           x == MapperNode(node)
<1>3. x.claims = ClaimsConcurrency(node)
  BY DEF MapperNode
<1> HIDE DEF x
<1>4. /\ IsSeq(nodes') /\ n \in Nat /\ Len(nodes') = n + 1
      /\ DOMAIN nodes = 1 .. n /\ DOMAIN nodes' = 1 .. n + 1
      /\ \A i \in 1 .. n : nodes'[i] = nodes[i]
      /\ nodes'[n + 1] = x
  BY <1>1, <1>2, AppendedFacts DEF x
<1>5. \A i \in 1 .. n + 1 : i \in 1 .. n \/ i = n + 1
  BY <1>4
<1>6. NodesInv'
  BY <1>1, <1>2, <1>3, <1>4, <1>5 DEF DerivationInv, NodesInv
<1>7. ReportInv'
  BY <1>1 DEF DerivationInv, ReportInv, TurnsOver, output
<1> QED
  BY <1>1, <1>6, <1>7 DEF DerivationInv, RouteInv, SplitInv, OutcomeInv

LEMMA EndNodesStep ==
  ASSUME DerivationInv, EndNodes
  PROVE  DerivationInv'
<1>1. /\ phase = "nodes" /\ phase' = "next"
      /\ UNCHANGED <<view, nodes, turn, chains, resolved, skipped>>
  BY DEF EndNodes, described, output
<1>2. NodesInv'
  BY <1>1, NodesStay DEF DerivationInv
<1>3. ReportInv'
  BY <1>1 DEF DerivationInv, ReportInv, TurnsOver
<1> QED
  BY <1>1, <1>2, <1>3 DEF DerivationInv, RouteInv, SplitInv, OutcomeInv

LEMMA SkipUnbudgetedStep ==
  ASSUME DerivationInv, SkipUnbudgeted
  PROVE  DerivationInv'
<1>1. /\ phase = "next" /\ phase' = "next" /\ turn' = turn + 1
      /\ turn < Len(view.scope_paths) /\ view.scope_paths[turn'].budget = NoBudget
      /\ skipped' = Append(skipped, [path |-> turn + 1, reason |-> "NoBudget"])
      /\ UNCHANGED <<view, nodes, chains, resolved>>
  BY DEF SkipUnbudgeted, Skip, described
<1>2. NodesInv'
  BY <1>1, NodesStay DEF DerivationInv
<1>3. IsReport(turn, resolved, skipped)
  BY <1>1 DEF DerivationInv, ReportInv, TurnsOver
<1>4. IsReport(turn', resolved', skipped')
  BY <1>1, <1>3, ReportSkips
<1>5. ReportInv'
  BY <1>1, <1>4 DEF DerivationInv, ReportInv, TurnsOver
<1>6. turn' \in 0 .. Len(view.scope_paths)
  BY <1>1, SeqFacts DEF DerivationInv, IsDerivable
<1>7. ~ WasResolved'
  BY <1>1, <1>3, LastIsReported DEF WasResolved
<1>8. OutcomeInv'
  BY <1>1, <1>7 DEF OutcomeInv
<1> QED
  BY <1>1, <1>2, <1>5, <1>6, <1>8 DEF DerivationInv, RouteInv, SplitInv

LEMMA StartRouteStep ==
  ASSUME DerivationInv, StartRoute
  PROVE  DerivationInv'
<1>1. /\ phase = "next" /\ phase' = "route" /\ turn' = turn + 1
      /\ turn < Len(view.scope_paths)
      /\ sp' = view.scope_paths[turn'] /\ subtree' = {sp'.scope}
      /\ pc' = "subtree" /\ looked' = 0 /\ before' = 1 /\ answer' = NoAnswer
      /\ UNCHANGED <<view, nodes, chains, resolved, skipped>>
  BY DEF StartRoute, StartsRoute, described, output
<1>2. NodesInv'
  BY <1>1, NodesStay DEF DerivationInv
<1>3. turn \in Nat /\ turn' \in 0 .. Len(view.scope_paths)
  BY <1>1, SeqFacts DEF DerivationInv, IsDerivable
<1>4. ReportInv'
  <2>1. turn' - 1 = turn
    BY <1>1, <1>3
  <2>2. TurnsOver = turn /\ TurnsOver' = turn
    BY <1>1, <2>1 DEF TurnsOver
  <2> QED
    BY <1>1, <2>2 DEF DerivationInv, ReportInv
<1>5. AtStart'
  BY <1>1 DEF AtStart, DerivationInv, IsDerivable
<1>6. Inv'
  <2>1. (AtStart => Inv)'
    BY StartInv, PTL
  <2> QED
    BY <1>5, <2>1
<1>7. RouteInv'
  BY <1>1, <1>6 DEF RouteInv
<1> QED
  BY <1>1, <1>2, <1>3, <1>4, <1>7 DEF DerivationInv, SplitInv, OutcomeInv

LEMMA StepOfRouteStep ==
  ASSUME DerivationInv, StepOfRoute
  PROVE  DerivationInv'
<1>1. /\ phase = "route" /\ phase' = "route" /\ RouteStep
      /\ UNCHANGED <<nodes, turn, chains, resolved, skipped>>
  BY DEF StepOfRoute, described, output
<1>2. view' = view /\ sp' = sp
  BY <1>1, ArgsAreFixed DEF RouteNext
<1>3. NodesInv'
  BY <1>1, <1>2, NodesStay DEF DerivationInv
<1>4. ReportInv'
  BY <1>1 DEF DerivationInv, ReportInv, TurnsOver
<1>5. RouteInv'
  BY <1>1, <1>2, StepInv DEF DerivationInv, RouteInv
<1> QED
  BY <1>1, <1>2, <1>3, <1>4, <1>5 DEF DerivationInv, SplitInv, OutcomeInv

\* The turn ends: what it worked on is in the report.
LEMMA TurnEnds ==
  ASSUME DerivationInv, phase \in {"route", "split"}
  PROVE  /\ IsReport(turn - 1, resolved, skipped) /\ turn \in Nat /\ turn - 1 \in Nat
         /\ turn > 0 /\ (turn - 1) + 1 = turn
         /\ resolved # <<>> => Last(resolved) # turn
<1>1. IsReport(turn - 1, resolved, skipped)
  BY DEF DerivationInv, ReportInv, TurnsOver
<1>2. turn \in Nat /\ turn - 1 \in Nat
  BY <1>1, SeqFacts DEF DerivationInv, IsDerivable, IsReport
<1>3. turn > 0 /\ (turn - 1) + 1 = turn
  BY <1>2
<1> QED
  BY <1>1, <1>2, <1>3, LastIsReported

LEMMA SkipFailedStep ==
  ASSUME DerivationInv, SkipFailed
  PROVE  DerivationInv'
<1>1. /\ phase = "route" /\ phase' = "next" /\ answer.kind \in {"NoEndpoints", "Cycle", "NoRoute"}
      /\ skipped' = Append(skipped, [path |-> turn, reason |-> answer.kind])
      /\ UNCHANGED <<view, nodes, turn, chains, resolved>> /\ UNCHANGED <<view, routing>>
  BY DEF SkipFailed, Skip, described
<1>2. NodesInv'
  BY <1>1, NodesStay DEF DerivationInv
<1>3. /\ IsReport(turn - 1, resolved, skipped) /\ turn > 0 /\ (turn - 1) + 1 = turn
      /\ resolved # <<>> => Last(resolved) # turn
  BY <1>1, TurnEnds
<1>4. IsReport(turn, resolved', skipped')
  BY <1>1, <1>3, ReportSkips
<1>5. ReportInv'
  BY <1>1, <1>4 DEF DerivationInv, ReportInv, TurnsOver
<1>6. answer.kind = Outcome(Wires)
  <2>1. Inv /\ answer # NoAnswer
    BY <1>1 DEF DerivationInv, RouteInv, NoAnswer
  <2> QED
    BY <2>1 DEF Inv, AnswerInv, FailureIsJustified
<1>7. Last(skipped').reason = Outcome(Wires)'
  <2> DEFINE e == [path |-> turn, reason |-> answer.kind]
  <2>1. e.reason = answer.kind
    OBVIOUS
  <2> HIDE DEF e
  <2>2. Last(Append(skipped, e)) = e
    BY <1>3, AppendedFacts DEF IsReport
  <2> QED
    BY <1>1, <1>6, <2>1, <2>2, RouteRests DEF e
<1>8. OutcomeInv'
  BY <1>1, <1>3, <1>7 DEF OutcomeInv, WasResolved, IsReason
<1> QED
  BY <1>1, <1>2, <1>5, <1>8 DEF DerivationInv, RouteInv, SplitInv

LEMMA StartChainStep ==
  ASSUME DerivationInv, StartChain
  PROVE  DerivationInv'
<1>1. /\ phase = "route" /\ phase' = "split" /\ answer.kind = "route"
      /\ place' = 0 /\ elements' = <<>> /\ urgency' = 2
      /\ UNCHANGED <<view, nodes, turn, chains, resolved, skipped>> /\ UNCHANGED <<view, routing>>
  BY DEF StartChain, described, output
<1>2. NodesInv'
  BY <1>1, NodesStay DEF DerivationInv
<1>3. ReportInv'
  BY <1>1 DEF DerivationInv, ReportInv, TurnsOver
<1>4. RouteInv'
  BY <1>1, RouteRests DEF DerivationInv, RouteInv
<1>5. IsSplittable(view, answer.vertices)
  BY <1>1, SplittableRoute DEF DerivationInv, RouteInv
<1>6. answer' = answer
  BY <1>1, RouteRests
<1>7. SplitInv'
  <2>1. IsSplit(view, answer.vertices, 0, <<>>, 2)
    BY <1>5, NothingSplit
  <2>2. Len(answer.vertices) \in Nat
    BY <1>5, SeqFacts DEF IsSplittable
  <2> QED
    BY <1>1, <1>6, <2>1, <2>2 DEF SplitInv
<1> QED
  BY <1>1, <1>2, <1>3, <1>4, <1>7 DEF DerivationInv, OutcomeInv

\* A step of the splitting, whatever it makes of the vertex.
LEMMA SplitStep ==
  ASSUME DerivationInv, phase = "split", phase' = "split", place < Len(answer.vertices),
         place' = place + 1, IsSplit(view, answer.vertices, place + 1, elements', urgency'),
         UNCHANGED <<view, nodes, turn, chains, resolved, skipped>>, UNCHANGED <<view, routing>>
  PROVE  DerivationInv'
<1>2. NodesInv'
  BY NodesStay DEF DerivationInv
<1>3. ReportInv'
  BY DEF DerivationInv, ReportInv, TurnsOver
<1>4. RouteInv' /\ answer' = answer
  BY RouteRests DEF DerivationInv, RouteInv
<1>5. IsSplittable(view, answer.vertices)
  BY SplittableRoute DEF DerivationInv, RouteInv, SplitInv
<1>6. SplitInv'
  <2>1. Len(answer.vertices) \in Nat
    BY <1>5, SeqFacts DEF IsSplittable
  <2>2. place + 1 \in 0 .. Len(answer.vertices) /\ answer.kind = "route"
    BY <2>1 DEF DerivationInv, SplitInv
  <2> QED
    BY <1>4, <2>2 DEF SplitInv
<1> QED
  BY <1>2, <1>3, <1>4, <1>6 DEF DerivationInv, OutcomeInv

LEMMA SplitGround ==
  ASSUME DerivationInv, phase = "split"
  PROVE  /\ IsSplittable(view, answer.vertices) /\ answer.kind = "route"
         /\ place \in Nat /\ place <= Len(answer.vertices) /\ Len(answer.vertices) \in Nat
         /\ IsSplit(view, answer.vertices, place, elements, urgency)
<1>1. IsSplittable(view, answer.vertices)
  BY SplittableRoute DEF DerivationInv, RouteInv, SplitInv
<1>2. Len(answer.vertices) \in Nat
  BY <1>1, SeqFacts DEF IsSplittable
<1> QED
  BY <1>1, <1>2 DEF DerivationInv, SplitInv

LEMMA PushLinkStep ==
  ASSUME DerivationInv, PushLink
  PROVE  DerivationInv'
<1> DEFINE vs == answer.vertices
           u == vs[place + 1]
           least == Min({urgency, RankIn(view, u)})
<1>1. /\ phase = "split" /\ phase' = "split" /\ place < Len(vs) /\ place' = place + 1
      /\ LinkIn(view, u) /\ urgency' = least
      /\ UNCHANGED <<view, nodes, turn, chains, resolved, skipped>> /\ UNCHANGED <<view, routing>>
  BY LinksAreLinked DEF PushLink, Vertex, RankIn, described, output
<1>2. \/ PeriodIn(view, u) > 0 /\ elements' = Append(elements, Boundary(u))
      \/ PeriodIn(view, u) = 0 /\ elements' = PushSegmentNode(u)
  BY DEF PushLink, Vertex, PeriodIn
<1>3. IsSplittable(view, vs) /\ place \in Nat /\ IsSplit(view, vs, place, elements, urgency)
  BY <1>1, SplitGround
<1> HIDE DEF vs, least
<1>4. IsSplit(view, vs, place + 1, elements', least)
  <2>1. CASE PeriodIn(view, u) > 0 /\ elements' = Append(elements, Boundary(u))
    <3>1. Boundary(u) = [kind |-> "boundary", link |-> u, period |-> PeriodIn(view, u),
                         exec |-> ExecOf(Node(view, u[1]), u[2])]
      BY DEF Boundary, PeriodIn
    <3> QED
      BY <1>1, <1>3, <2>1, <3>1, BoundaryPushed DEF least
  <2>2. CASE /\ PeriodIn(view, u) = 0 /\ elements' = PushSegmentNode(u)
             /\ elements # <<>> /\ Last(elements).kind = "segment"
    <3>1. elements' = [elements EXCEPT ![Len(elements)].links = Append(@, u)]
      BY <2>2 DEF PushSegmentNode
    <3> DEFINE t == [elements EXCEPT ![Len(elements)].links = Append(@, u)]
    <3>2. place < Len(vs) /\ LinkIn(view, u) /\ PeriodIn(view, u) = 0
      BY <1>1, <2>2
    <3>3. elements # <<>> /\ Last(elements).kind = "segment"
      BY <2>2
    <3>4. IsSplit(view, vs, place + 1, t, Min({urgency, RankIn(view, u)}))
      BY ONLY <1>3, <3>2, <3>3, SegmentGoesOn
    <3> QED
      BY ONLY <3>1, <3>4 DEF least
  <2>3. CASE /\ PeriodIn(view, u) = 0 /\ elements' = PushSegmentNode(u)
             /\ ~ (elements # <<>> /\ Last(elements).kind = "segment")
    <3>1. elements' = Append(elements, [kind |-> "segment", links |-> <<u>>])
      BY <2>3 DEF PushSegmentNode
    <3> QED
      BY <1>1, <1>3, <2>3, <3>1, SegmentPushed DEF least
  <2> QED
    BY <1>2, <2>1, <2>2, <2>3
<1> QED
  BY <1>1, <1>4, SplitStep DEF vs

LEMMA PassVertexStep ==
  ASSUME DerivationInv, PassVertex
  PROVE  DerivationInv'
<1> DEFINE vs == answer.vertices
<1>1. /\ phase = "split" /\ phase' = "split" /\ place < Len(vs) /\ place' = place + 1
      /\ ~ LinkIn(view, vs[place + 1]) /\ elements' = elements /\ urgency' = urgency
      /\ UNCHANGED <<view, nodes, turn, chains, resolved, skipped>> /\ UNCHANGED <<view, routing>>
  BY LinksAreLinked DEF PassVertex, Vertex, described, output
<1>2. IsSplittable(view, vs) /\ place \in Nat /\ IsSplit(view, vs, place, elements, urgency)
  BY <1>1, SplitGround
<1>3. IsSplit(view, vs, place + 1, elements', urgency')
  BY <1>1, <1>2, VertexPassed
<1> QED
  BY <1>1, <1>3, SplitStep

LEMMA SkipLinklessStep ==
  ASSUME DerivationInv, SkipLinkless
  PROVE  DerivationInv'
<1> DEFINE vs == answer.vertices
<1>1. /\ phase = "split" /\ phase' = "next" /\ place = Len(vs) /\ elements = <<>>
      /\ skipped' = Append(skipped, [path |-> turn, reason |-> "NoPathOnRoute"])
      /\ UNCHANGED <<view, nodes, turn, chains, resolved>> /\ UNCHANGED <<view, routing>>
  BY DEF SkipLinkless, Skip, described
<1>2. NodesInv'
  BY <1>1, NodesStay DEF DerivationInv
<1>3. /\ IsReport(turn - 1, resolved, skipped) /\ turn > 0 /\ (turn - 1) + 1 = turn
      /\ resolved # <<>> => Last(resolved) # turn
  BY <1>1, TurnEnds
<1>4. IsReport(turn, resolved', skipped')
  BY <1>1, <1>3, ReportSkips
<1>5. ReportInv'
  BY <1>1, <1>4 DEF DerivationInv, ReportInv, TurnsOver
<1>6. Outcome(Wires) = "route" /\ \A u \in ToSet(vs) : ~ IsLink(u)
  <2>1. Linked(view, vs, Len(vs)) = {} /\ IsSeq(vs) /\ answer.kind = "route"
    BY <1>1, SplitGround DEF IsSplit, IsSplittable
  <2>2. \A u \in ToSet(vs) : ~ IsLink(u)
    BY <2>1, LinksAreLinked, SeqFacts DEF Linked
  <2> QED
    BY <1>1, <2>1, <2>2, SplittableRoute DEF DerivationInv, RouteInv
<1>7. Last(skipped').reason = "NoPathOnRoute"
  <2> DEFINE e == [path |-> turn, reason |-> "NoPathOnRoute"]
  <2>1. e.reason = "NoPathOnRoute"
    OBVIOUS
  <2> HIDE DEF e
  <2>2. Last(Append(skipped, e)) = e
    BY <1>3, AppendedFacts DEF IsReport
  <2> QED
    BY <1>1, <2>1, <2>2 DEF e
<1>8. IsReason(Last(skipped).reason)'
  BY <1>1, <1>6, <1>7, RouteRests DEF IsReason
<1>9. OutcomeInv'
  BY <1>1, <1>3, <1>8 DEF OutcomeInv, WasResolved
<1> QED
  BY <1>1, <1>2, <1>5, <1>9 DEF DerivationInv, RouteInv, SplitInv

LEMMA PushChainStep ==
  ASSUME DerivationInv, PushChain
  PROVE  DerivationInv'
<1> DEFINE vs == answer.vertices
           chain == [name |-> sp.name, criticality |-> urgency, budget |-> sp.budget,
                     elements |-> elements]
<1>1. /\ phase = "split" /\ phase' = "next" /\ place = Len(vs) /\ elements # <<>>
      /\ resolved' = Append(resolved, turn) /\ chains' = Append(chains, chain)
      /\ UNCHANGED <<view, nodes, turn, skipped>> /\ UNCHANGED <<view, routing>>
  BY DEF PushChain, described
<1>0. chain.elements = elements /\ chain.criticality = urgency
  OBVIOUS
<1> HIDE DEF chain
<1>2. NodesInv'
  BY <1>1, NodesStay DEF DerivationInv
<1>3. /\ IsReport(turn - 1, resolved, skipped) /\ turn > 0 /\ (turn - 1) + 1 = turn
      /\ turn \in Nat
  BY <1>1, TurnEnds
<1>4. IsReport(turn, resolved', skipped')
  BY <1>1, <1>3, ReportResolves
<1>5. IsSeq(chains') /\ Last(chains') = chain
  BY <1>1, AppendedFacts DEF DerivationInv, ReportInv
<1>6. ReportInv'
  BY <1>1, <1>4, <1>5 DEF ReportInv, TurnsOver
<1>7. WasResolved'
  BY <1>1, <1>3, AppendedFacts DEF WasResolved, IsReport
<1>8. Outcome(Wires) = "route" /\ IsWholeRoute(chain)
  <2>1. Inv /\ IsDerivable(view) /\ answer.kind = "route"
    BY <1>1, SplitGround DEF DerivationInv, RouteInv
  <2>2. Outcome(Wires) = "route" /\ answer.sampling = SampledUpTo(view, vs, Len(vs))
    BY <2>1, SplittableRoute
  <2>3. IsSplit(view, vs, Len(vs), elements, urgency)
    BY <1>1, SplitGround
  <2> QED
    BY <1>0, <2>2, <2>3 DEF IsWholeRoute
<1>9. OutcomeInv'
  <2>1. answer' = answer /\ Outcome(Wires)' = Outcome(Wires)
    BY <1>1, RouteRests
  <2>2. IsWholeRoute(Last(chains))'
    BY <1>1, <1>5, <1>8, <2>1 DEF IsWholeRoute
  <2> QED
    BY <1>7, <1>8, <2>1, <2>2 DEF OutcomeInv
<1> QED
  BY <1>1, <1>2, <1>6, <1>9 DEF DerivationInv, RouteInv, SplitInv

LEMMA FinishStep ==
  ASSUME DerivationInv, Finish
  PROVE  DerivationInv'
<1>1. /\ phase = "next" /\ phase' = "done"
      /\ UNCHANGED <<view, nodes, turn, chains, resolved, skipped>>
  BY DEF Finish, described, output
<1>2. NodesInv'
  BY <1>1, NodesStay DEF DerivationInv
<1>3. ReportInv'
  BY <1>1 DEF DerivationInv, ReportInv, TurnsOver
<1> QED
  BY <1>1, <1>2, <1>3 DEF DerivationInv, RouteInv, SplitInv, OutcomeInv

LEMMA DerivationStutters ==
  ASSUME DerivationInv, UNCHANGED vars
  PROVE  DerivationInv'
<1>1. /\ UNCHANGED <<phase, view, nodes, turn, place, elements, urgency, chains, resolved, skipped>>
      /\ UNCHANGED <<view, routing>>
  BY DEF vars, described, splitting, output
<1>2. NodesInv'
  BY <1>1, NodesStay DEF DerivationInv
<1>3. ReportInv'
  BY <1>1 DEF DerivationInv, ReportInv, TurnsOver
<1>4. /\ answer' = answer /\ sp' = sp /\ (Inv => Inv') /\ Outcome(Wires)' = Outcome(Wires)
      /\ \A u : IsLink(u)' = IsLink(u)
  BY <1>1, RouteRests
<1>5. RouteInv'
  BY <1>1, <1>4 DEF DerivationInv, RouteInv
<1>6. SplitInv'
  BY <1>1, <1>4 DEF DerivationInv, SplitInv
<1>7. OutcomeInv'
  <2>1. WasResolved' = WasResolved
    BY <1>1 DEF WasResolved
  <2>2. IsWholeRoute(Last(chains)) => IsWholeRoute(Last(chains))'
    BY <1>1, <1>4 DEF IsWholeRoute
  <2>3. IsReason(Last(skipped).reason) => IsReason(Last(skipped).reason)'
    BY <1>1, <1>4 DEF IsReason
  <2> QED
    BY <1>1, <1>4, <2>1, <2>2, <2>3 DEF DerivationInv, OutcomeInv
<1> QED
  BY <1>1, <1>2, <1>3, <1>5, <1>6, <1>7 DEF DerivationInv

\* The invariant, part by part: the nodes, the report, the route of the turn, its
\* splitting, and how the turn before ended (lib.rs:76-210, 340-420).
THEOREM DerivationInvariance == Spec => []DerivationInv
<1>1. DerivationInv /\ [Next]_vars => DerivationInv'
  BY DescribeNodeStep, EndNodesStep, SkipUnbudgetedStep, StartRouteStep, StepOfRouteStep,
     SkipFailedStep, StartChainStep, PushLinkStep, PassVertexStep, SkipLinklessStep,
     PushChainStep, FinishStep, DerivationStutters DEF Next, Returned
<1> QED
  BY <1>1, DerivationStarts, PTL DEF Spec

\* The report of any model loses no scope path and invents none, and a path is
\* skipped for the reason its route has (lib.rs:139-153).
THEOREM ReportsAreComplete == Spec => []ReportIsComplete
<1>1. DerivationInv => ReportIsComplete
  <2> SUFFICES ASSUME DerivationInv PROVE ReportIsComplete
    OBVIOUS
  <2>1. IsReport(TurnsOver, resolved, skipped)
    BY DEF DerivationInv, ReportInv
  <2>2. ASSUME phase \in {"next", "done"}
        PROVE  /\ \A i \in 1 .. turn :
                    Cardinality({k \in DOMAIN resolved : resolved[k] = i})
                      + Cardinality({k \in DOMAIN skipped : skipped[k].path = i}) = 1
               /\ Len(resolved) + Len(skipped) = turn
    <3>1. TurnsOver = turn
      BY <2>2 DEF TurnsOver
    <3> QED
      BY <2>1, <3>1 DEF IsReport, ResolvedAs, SkippedAs
  <2>3. \A k \in 1 .. Len(resolved) - 1 : resolved[k] < resolved[k + 1]
    BY <2>1 DEF IsReport
  <2>4. ASSUME phase = "next", turn > 0, view.scope_paths[turn].budget # NoBudget
        PROVE  LET outcome == Outcome(Wires)
                   last == IF resolved # <<>> /\ Last(resolved) = turn THEN "route"
                           ELSE Last(skipped).reason
               IN  last = outcome
                     \/ (outcome = "route" /\ last = "NoPathOnRoute"
                           /\ \A u \in ToSet(answer.vertices) : ~ IsLink(u))
    <3>1. WasResolved => Outcome(Wires) = "route"
      BY <2>4 DEF DerivationInv, OutcomeInv
    <3>2. ~ WasResolved => IsReason(Last(skipped).reason)
      BY <2>4 DEF DerivationInv, OutcomeInv
    <3> QED
      BY <3>1, <3>2 DEF WasResolved, IsReason
  <2> QED
    BY <2>2, <2>3, <2>4 DEF ReportIsComplete
<1> QED
  BY <1>1, DerivationInvariance, PTL

\* What is known of the chain that the last turn made.
LEMMA LastChain ==
  ASSUME DerivationInv, phase = "next", resolved # <<>>, Last(resolved) = turn
  PROVE  IsWholeRoute(Last(chains))
<1>1. IsReport(turn, resolved, skipped)
  BY DEF DerivationInv, ReportInv, TurnsOver
<1>2. turn \in 1 .. turn /\ turn \in Nat
  BY <1>1, LastIsReported DEF IsReport
<1>3. turn > 0
  BY <1>2
<1> QED
  BY <1>3 DEF DerivationInv, OutcomeInv, WasResolved

\* The chain of any scope path of any model is its route: every link once, in order,
\* split at the timers, with the sampling term of the route (lib.rs:350-388).
THEOREM ChainsFollowRoutes == Spec => []ChainFollowsRoute
<1>1. DerivationInv => ChainFollowsRoute
  BY LastChain, LinksAreLinked DEF ChainFollowsRoute, IsWholeRoute, IsSplit
<1> QED
  BY <1>1, DerivationInvariance, PTL

\* A chain of any model is as critical as its most critical member, and never less
\* than low (lib.rs:46).
THEOREM MostCriticalMembersDecide == Spec => []MostCriticalMemberDecides
<1>1. DerivationInv => MostCriticalMemberDecides
  BY LastChain DEF MostCriticalMemberDecides, IsWholeRoute, IsSplit, Ranks, RankIn
<1> QED
  BY <1>1, DerivationInvariance, PTL

\* A node of any model claims concurrency exactly if a declaration leaves two of its
\* paths that no chain of sets joins (lib.rs:274-284).
THEOREM ConcurrencyClaimsAreRight == Spec => []ConcurrencyIsClaimed
<1>1. DerivationInv => ConcurrencyIsClaimed
  <2> SUFFICES ASSUME DerivationInv, NEW i \in DOMAIN nodes
               PROVE  LET node == view.nodes[i]
                          names == NamesOf(node.paths)
                          sets == ToSet(node.exclusive)
                          Closed(S) == \A d \in sets : d \cap S # {} => d \subseteq S
                          Together(p, q) ==
                            /\ \E d \in sets : p \in d
                            /\ \A S \in SUBSET UNION sets : p \in S /\ Closed(S) => q \in S
                      IN  nodes[i].claims <=>
                            /\ node.exclusive # NoExclusive
                            /\ \E p, q \in names : p # q /\ ~ Together(p, q)
    BY DEF ConcurrencyIsClaimed
  <2> DEFINE node == view.nodes[i]
  <2>1. IsSeq(nodes) /\ Len(nodes) <= Len(view.nodes) /\ nodes[i].claims = ClaimsConcurrency(node)
    BY DEF DerivationInv, NodesInv
  <2>2. node \in ToSet(view.nodes)
    <3>1. IsSeq(view.nodes)
      BY DEF DerivationInv, IsDerivable, IsView
    <3>2. Len(nodes) \in Nat /\ i \in 1 .. Len(nodes) /\ Len(view.nodes) \in Nat
      BY <2>1, <3>1, SeqFacts
    <3>3. i \in 1 .. Len(view.nodes)
      BY <2>1, <3>2
    <3> QED
      BY <3>1, <3>3, SeqFacts
  <2>3. IsModelNode(node) /\ (node.exclusive # NoExclusive => IsSeq(node.exclusive))
    BY <2>2 DEF DerivationInv, IsDerivable, IsView
  <2> HIDE DEF node
  <2>4. nodes[i].claims <=>
          /\ node.exclusive # NoExclusive
          /\ \E p, q \in NamesOf(node.paths) :
               p # q /\ ~ AreTogether(ToSet(node.exclusive), p, q)
    BY <2>1, <2>3, ClaimsMean
  <2> QED
    BY <2>4 DEF node, AreTogether, ClosedUnder
<1> QED
  BY <1>1, DerivationInvariance, PTL
=============================================================================
