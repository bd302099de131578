------------------------ MODULE TopologicalSortProofs ------------------------
(***************************************************************************)
(* Proofs about TopologicalSort, for every set of finite graphs.           *)
(***************************************************************************)
EXTENDS TopologicalSort, FiniteSetTheorems, TLAPS

-----------------------------------------------------------------------------
(***************************************************************************)
(* The inductive invariant.  An in-degree counts exactly the edges into a  *)
(* vertex that are not followed; the vertices looked at whose count is     *)
(* zero are exactly those that wait or are placed, and none is twice       *)
(* among them.                                                             *)
(***************************************************************************)
CountsAreExact ==
  \A w \in Vertices(graph) : indeg[w] = Cardinality(Into(graph, w) \ Followed)

ReadyIsQueued ==
  Waiting \cup Placed = {w \in 1 .. seeded : indeg[w] = 0}

NoneTwice ==
  /\ Waiting \cap Placed = {}
  /\ \A j, k \in DOMAIN queue : queue[j] = queue[k] => j = k
  /\ \A j, k \in DOMAIN order : order[j] = order[k] => j = k

\* Edges are followed from placed vertices only, and not before all are looked at.
PhasesInOrder ==
  /\ \A i \in pending : graph.edges[i].from \in Placed
  /\ seeded # graph.n => order = <<>> /\ pending = {}

AfterItsEdges ==
  \A k \in DOMAIN order : \A i \in Into(graph, order[k]) :
    \E j \in 1 .. k - 1 : order[j] = graph.edges[i].from

Inv ==
  TypeOK /\ CountsAreExact /\ ReadyIsQueued /\ NoneTwice /\ PhasesInOrder /\ AfterItsEdges

-----------------------------------------------------------------------------
(***************************************************************************)
(* Lemmas on graphs and sequences.                                         *)
(***************************************************************************)

\* The edges into a vertex, and any part of them, are finitely many.
LEMMA EdgesAreFinite ==
  ASSUME NEW g, IsGraph(g), NEW w, NEW T
  PROVE  /\ IsFiniteSet(Into(g, w) \ T)
         /\ Cardinality(Into(g, w) \ T) \in Nat
         /\ IsFiniteSet(DOMAIN g.edges \ T)
         /\ Cardinality(DOMAIN g.edges \ T) \in Nat
<1>1. IsFiniteSet(DOMAIN g.edges)
  BY DEF IsGraph
<1>2. Into(g, w) \ T \in SUBSET DOMAIN g.edges /\ DOMAIN g.edges \ T \in SUBSET DOMAIN g.edges
  BY DEF Into
<1> QED
  BY <1>1, <1>2, FS_Subset, FS_CardinalityType

\* The same of the vertices.
LEMMA VerticesAreFinite ==
  ASSUME NEW g, IsGraph(g), NEW T
  PROVE  /\ g.n \in Nat
         /\ IsFiniteSet(Vertices(g) \ T)
         /\ Cardinality(Vertices(g) \ T) \in Nat
<1>1. g.n \in Nat
  BY DEF IsGraph
<1>2. IsFiniteSet(Vertices(g))
  BY <1>1, FS_Interval, 1 \in Int DEF Vertices
<1>3. Vertices(g) \ T \in SUBSET Vertices(g)
  OBVIOUS
<1> QED
  BY <1>1, <1>2, <1>3, FS_Subset, FS_CardinalityType

\* Appending adds one element; taking the head of a sequence without repetitions
\* removes one.
LEMMA AppendElements ==
  ASSUME NEW V, NEW s \in Seq(V), NEW x \in V
  PROVE  /\ Append(s, x) \in Seq(V)
         /\ DOMAIN s = 1 .. Len(s) /\ Len(s) \in Nat
         /\ DOMAIN Append(s, x) = 1 .. Len(s) + 1
         /\ \A k \in DOMAIN s : Append(s, x)[k] = s[k]
         /\ Append(s, x)[Len(s) + 1] = x
         /\ Elements(Append(s, x)) = Elements(s) \cup {x}
<1>1. /\ Append(s, x) \in Seq(V)
      /\ DOMAIN s = 1 .. Len(s) /\ Len(s) \in Nat
      /\ DOMAIN Append(s, x) = 1 .. Len(s) + 1
      /\ \A k \in DOMAIN s : Append(s, x)[k] = s[k]
      /\ Append(s, x)[Len(s) + 1] = x
  OBVIOUS
<1>2. \A k \in 1 .. Len(s) + 1 : k \in 1 .. Len(s) \/ k = Len(s) + 1
  BY <1>1
<1>3. 1 .. Len(s) \subseteq 1 .. Len(s) + 1 /\ Len(s) + 1 \in 1 .. Len(s) + 1
  BY <1>1
<1> DEFINE new == Append(s, x)
<1>4. \A y : (\E k \in 1 .. Len(s) + 1 : y = new[k])
               <=> (\E k \in 1 .. Len(s) : y = s[k]) \/ y = x
  BY ONLY <1>1, <1>2, <1>3, Zenon
<1>5. {new[k] : k \in 1 .. Len(s) + 1} = {s[k] : k \in 1 .. Len(s)} \cup {x}
  BY <1>4
<1> QED
  BY <1>1, <1>5 DEF Elements

LEMMA TailElements ==
  ASSUME NEW V, NEW s \in Seq(V), s # <<>>,
         \A j, k \in DOMAIN s : s[j] = s[k] => j = k
  PROVE  /\ Head(s) \in V /\ Head(s) \in Elements(s)
         /\ Tail(s) \in Seq(V)
         /\ \A j, k \in DOMAIN Tail(s) : Tail(s)[j] = Tail(s)[k] => j = k
         /\ Elements(Tail(s)) = Elements(s) \ {Head(s)}
<1>1. /\ Len(s) \in Nat \ {0} /\ DOMAIN s = 1 .. Len(s)
      /\ Head(s) = s[1] /\ Head(s) \in V
      /\ Tail(s) \in Seq(V)
      /\ DOMAIN Tail(s) = 1 .. Len(s) - 1
      /\ \A k \in 1 .. Len(s) - 1 : Tail(s)[k] = s[k + 1]
  OBVIOUS
<1>2. 1 \in 1 .. Len(s)
  BY <1>1
<1>3. \A k \in 1 .. Len(s) - 1 : k + 1 \in 1 .. Len(s) /\ k + 1 # 1
  BY <1>1
<1>4. \A k \in 1 .. Len(s) : k # 1 => k - 1 \in 1 .. Len(s) - 1 /\ (k - 1) + 1 = k
  BY <1>1
<1>5. \A j, k \in DOMAIN Tail(s) : Tail(s)[j] = Tail(s)[k] => j = k
  <2> SUFFICES ASSUME NEW j \in 1 .. Len(s) - 1, NEW k \in 1 .. Len(s) - 1,
                      s[j + 1] = s[k + 1]
               PROVE  j = k
    BY <1>1
  <2>1. j + 1 = k + 1
    BY <1>1, <1>3
  <2> QED
    BY <2>1, <1>1
<1>6. \A y : (\E k \in 1 .. Len(s) - 1 : y = Tail(s)[k])
               <=> (\E k \in 1 .. Len(s) : y = s[k]) /\ y # s[1]
  <2>1. ASSUME NEW k \in 1 .. Len(s) - 1
        PROVE  Tail(s)[k] # s[1] /\ \E l \in 1 .. Len(s) : Tail(s)[k] = s[l]
    BY <1>1, <1>2, <1>3
  <2>2. ASSUME NEW k \in 1 .. Len(s), s[k] # s[1]
        PROVE  \E l \in 1 .. Len(s) - 1 : s[k] = Tail(s)[l]
    BY <1>1, <1>4, <2>2
  <2> QED
    BY <2>1, <2>2
<1>7. {Tail(s)[k] : k \in 1 .. Len(s) - 1} = {s[k] : k \in 1 .. Len(s)} \ {s[1]}
  BY <1>6
<1> QED
  BY <1>1, <1>2, <1>5, <1>7 DEF Elements

-----------------------------------------------------------------------------
(***************************************************************************)
(* The invariant holds at first and every step preserves it.               *)
(***************************************************************************)

\* The sort of a graph, before its first step.
AtStart ==
  /\ IsGraph(graph)
  /\ indeg = Indegrees(graph)
  /\ seeded = 0 /\ queue = <<>> /\ order = <<>> /\ pending = {}

LEMMA StartInv == AtStart => Inv
<1> SUFFICES ASSUME AtStart PROVE Inv
  OBVIOUS
<1>1. IsGraph(graph) /\ graph.n \in Nat
  BY DEF AtStart, IsGraph
<1>2. Placed = {} /\ Waiting = {} /\ Followed = {}
  BY DEF AtStart, Placed, Waiting, Followed, Elements
<1>3. \A w : Into(graph, w) \ Followed = Into(graph, w)
  BY <1>2
<1>4. \A w : Cardinality(Into(graph, w)) \in Nat
  BY <1>1, <1>3, EdgesAreFinite
<1>5. CountsAreExact
  BY <1>3 DEF AtStart, CountsAreExact, Indegrees
<1>6. TypeOK
  BY <1>1, <1>4 DEF AtStart, TypeOK, Indegrees
<1>7. ReadyIsQueued
  BY <1>2 DEF AtStart, ReadyIsQueued
<1>8. NoneTwice /\ PhasesInOrder /\ AfterItsEdges
  BY <1>2 DEF AtStart, NoneTwice, PhasesInOrder, AfterItsEdges
<1> QED
  BY <1>5, <1>6, <1>7, <1>8 DEF Inv

LEMMA InitInv == Init => Inv
BY StartInv, GraphsAreWellFormed DEF Init, AtStart

LEMMA SeedInv == Inv /\ Seed => Inv'
<1> SUFFICES ASSUME Inv, Seed PROVE Inv'
  OBVIOUS
<1> DEFINE w == seeded + 1
<1>1. /\ IsGraph(graph) /\ graph.n \in Nat /\ seeded \in Nat /\ seeded < graph.n
      /\ w \in Vertices(graph) /\ w \in 1 .. graph.n /\ w \notin 1 .. seeded
      /\ 1 .. w = (1 .. seeded) \cup {w}
      /\ queue \in Seq(Vertices(graph))
      /\ indeg \in [Vertices(graph) -> Nat]
  BY DEF Inv, TypeOK, Seed, Vertices, IsGraph
<1>2. order = <<>> /\ pending = {} /\ order' = order /\ pending' = pending
      /\ graph' = graph /\ indeg' = indeg /\ seeded' = w
  BY <1>1 DEF Inv, PhasesInOrder, Seed
<1>3. Placed' = Placed /\ Followed' = Followed /\ Placed = {}
  BY <1>2 DEF Placed, Followed, Elements
<1>4. Waiting = {v \in 1 .. seeded : indeg[v] = 0}
  BY <1>3 DEF Inv, ReadyIsQueued
<1>5. CountsAreExact'
  BY <1>2, <1>3 DEF Inv, CountsAreExact, Vertices, Into
<1>6. PhasesInOrder' /\ AfterItsEdges'
  BY <1>2 DEF PhasesInOrder, AfterItsEdges
<1>7. CASE indeg[w] = 0
  <2>1. queue' = Append(queue, w)
    BY <1>7 DEF Seed
  <2>2. Waiting' = Waiting \cup {w}
    BY <1>1, <2>1, AppendElements DEF Waiting
  <2>3. TypeOK'
    BY <1>1, <1>2, <2>1, AppendElements DEF Inv, TypeOK, Vertices
  <2>4. ReadyIsQueued'
    BY <1>1, <1>2, <1>3, <1>4, <1>7, <2>2 DEF ReadyIsQueued
  <2>5. w \notin Waiting
    BY <1>1, <1>4
  <2>6. NoneTwice'
    BY <1>1, <1>2, <1>3, <2>1, <2>5, AppendElements DEF Inv, NoneTwice, Waiting, Elements
  <2> QED
    BY <1>5, <1>6, <2>3, <2>4, <2>6 DEF Inv
<1>8. CASE indeg[w] # 0
  <2>1. queue' = queue /\ Waiting' = Waiting
    BY <1>8 DEF Seed, Waiting
  <2>2. TypeOK'
    BY <1>1, <1>2, <2>1 DEF Inv, TypeOK, Vertices
  <2>3. ReadyIsQueued'
    BY <1>1, <1>2, <1>3, <1>4, <1>8, <2>1 DEF ReadyIsQueued
  <2>4. NoneTwice'
    BY <1>2, <1>3, <2>1 DEF Inv, NoneTwice
  <2> QED
    BY <1>5, <1>6, <2>2, <2>3, <2>4 DEF Inv
<1> QED
  BY <1>7, <1>8

LEMMA TakeInv == Inv /\ Take => Inv'
<1> SUFFICES ASSUME Inv, Take PROVE Inv'
  OBVIOUS
<1> DEFINE v == Head(queue)
<1>1. /\ IsGraph(graph) /\ graph' = graph /\ graph.n \in Nat
      /\ indeg' = indeg /\ indeg \in [Vertices(graph) -> Nat]
      /\ seeded' = seeded /\ seeded = graph.n
      /\ queue \in Seq(Vertices(graph)) /\ queue # <<>>
      /\ order \in Seq(Vertices(graph))
      /\ pending = {} /\ pending' = OutOf(graph, v)
      /\ order' = Append(order, v) /\ queue' = Tail(queue)
  BY DEF Inv, TypeOK, Take, IsGraph
<1>2. \A j, k \in DOMAIN queue : queue[j] = queue[k] => j = k
  BY DEF Inv, NoneTwice
<1>3. /\ v \in Vertices(graph) /\ v \in Waiting
      /\ Tail(queue) \in Seq(Vertices(graph))
      /\ \A j, k \in DOMAIN queue' : queue'[j] = queue'[k] => j = k
      /\ Waiting' = Waiting \ {v}
  BY <1>1, <1>2, TailElements DEF Waiting
<1>4. /\ Append(order, v) \in Seq(Vertices(graph))
      /\ DOMAIN order = 1 .. Len(order) /\ Len(order) \in Nat
      /\ DOMAIN order' = 1 .. Len(order) + 1
      /\ \A k \in DOMAIN order : order'[k] = order[k]
      /\ order'[Len(order) + 1] = v
      /\ Placed' = Placed \cup {v}
  BY <1>1, <1>3, AppendElements DEF Placed
<1> HIDE DEF v
<1>5. v \notin Placed
  BY <1>3 DEF Inv, NoneTwice
<1>6. Followed' = Followed
  <2>1. \A i \in DOMAIN graph.edges :
          i \in Followed' <=> graph.edges[i].from \in Placed \cup {v} /\ graph.edges[i].from # v
    BY <1>1, <1>4 DEF Followed, OutOf
  <2>2. \A i \in DOMAIN graph.edges : i \in Followed <=> graph.edges[i].from \in Placed
    BY <1>1 DEF Followed
  <2>3. Followed' \subseteq DOMAIN graph.edges /\ Followed \subseteq DOMAIN graph.edges
    BY <1>1 DEF Followed
  <2> QED
    BY <2>1, <2>2, <2>3, <1>5
<1>7. TypeOK'
  BY <1>1, <1>3, <1>4 DEF Inv, TypeOK, OutOf
<1>8. CountsAreExact'
  BY <1>1, <1>6 DEF Inv, CountsAreExact, Vertices, Into
<1>9. ReadyIsQueued'
  <2>1. Waiting' \cup Placed' = Waiting \cup Placed
    BY <1>3, <1>4
  <2> QED
    BY <1>1, <2>1 DEF Inv, ReadyIsQueued
<1>10. NoneTwice'
  <2>1. Waiting' \cap Placed' = {}
    BY <1>3, <1>4 DEF Inv, NoneTwice
  <2>2. \A k \in DOMAIN order : order[k] \in Placed
    BY DEF Placed, Elements
  <2>3. ASSUME NEW j \in DOMAIN order', NEW k \in DOMAIN order', order'[j] = order'[k]
        PROVE  j = k
    <3>1. CASE j \in DOMAIN order /\ k \in DOMAIN order
      BY <1>4, <2>3, <3>1 DEF Inv, NoneTwice
    <3>2. CASE j = Len(order) + 1 /\ k \in DOMAIN order
      BY <1>4, <1>5, <2>2, <2>3, <3>2
    <3>3. CASE j \in DOMAIN order /\ k = Len(order) + 1
      BY <1>4, <1>5, <2>2, <2>3, <3>3
    <3>4. CASE j = Len(order) + 1 /\ k = Len(order) + 1
      BY <3>4
    <3> QED
      BY <1>4, <3>1, <3>2, <3>3, <3>4
  <2> QED
    BY <1>3, <2>1, <2>3 DEF NoneTwice
<1>11. PhasesInOrder'
  BY <1>1, <1>4 DEF PhasesInOrder, OutOf
<1>12. AfterItsEdges'
  <2> SUFFICES ASSUME NEW k \in DOMAIN order', NEW i \in Into(graph, order'[k])
               PROVE  \E j \in 1 .. k - 1 : order'[j] = graph.edges[i].from
    BY <1>1 DEF AfterItsEdges, Into
  <2>1. CASE k \in DOMAIN order
    <3>1. i \in Into(graph, order[k])
      BY <1>4, <2>1
    <3>2. PICK j \in 1 .. k - 1 : order[j] = graph.edges[i].from
      BY <2>1, <3>1 DEF Inv, AfterItsEdges
    <3>3. j \in DOMAIN order
      BY <1>4, <2>1
    <3> QED
      BY <1>4, <3>2, <3>3
  <2>2. CASE k = Len(order) + 1
    <3>1. i \in Into(graph, v)
      BY <1>4, <2>2
    <3>2. indeg[v] = 0
      BY <1>3 DEF Inv, ReadyIsQueued
    <3>3. Into(graph, v) \ Followed = {}
      <4>1. Cardinality(Into(graph, v) \ Followed) = 0
        BY <1>3, <3>2 DEF Inv, CountsAreExact
      <4>2. IsFiniteSet(Into(graph, v) \ Followed)
        BY <1>1, EdgesAreFinite
      <4> QED
        BY <4>1, <4>2, FS_EmptySet
    <3>4. graph.edges[i].from \in Placed
      BY <3>1, <3>3 DEF Followed
    <3>5. PICK j \in DOMAIN order : order[j] = graph.edges[i].from
      BY <3>4 DEF Placed, Elements
    <3>6. j \in 1 .. k - 1
      BY <1>4, <2>2
    <3> QED
      BY <1>4, <3>5, <3>6
  <2> QED
    BY <1>4, <2>1, <2>2
<1> QED
  BY <1>7, <1>8, <1>9, <1>10, <1>11, <1>12 DEF Inv

LEMMA FollowInv == Inv /\ Follow => Inv'
<1> SUFFICES ASSUME Inv, NEW i \in pending, FollowEdge(i) PROVE Inv'
  BY DEF Follow
<1> DEFINE w == graph.edges[i].to
<1>1. /\ IsGraph(graph) /\ graph' = graph /\ graph.n \in Nat
      /\ i \in DOMAIN graph.edges /\ w \in Vertices(graph) /\ w \in 1 .. graph.n
      /\ indeg \in [Vertices(graph) -> Nat]
      /\ indeg' = [indeg EXCEPT ![w] = @ - 1]
      /\ queue' = IF indeg[w] = 1 THEN Append(queue, w) ELSE queue
      /\ queue \in Seq(Vertices(graph)) /\ order \in Seq(Vertices(graph))
      /\ order' = order /\ seeded' = seeded
      /\ pending' = pending \ {i} /\ pending \subseteq DOMAIN graph.edges
  BY DEF Inv, TypeOK, FollowEdge, Vertices, IsGraph
<1>2. seeded = graph.n
  BY DEF Inv, PhasesInOrder
<1>3. i \in Into(graph, w) /\ i \notin Followed /\ Placed' = Placed
  BY <1>1 DEF Into, Followed, Placed
<1>4. Followed' = Followed \cup {i}
  <2>1. graph.edges[i].from \in Placed
    BY DEF Inv, PhasesInOrder
  <2> QED
    BY <1>1, <1>3, <2>1 DEF Followed
<1> HIDE DEF w
<1>5. /\ indeg[w] \in Nat \ {0}
      /\ indeg[w] - 1 = Cardinality(Into(graph, w) \ Followed')
  <2>1. IsFiniteSet(Into(graph, w) \ Followed)
    BY <1>1, EdgesAreFinite
  <2>2. Into(graph, w) \ Followed' = (Into(graph, w) \ Followed) \ {i}
    BY <1>4
  <2>3. i \in Into(graph, w) \ Followed
    BY <1>3
  <2>4. Cardinality((Into(graph, w) \ Followed) \ {i}) = Cardinality(Into(graph, w) \ Followed) - 1
    BY <2>1, <2>3, FS_RemoveElement
  <2>5. Cardinality(Into(graph, w) \ Followed') \in Nat
    BY <1>1, EdgesAreFinite
  <2>6. indeg[w] = Cardinality(Into(graph, w) \ Followed) /\ indeg[w] \in Nat
    BY <1>1 DEF Inv, CountsAreExact
  <2> QED
    BY <2>2, <2>4, <2>5, <2>6
<1>6. /\ indeg' \in [Vertices(graph) -> Nat]
      /\ indeg'[w] = indeg[w] - 1
      /\ \A u \in Vertices(graph) : u # w => indeg'[u] = indeg[u]
  BY <1>1, <1>5
<1>7. CountsAreExact'
  <2> SUFFICES ASSUME NEW u \in Vertices(graph)
               PROVE  indeg'[u] = Cardinality(Into(graph, u) \ Followed')
    BY <1>1 DEF CountsAreExact, Vertices, Into
  <2>1. CASE u = w
    BY <1>5, <1>6, <2>1
  <2>2. CASE u # w
    <3>1. i \notin Into(graph, u)
      BY <1>3, <2>2 DEF Into
    <3>2. Into(graph, u) \ Followed' = Into(graph, u) \ Followed
      BY <1>4, <3>1
    <3> QED
      BY <1>6, <2>2, <3>2 DEF Inv, CountsAreExact
  <2> QED
    BY <2>1, <2>2
<1>8. PhasesInOrder' /\ AfterItsEdges'
  BY <1>1, <1>2, <1>3 DEF Inv, PhasesInOrder, AfterItsEdges, Into
<1>9. w \notin Waiting \cup Placed
  BY <1>5 DEF Inv, ReadyIsQueued
<1>10. \A u \in 1 .. graph.n : u \in Vertices(graph)
  BY DEF Vertices
<1>11. CASE indeg[w] = 1
  <2>1. queue' = Append(queue, w)
    BY <1>1, <1>11
  <2>2. Waiting' = Waiting \cup {w}
    BY <1>1, <2>1, AppendElements DEF Waiting
  <2>3. TypeOK'
    BY <1>1, <1>2, <1>6, <2>1, AppendElements DEF Inv, TypeOK
  <2>4. ReadyIsQueued'
    <3>1. indeg'[w] = 0
      BY <1>6, <1>11
    <3>2. {u \in 1 .. graph.n : indeg'[u] = 0} = {u \in 1 .. graph.n : indeg[u] = 0} \cup {w}
      BY <1>1, <1>6, <1>10, <3>1
    <3> QED
      BY <1>1, <1>2, <1>3, <2>2, <3>2 DEF Inv, ReadyIsQueued
  <2>5. \A j, k \in DOMAIN queue' : queue'[j] = queue'[k] => j = k
    <3>1. /\ DOMAIN queue = 1 .. Len(queue) /\ Len(queue) \in Nat
          /\ DOMAIN queue' = 1 .. Len(queue) + 1
          /\ \A k \in DOMAIN queue : queue'[k] = queue[k]
          /\ queue'[Len(queue) + 1] = w
      BY <1>1, <2>1, AppendElements
    <3>2. \A k \in DOMAIN queue : queue[k] # w
      BY <1>9 DEF Waiting, Elements
    <3>3. \A k \in DOMAIN queue' : k \in DOMAIN queue \/ k = Len(queue) + 1
      BY <3>1
    <3>4. \A j, k \in DOMAIN queue : queue[j] = queue[k] => j = k
      BY DEF Inv, NoneTwice
    <3> QED
      BY ONLY <3>1, <3>2, <3>3, <3>4, Zenon
  <2>6. NoneTwice'
    BY <1>1, <1>3, <1>9, <2>2, <2>5 DEF Inv, NoneTwice
  <2> QED
    BY <1>7, <1>8, <2>3, <2>4, <2>6 DEF Inv
<1>12. CASE indeg[w] # 1
  <2>1. queue' = queue /\ Waiting' = Waiting
    BY <1>1, <1>12 DEF Waiting
  <2>2. TypeOK'
    BY <1>1, <1>2, <1>6, <2>1 DEF Inv, TypeOK
  <2>3. ReadyIsQueued'
    <3>1. indeg'[w] # 0 /\ indeg[w] # 0
      BY <1>5, <1>6, <1>12
    <3>2. {u \in 1 .. graph.n : indeg'[u] = 0} = {u \in 1 .. graph.n : indeg[u] = 0}
      BY <1>6, <1>10, <3>1
    <3> QED
      BY <1>1, <1>2, <1>3, <2>1, <3>2 DEF Inv, ReadyIsQueued
  <2>4. NoneTwice'
    BY <1>1, <1>3, <2>1 DEF Inv, NoneTwice
  <2> QED
    BY <1>7, <1>8, <2>2, <2>3, <2>4 DEF Inv
<1> QED
  BY <1>11, <1>12

-----------------------------------------------------------------------------
(***************************************************************************)
(* Theorems.                                                               *)
(***************************************************************************)

\* At every point of `topo_sort` the counts are exact and the queue holds what
\* they say, each vertex once.
LEMMA StepInv == Inv /\ Step => Inv'
BY SeedInv, TakeInv, FollowInv DEF Step

LEMMA StutterInv == Inv /\ UNCHANGED vars => Inv'
<1> SUFFICES ASSUME Inv, UNCHANGED vars PROVE Inv'
  OBVIOUS
<1>1. Placed' = Placed /\ Waiting' = Waiting /\ Followed' = Followed
  BY DEF vars, Placed, Waiting, Followed
<1> QED
  BY <1>1 DEF vars, Inv, TypeOK, CountsAreExact, ReadyIsQueued, NoneTwice,
              PhasesInOrder, AfterItsEdges, Vertices, Into

\* The invariant as a whole holds all through `topo_sort` (graph.rs:272-291).
THEOREM Invariance == Spec => []Inv
<1>1. Inv /\ [Next]_vars => Inv'
  BY StutterInv, StepInv DEF Next, Returned
<1> QED
  BY <1>1, InitInv, PTL DEF Spec

\* The types: in particular no in-degree is ever decremented below zero.
THEOREM TypeCorrect == Spec => []TypeOK
<1>1. Inv => TypeOK
  BY DEF Inv
<1> QED
  BY <1>1, Invariance, PTL

\* An order that has as many vertices as the graph has them all.
LEMMA FullOrderIsComplete ==
  ASSUME Inv
  PROVE  Len(order) = graph.n <=> Placed = Vertices(graph)
<1>1. /\ graph.n \in Nat /\ Vertices(graph) = 1 .. graph.n
      /\ order \in Seq(Vertices(graph)) /\ Len(order) \in Nat
      /\ DOMAIN order = 1 .. Len(order)
  BY DEF Inv, TypeOK, Vertices, IsGraph
<1>2. Placed \in SUBSET Vertices(graph)
  BY <1>1 DEF Placed, Elements
<1>3. IsFiniteSet(Vertices(graph)) /\ Cardinality(Vertices(graph)) = graph.n
  BY <1>1, FS_Interval, 1 \in Int
<1>4. IsFiniteSet(1 .. Len(order)) /\ Cardinality(1 .. Len(order)) = Len(order)
  <2>1. \A m \in Nat : m \in Int /\ (1 > m => m = 0) /\ m - 1 + 1 = m
    OBVIOUS
  <2>2. \A m \in Int : /\ IsFiniteSet(1 .. m)
                       /\ Cardinality(1 .. m) = IF 1 > m THEN 0 ELSE m - 1 + 1
    BY FS_Interval, 1 \in Int
  <2> QED
    BY ONLY <1>1, <2>1, <2>2
<1>5. order \in Bijection(1 .. Len(order), Placed)
  BY <1>1 DEF Inv, NoneTwice, Placed, Elements, Bijection, Injection, Surjection,
              IsInjective
<1>6. ExistsBijection(1 .. Len(order), Placed)
  BY <1>5 DEF ExistsBijection
<1>7. IsFiniteSet(Placed) /\ Cardinality(Placed) = Len(order)
  BY <1>4, <1>6, FS_Bijection
<1>8. Cardinality(Vertices(graph)) = Cardinality(Placed) => Placed = Vertices(graph)
  BY <1>2, <1>3, FS_Subset
<1> QED
  BY <1>3, <1>7, <1>8

LEMMA InvRespectsEdges == Inv => OrderRespectsEdges
BY FullOrderIsComplete DEF Inv, AfterItsEdges, OrderRespectsEdges, Sorted

\* Nothing is placed before what leads to it, and what is returned is complete:
\* the order `critical_path` sums along is a topological one, on every graph.
THEOREM SortsTopologically == Spec => []OrderRespectsEdges
BY InvRespectsEdges, Invariance, PTL

LEMMA InvShowsCycles == Inv => CycleIsReal
<1> SUFFICES ASSUME Inv, Cyclic
             PROVE  \E S \in SUBSET Vertices(graph) :
                      /\ S # {}
                      /\ \A w \in S : \E i \in Into(graph, w) : graph.edges[i].from \in S
  BY DEF CycleIsReal
<1> DEFINE S == Vertices(graph) \ Placed
<1>1. /\ IsGraph(graph) /\ seeded = graph.n /\ pending = {} /\ Waiting = {}
      /\ Vertices(graph) = 1 .. graph.n
  BY DEF Inv, TypeOK, Cyclic, Over, Waiting, Elements, Vertices
<1>2. Placed \subseteq Vertices(graph)
  BY DEF Inv, TypeOK, Placed, Elements
<1>3. S # {}
  BY <1>2, FullOrderIsComplete DEF Cyclic
<1>4. ASSUME NEW w \in S
      PROVE  \E i \in Into(graph, w) : graph.edges[i].from \in S
  <2>1. indeg[w] # 0
    BY <1>1 DEF Inv, ReadyIsQueued
  <2>2. Into(graph, w) \ Followed # {}
    <3>1. indeg[w] = Cardinality(Into(graph, w) \ Followed)
      BY DEF Inv, CountsAreExact
    <3> QED
      BY <2>1, <3>1, FS_EmptySet
  <2>3. PICK i \in Into(graph, w) : i \notin Followed
    BY <2>2
  <2>4. graph.edges[i].from \in Vertices(graph) /\ i \in DOMAIN graph.edges
    BY <1>1 DEF Into, IsGraph
  <2>5. graph.edges[i].from \notin Placed
    BY <1>1, <2>3, <2>4 DEF Followed
  <2> QED
    BY <2>4, <2>5
<1> QED
  BY <1>3, <1>4

\* A graph is refused only if it has a cycle.
THEOREM CyclesAreReal == Spec => []CycleIsReal
BY InvShowsCycles, Invariance, PTL

\* The loops end: every step leaves less to do, and what is left is a natural
\* number.
THEOREM EveryStepIsCloser == Spec => AlwaysCloser /\ [](Left \in Nat)
<1>1. ASSUME Inv
      PROVE  /\ graph.n - seeded \in Nat
             /\ IsFiniteSet(Vertices(graph) \ Placed)
             /\ Cardinality(Vertices(graph) \ Placed) \in Nat
             /\ IsFiniteSet(DOMAIN graph.edges \ Followed)
             /\ Cardinality(DOMAIN graph.edges \ Followed) \in Nat
  <2>1. IsGraph(graph) /\ seeded \in 0 .. graph.n
    BY <1>1 DEF Inv, TypeOK
  <2>2. graph.n \in Nat /\ graph.n - seeded \in Nat
    BY <2>1 DEF IsGraph
  <2>3. \A T : /\ IsFiniteSet(Vertices(graph) \ T)
               /\ Cardinality(Vertices(graph) \ T) \in Nat
               /\ IsFiniteSet(DOMAIN graph.edges \ T)
               /\ Cardinality(DOMAIN graph.edges \ T) \in Nat
    BY <2>1, VerticesAreFinite, EdgesAreFinite
  <2> QED
    BY <2>2, <2>3
<1>2. Inv => Left \in Nat
  BY <1>1 DEF Left
<1>3. ASSUME Inv, Seed PROVE Left' < Left
  <2>1. /\ graph' = graph /\ IsGraph(graph) /\ graph.n \in Nat /\ seeded \in Nat
        /\ seeded' = seeded + 1 /\ order' = order /\ pending' = pending
    BY <1>3 DEF Inv, TypeOK, Seed, IsGraph
  <2>2. Placed' = Placed /\ Followed' = Followed
    BY <2>1 DEF Placed, Followed
  <2> QED
    BY <1>1, <1>3, <2>1, <2>2 DEF Left, Vertices
<1>4. ASSUME Inv, Take PROVE Left' < Left
  <2> DEFINE v == Head(queue)
  <2>1. /\ graph' = graph /\ IsGraph(graph) /\ seeded' = seeded
        /\ queue \in Seq(Vertices(graph)) /\ order \in Seq(Vertices(graph))
        /\ queue # <<>> /\ pending = {} /\ pending' = OutOf(graph, v)
        /\ order' = Append(order, v)
    BY <1>4 DEF Inv, TypeOK, Take
  <2>2. v \in Vertices(graph) /\ v \in Waiting
    BY <1>4, <2>1, TailElements DEF Inv, NoneTwice, Waiting
  <2>3. Placed' = Placed \cup {v}
    BY <2>1, <2>2, AppendElements DEF Placed
  <2> HIDE DEF v
  <2>4. v \notin Placed
    BY <1>4, <2>2 DEF Inv, NoneTwice
  <2>5. Followed' = Followed
    BY <2>1, <2>3, <2>4 DEF Followed, OutOf
  <2>6. Vertices(graph) \ Placed' = (Vertices(graph) \ Placed) \ {v}
    BY <2>3
  <2>7. Cardinality((Vertices(graph) \ Placed) \ {v}) = Cardinality(Vertices(graph) \ Placed) - 1
    BY <1>1, <1>4, <2>2, <2>4, FS_RemoveElement
  <2>8. Vertices(graph') = Vertices(graph)
    BY <2>1
  <2>9. Left' = (graph.n - seeded) + (Cardinality(Vertices(graph) \ Placed) - 1)
                  + Cardinality(DOMAIN graph.edges \ Followed)
    BY <2>1, <2>5, <2>6, <2>7, <2>8 DEF Left
  <2> QED
    BY <1>1, <1>4, <2>9 DEF Left
<1>5. ASSUME Inv, NEW i \in pending, FollowEdge(i) PROVE Left' < Left
  <2>1. /\ graph' = graph /\ seeded' = seeded /\ order' = order
        /\ pending' = pending \ {i} /\ i \in DOMAIN graph.edges
    BY <1>5 DEF Inv, TypeOK, FollowEdge
  <2>2. Placed' = Placed /\ i \notin Followed /\ graph.edges[i].from \in Placed
    BY <1>5, <2>1 DEF Placed, Followed, Inv, PhasesInOrder
  <2>3. Followed' = Followed \cup {i}
    BY <2>1, <2>2 DEF Followed
  <2>4. DOMAIN graph.edges \ Followed' = (DOMAIN graph.edges \ Followed) \ {i}
    BY <2>3
  <2>5. Cardinality((DOMAIN graph.edges \ Followed) \ {i}) = Cardinality(DOMAIN graph.edges \ Followed) - 1
    BY <1>1, <1>5, <2>1, <2>2, FS_RemoveElement
  <2>6. Vertices(graph') = Vertices(graph)
    BY <2>1
  <2>7. Left' = (graph.n - seeded) + Cardinality(Vertices(graph) \ Placed)
                  + (Cardinality(DOMAIN graph.edges \ Followed) - 1)
    BY <2>1, <2>2, <2>4, <2>5, <2>6 DEF Left
  <2> QED
    BY <1>1, <1>5, <2>7 DEF Left
<1>6. Inv /\ [Next]_vars => [Left' < Left]_vars
  BY <1>3, <1>4, <1>5 DEF Next, Step, Follow, Returned
<1> QED
  BY <1>2, <1>6, Invariance, PTL DEF Spec, AlwaysCloser
=============================================================================
