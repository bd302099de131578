--------------------------- MODULE TopologicalSort ---------------------------
(***************************************************************************)
(* Kahn's algorithm as `topo_sort` (derive/src/graph.rs) runs it, one      *)
(* action per vertex looked at, vertex taken from the queue and edge       *)
(* followed.  A graph is a record [n, edges]: the vertices are 1 .. n and  *)
(* an edge is a record with `from` and `to`.  Several edges may join the   *)
(* same two vertices.                                                      *)
(***************************************************************************)
EXTENDS Naturals, FiniteSets, Sequences

\* Finitely many vertices, finitely many edges, and no edge leaves the vertices.
IsGraph(g) ==
  /\ g.n \in Nat
  /\ IsFiniteSet(DOMAIN g.edges)
  /\ \A i \in DOMAIN g.edges : g.edges[i].from \in 1 .. g.n /\ g.edges[i].to \in 1 .. g.n

CONSTANT Graphs

ASSUME GraphsAreWellFormed == \A g \in Graphs : IsGraph(g)

VARIABLES
  graph,    \* the argument
  indeg,    \* the edges into each vertex that are not yet followed
  seeded,   \* the vertices looked at for a place in the first queue
  queue,    \* the vertices that wait with no such edge
  order,    \* the vertices taken from the queue
  pending   \* the edges of the last one still to follow, as places in the list

vars == <<graph, indeg, seeded, queue, order, pending>>

Vertices(g) == 1 .. g.n

\* The edges into w and out of v, as places in the list.
Into(g, w) == {i \in DOMAIN g.edges : g.edges[i].to = w}
OutOf(g, v) == {i \in DOMAIN g.edges : g.edges[i].from = v}

\* A bug: the predecessors of a vertex, not the edges into it.
IndegreesOfVertices(g) ==
  [w \in Vertices(g) |-> Cardinality({g.edges[i].from : i \in Into(g, w)})]

Indegrees(g) == [w \in Vertices(g) |-> Cardinality(Into(g, w))]

Init ==
  /\ graph \in Graphs
  /\ indeg = Indegrees(graph)
  /\ seeded = 0
  /\ queue = <<>>
  /\ order = <<>>
  /\ pending = {}

\* The queue starts with the vertices without an edge into them, in order.
Seed ==
  /\ seeded < graph.n
  /\ seeded' = seeded + 1
  /\ queue' = IF indeg[seeded + 1] = 0 THEN Append(queue, seeded + 1) ELSE queue
  /\ UNCHANGED <<graph, indeg, order, pending>>

\* A bug: the front of the queue is read and stays there.
TakeFront ==
  /\ seeded = graph.n
  /\ pending = {}
  /\ queue # <<>>
  /\ order' = Append(order, Head(queue))
  /\ pending' = OutOf(graph, Head(queue))
  /\ UNCHANGED <<graph, indeg, seeded, queue>>

Take ==
  /\ seeded = graph.n
  /\ pending = {}
  /\ queue # <<>>
  /\ order' = Append(order, Head(queue))
  /\ queue' = Tail(queue)
  /\ pending' = OutOf(graph, Head(queue))
  /\ UNCHANGED <<graph, indeg, seeded>>

\* A bug: a vertex is queued when it is first reached.
FollowEagerly(i) ==
  LET w == graph.edges[i].to
  IN  /\ indeg' = [indeg EXCEPT ![w] = @ - 1]
      /\ queue' = IF indeg[w] = Cardinality(Into(graph, w)) THEN Append(queue, w)
                  ELSE queue
      /\ pending' = pending \ {i}
      /\ UNCHANGED <<graph, seeded, order>>

\* A bug: the count is looked at before it is decremented.
FollowTooEarly(i) ==
  LET w == graph.edges[i].to
  IN  /\ indeg' = [indeg EXCEPT ![w] = @ - 1]
      /\ queue' = IF indeg[w] = 0 THEN Append(queue, w) ELSE queue
      /\ pending' = pending \ {i}
      /\ UNCHANGED <<graph, seeded, order>>

\* The edge i is followed; the edges of a vertex are followed in their order.
FollowEdge(i) ==
  LET w == graph.edges[i].to
  IN  /\ indeg' = [indeg EXCEPT ![w] = @ - 1]
      /\ queue' = IF indeg[w] = 1 THEN Append(queue, w) ELSE queue
      /\ pending' = pending \ {i}
      /\ UNCHANGED <<graph, seeded, order>>

Follow == \E i \in pending : (\A j \in pending : i <= j) /\ FollowEdge(i)

Step == Seed \/ Take \/ Follow

\* The sort is over, with every vertex in order or with a cycle left over.
Over == seeded = graph.n /\ pending = {} /\ queue = <<>>

Sorted == Over /\ Len(order) = graph.n
Cyclic == Over /\ Len(order) # graph.n

Returned == Over /\ UNCHANGED vars

Next == Step \/ Returned

Spec == Init /\ [][Next]_vars

-----------------------------------------------------------------------------
(***************************************************************************)
(* Properties.                                                             *)
(***************************************************************************)
Elements(s) == {s[k] : k \in DOMAIN s}

Placed == Elements(order)
Waiting == Elements(queue)

\* The edges that have been followed.
Followed == {i \in DOMAIN graph.edges : graph.edges[i].from \in Placed} \ pending

\* The types of the variables; no in-degree is decremented below zero, where the
\* `usize` of the code would wrap.
TypeOK ==
  /\ IsGraph(graph)
  /\ seeded \in 0 .. graph.n
  /\ indeg \in [Vertices(graph) -> Nat]
  /\ queue \in Seq(Vertices(graph))
  /\ order \in Seq(Vertices(graph))
  /\ pending \in SUBSET DOMAIN graph.edges

\* Every vertex taken from the queue comes after all that an edge leads from, and
\* an order that is returned has all vertices (graph.rs:270-291).
OrderRespectsEdges ==
  /\ \A k \in DOMAIN order : \A i \in Into(graph, order[k]) :
       \E j \in 1 .. k - 1 : order[j] = graph.edges[i].from
  /\ Sorted => Placed = Vertices(graph)

\* "`None` on a cycle" (graph.rs:270), and on nothing else: vertices are left over
\* each of which an edge from another of them leads into.
CycleIsReal ==
  Cyclic =>
    \E S \in SUBSET Vertices(graph) :
      /\ S # {}
      /\ \A w \in S : \E i \in Into(graph, w) : graph.edges[i].from \in S

\* Every step comes closer to the end, so the loop is left on every graph: a vertex
\* is looked at once, placed once, and an edge is followed once.
Left ==
  (graph.n - seeded) + Cardinality(Vertices(graph) \ Placed)
    + Cardinality(DOMAIN graph.edges \ Followed)

AlwaysCloser == [][Left' < Left]_vars
=============================================================================
