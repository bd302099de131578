---------------------------- MODULE LongestRoute ----------------------------
(***************************************************************************)
(* The dataflow route a scope path resolves to (derive/src/graph.rs): the  *)
(* subtree of its scope, the two ends, the graph of paths, its topological *)
(* order (TopologicalSort), the latency of the longest route to every      *)
(* vertex, the worst sink and the walk back from it.                       *)
(*                                                                         *)
(* A vertex is a pair <<node, path>>, where the path is NoPath for a hop   *)
(* that no declared path accounts for.  Inside the graph a vertex is known *)
(* by its place in the order of these pairs.                               *)
(***************************************************************************)
EXTENDS ModelView, StableSort

CONSTANT Requests     \* the pairs of a view and a scope path to resolve

ASSUME RequestsAreWellFormed == \A r \in Requests : IsView(r[1])

VARIABLES
  pc,
  view, sp,           \* the arguments
  subtree,            \* the scopes found below the scope of sp
  looked, before,     \* the scopes looked at in this pass, and the size at its start
  sources, sinks,     \* the nodes a route starts and ends at
  vertices, graph,    \* the graph of paths
  indeg, seeded, queue, order, pending,   \* its topological sort
  relaxed,            \* how many vertices of the order have a latency
  latency, prev,      \* of the longest route to a vertex, and the hop before
  cur, traversed, sampling,   \* the walk back
  answer

args == <<view, sp>>
scoping == <<subtree, looked, before>>
ends == <<sources, sinks>>
lowered == <<vertices, graph>>
sorting == <<indeg, seeded, queue, order, pending>>
longest == <<relaxed, latency, prev>>
walk == <<cur, traversed, sampling>>
routeVars == <<pc, args, scoping, ends, lowered, sorting, longest, walk, answer>>

Sort == INSTANCE TopologicalSort WITH Graphs <- {}

\* The path of a fallback vertex comes before every declared one.
NoPath == 0

\* None, for a latency and for a vertex.
Unreached == 0 - 1
NoVertex == 0

NoAnswer == [kind |-> "none"]

RouteInit ==
  /\ pc = "subtree"
  /\ \E r \in Requests : view = r[1] /\ sp = r[2]
  /\ subtree = {sp.scope} /\ looked = 0 /\ before = 1
  /\ sources = {} /\ sinks = {}
  /\ vertices = <<>> /\ graph = [n |-> 0, edges |-> <<>>]
  /\ indeg = <<>> /\ seeded = 0 /\ queue = <<>> /\ order = <<>> /\ pending = {}
  /\ relaxed = 0 /\ latency = <<>> /\ prev = <<>>
  /\ cur = NoVertex /\ traversed = <<>> /\ sampling = 0
  /\ answer = NoAnswer

Answer(a) == answer' = a /\ pc' = "done"

-----------------------------------------------------------------------------
(***************************************************************************)
(* The subtree and the ends.                                               *)
(***************************************************************************)

\* One scope of a pass; a scope the pass has just added counts at once.
LookAtScope ==
  /\ pc = "subtree"
  /\ looked < Len(view.parent)
  /\ looked' = looked + 1
  /\ subtree' = IF view.parent[looked + 1] \in subtree THEN subtree \cup {looked + 1}
                ELSE subtree
  /\ UNCHANGED <<pc, args, before, ends, lowered, sorting, longest, walk, answer>>

\* A bug: one pass, although a scope may come before its parent.
EndOnlyPass ==
  /\ pc = "subtree"
  /\ looked = Len(view.parent)
  /\ pc' = "ends"
  /\ UNCHANGED <<args, scoping, ends, lowered, sorting, longest, walk, answer>>

\* The passes are over when one of them adds nothing.
EndPass ==
  /\ pc = "subtree"
  /\ looked = Len(view.parent)
  /\ \/ /\ Cardinality(subtree) = before
        /\ pc' = "ends"
        /\ UNCHANGED <<looked, before>>
     \/ /\ Cardinality(subtree) # before
        /\ looked' = 0 /\ before' = Cardinality(subtree)
        /\ UNCHANGED pc
  /\ UNCHANGED <<args, subtree, ends, lowered, sorting, longest, walk, answer>>

Inside(name) == IsNode(view, name) /\ Node(view, name).scope \in subtree

NodesOf(eps) == {eps[i][1] : i \in DOMAIN eps}

PublishersOf(topics) ==
  UNION {NodesOf(view.topics[t].publishers) : t \in topics \cap DOMAIN view.topics}
SubscribersOf(topics) ==
  UNION {NodesOf(view.topics[t].subscribers) : t \in topics \cap DOMAIN view.topics}

FindEnds ==
  /\ pc = "ends"
  /\ sources' = {m \in PublishersOf(sp.inputs) \cup SubscribersOf(sp.inputs) : Inside(m)}
  /\ sinks' = {m \in PublishersOf(sp.outputs) : Inside(m)}
  /\ IF sources' = {} \/ sinks' = {}
       THEN Answer([kind |-> "NoEndpoints"])
       ELSE pc' = "lower" /\ UNCHANGED answer
  /\ UNCHANGED <<args, scoping, lowered, sorting, longest, walk>>

-----------------------------------------------------------------------------
(***************************************************************************)
(* The graph of paths.                                                     *)
(***************************************************************************)

Publisher(t, p) == view.topics[t].publishers[p]
Subscriber(t, s) == view.topics[t].subscribers[s]

\* One edge <<t, p, s>> per publisher and subscriber of every topic.
GlobalEdges ==
  UNION {{<<t, p, s>> : p \in DOMAIN view.topics[t].publishers,
                        s \in DOMAIN view.topics[t].subscribers} :
         t \in DOMAIN view.topics}

\* State edges are dropped, and so are those that leave the subtree.
IsCausal(e) ==
  /\ Subscriber(e[1], e[3]) \notin view.states
  /\ Inside(Publisher(e[1], e[2])[1])
  /\ Inside(Subscriber(e[1], e[3])[1])

\* A hop that no path claims lands on the fallback vertex.
Attributed(paths) == IF paths = {} THEN {NoPath} ELSE paths

\* The hops <<t, p, s, from, to>> of an edge: from every path that produces the
\* message to every one it triggers.
HopsOf(e) ==
  LET pub == Publisher(e[1], e[2])
      sub == Subscriber(e[1], e[3])
  IN  {<<e[1], e[2], e[3], from, to>> :
         from \in Attributed(PathsProducing(Node(view, pub[1]), pub)),
         to \in Attributed(PathsConsuming(Node(view, sub[1]), sub))}

Hops == UNION {HopsOf(e) : e \in {g \in GlobalEdges : IsCausal(g)}}

RawEdge(h) ==
  [from |-> <<Publisher(h[1], h[2])[1], h[4]>>,
   to |-> <<Subscriber(h[1], h[3])[1], h[5]>>,
   transport |-> TransportOf(view, view.topics[h[1]], Subscriber(h[1], h[3]))]

Declared ==
  UNION {{<<view.nodes[i].name, p>> : p \in Attributed(NamesOf(view.nodes[i].paths))} :
         i \in {k \in DOMAIN view.nodes : view.nodes[k].scope \in subtree}}

Touched == {RawEdge(h).from : h \in Hops} \cup {RawEdge(h).to : h \in Hops}

\* Tuples in their order, every one once.
Listed(S) ==
  [k \in 1 .. Cardinality(S) |->
     CHOOSE x \in S : Cardinality({y \in S : LexLess(y, x)}) = k - 1]

IndexIn(vs, v) == CHOOSE k \in DOMAIN vs : vs[k] = v

Indexed(vs, e) ==
  [from |-> IndexIn(vs, e.from), to |-> IndexIn(vs, e.to), transport |-> e.transport]

BuildPathGraph ==
  /\ pc = "lower"
  /\ LET vs == Listed(Declared \cup Touched)
         hs == Listed(Hops)
     IN  /\ vertices' = vs
         /\ graph' = [n |-> Len(vs),
                      edges |-> [i \in DOMAIN hs |-> Indexed(vs, RawEdge(hs[i]))]]
  /\ pc' = "index"
  /\ UNCHANGED <<args, scoping, ends, sorting, longest, walk, answer>>

-----------------------------------------------------------------------------
(***************************************************************************)
(* The topological order.                                                  *)
(***************************************************************************)
StartSort ==
  /\ pc = "index"
  /\ indeg' = Sort!Indegrees(graph)
  /\ seeded' = 0 /\ queue' = <<>> /\ order' = <<>> /\ pending' = {}
  /\ pc' = "sort"
  /\ UNCHANGED <<args, scoping, ends, lowered, longest, walk, answer>>

SortStep ==
  /\ pc = "sort"
  /\ Sort!Step
  /\ UNCHANGED <<pc, args, scoping, ends, vertices, longest, walk, answer>>

FailCycle ==
  /\ pc = "sort"
  /\ Sort!Cyclic
  /\ Answer([kind |-> "Cycle"])
  /\ UNCHANGED <<args, scoping, ends, lowered, sorting, longest, walk>>

StartRelax ==
  /\ pc = "sort"
  /\ Sort!Sorted
  /\ relaxed' = 0
  /\ latency' = [v \in 1 .. graph.n |-> Unreached]
  /\ prev' = [v \in 1 .. graph.n |-> NoVertex]
  /\ pc' = "relax"
  /\ UNCHANGED <<args, scoping, ends, lowered, sorting, walk, answer>>

-----------------------------------------------------------------------------
(***************************************************************************)
(* The longest route to every vertex.                                      *)
(***************************************************************************)
CostOf(v) == TraversalLatency(Node(view, vertices[v][1]), vertices[v][2])

\* The edges over which a route reaches v.
Arriving(v) ==
  {i \in DOMAIN graph.edges :
     graph.edges[i].to = v /\ latency[graph.edges[i].from] # Unreached}

ArrivalBy(i) == latency[graph.edges[i].from] + graph.edges[i].transport

Arrival(v) == Max({ArrivalBy(i) : i \in Arriving(v)})

\* A bug: the first hop that arrives, not the latest.
LastHopOfFirst(v) == graph.edges[Min(Arriving(v))].from

\* Of several edges that are the latest to arrive, the first counts.
LastHop(v) ==
  graph.edges[Min({i \in Arriving(v) : ArrivalBy(i) = Arrival(v)})].from

IsSource(v) == vertices[v][1] \in sources
IsSink(v) == vertices[v][1] \in sinks

\* A bug: a source always starts the route.
NeverAtSource(v) == Arriving(v) # {} /\ ~ IsSource(v)

\* A source takes what comes from upstream if that makes the route longer.
ComesFromUpstream(v) ==
  /\ Arriving(v) # {}
  /\ IsSource(v) => Arrival(v) + CostOf(v) > CostOf(v)

Relax ==
  /\ pc = "relax"
  /\ relaxed < Len(order)
  /\ relaxed' = relaxed + 1
  /\ LET v == order[relaxed + 1]
     IN  \/ /\ ComesFromUpstream(v)
            /\ latency' = [latency EXCEPT ![v] = Arrival(v) + CostOf(v)]
            /\ prev' = [prev EXCEPT ![v] = LastHop(v)]
         \/ /\ ~ ComesFromUpstream(v) /\ IsSource(v)
            /\ latency' = [latency EXCEPT ![v] = CostOf(v)]
            /\ UNCHANGED prev
         \/ /\ ~ ComesFromUpstream(v) /\ ~ IsSource(v)
            /\ UNCHANGED <<latency, prev>>
  /\ UNCHANGED <<pc, args, scoping, ends, lowered, sorting, walk, answer>>

ReachedSinks == {v \in 1 .. graph.n : IsSink(v) /\ latency[v] # Unreached}

\* The worst sink, the first of several.
WorstSink ==
  Min({v \in ReachedSinks : \A u \in ReachedSinks : latency[u] <= latency[v]})

PickSink ==
  /\ pc = "relax"
  /\ relaxed = Len(order)
  /\ ReachedSinks # {}
  /\ cur' = WorstSink /\ traversed' = <<>> /\ sampling' = 0
  /\ pc' = "walk"
  /\ UNCHANGED <<args, scoping, ends, lowered, sorting, longest, answer>>

FailNoRoute ==
  /\ pc = "relax"
  /\ relaxed = Len(order)
  /\ ReachedSinks = {}
  /\ Answer([kind |-> "NoRoute"])
  /\ UNCHANGED <<args, scoping, ends, lowered, sorting, longest, walk>>

-----------------------------------------------------------------------------
(***************************************************************************)
(* The walk back.                                                          *)
(***************************************************************************)
WalkBack ==
  /\ pc = "walk"
  /\ cur # NoVertex
  /\ traversed' = Append(traversed, vertices[cur])
  /\ sampling' = sampling + SamplingCost(Node(view, vertices[cur][1]), vertices[cur][2])
  /\ cur' = prev[cur]
  /\ UNCHANGED <<pc, args, scoping, ends, lowered, sorting, longest, answer>>

Deliver ==
  /\ pc = "walk"
  /\ cur = NoVertex
  /\ Answer([kind |-> "route", total |-> latency[WorstSink],
             sampling |-> sampling, vertices |-> Reverse(traversed)])
  /\ UNCHANGED <<args, scoping, ends, lowered, sorting, longest, walk>>

RouteStep ==
  \/ LookAtScope \/ EndPass \/ FindEnds \/ BuildPathGraph
  \/ StartSort \/ SortStep \/ FailCycle \/ StartRelax
  \/ Relax \/ PickSink \/ FailNoRoute
  \/ WalkBack \/ Deliver

RouteReturned == pc = "done" /\ UNCHANGED routeVars

RouteNext == RouteStep \/ RouteReturned

RouteSpec == RouteInit /\ [][RouteNext]_routeVars

-----------------------------------------------------------------------------
(***************************************************************************)
(* The routes of a scope path, read off the view without any loop: a node  *)
(* lies inside if its scope is in every set of scopes that has the scope   *)
(* of the path and the children of its members; a hop joins two vertices   *)
(* if the one speaks and the other hears on a topic they share.            *)
(***************************************************************************)
HasChildren(S) == \A s \in DOMAIN view.parent : view.parent[s] \in S => s \in S

LiesBelow(scope) ==
  \A S \in SUBSET ({sp.scope} \cup DOMAIN view.parent) :
    sp.scope \in S /\ HasChildren(S) => scope \in S

LiesInside(name) == IsNode(view, name) /\ LiesBelow(Node(view, name).scope)

NamesAt(name) == NamesOf(Node(view, name).paths)

Speaks(u, ep) ==
  LET node == Node(view, ep[1])
      speakers == {p \in NamesAt(ep[1]) : Produces(node, Path(node, p), ep)}
  IN  u[1] = ep[1] /\ (u[2] \in speakers \/ (u[2] = NoPath /\ speakers = {}))

Hears(u, ep) ==
  LET node == Node(view, ep[1])
      hearers == {p \in NamesAt(ep[1]) : Consumes(node, Path(node, p), ep)}
  IN  u[1] = ep[1] /\ (u[2] \in hearers \/ (u[2] = NoPath /\ hearers = {}))

\* The transports a message may pay between u and w.
Transports(u, w) ==
  UNION {{TransportOf(view, topic, sub) :
            sub \in {s \in ToSet(topic.subscribers) \ view.states :
                       Hears(w, s) /\ \E pub \in ToSet(topic.publishers) : Speaks(u, pub)}} :
         topic \in {t \in ToSet(view.topics) :
                      \E pub \in ToSet(t.publishers) : pub[1] = u[1]}}

MembersInside == {m \in {view.nodes[i].name : i \in DOMAIN view.nodes} : LiesInside(m)}

Candidates ==
  UNION {{<<m, p>> : p \in {NoPath} \cup NamesAt(m)} : m \in MembersInside}

Wires == {e \in Candidates \X Candidates : Transports(e[1], e[2]) # {}}

\* A fallback vertex is there if a hop lands on it or the node declares no path.
RouteVertices(wires) ==
  {u \in Candidates :
     u[2] # NoPath \/ NamesAt(u[1]) = {} \/ \E e \in wires : u \in {e[1], e[2]}}

\* Each of some vertices has one of them before it.
IsCyclic(wires) ==
  \E S \in (SUBSET {e[2] : e \in wires}) \ {{}} :
    \A w \in S : \E u \in S : <<u, w>> \in wires

\* Every walk of an acyclic graph.
Walks(vs, wires) ==
  LET walks[k \in 1 .. Cardinality(vs) + 1] ==
        IF k = 1 THEN {<<u>> : u \in vs}
        ELSE {Append(x[1], x[2][2]) :
                x \in {y \in walks[k - 1] \X wires : Last(y[1]) = y[2][1]}}
  IN  UNION {walks[k] : k \in 1 .. Cardinality(vs)}

Starts == {m \in PublishersOf(sp.inputs) \cup SubscribersOf(sp.inputs) : LiesInside(m)}
Stops == {m \in PublishersOf(sp.outputs) : LiesInside(m)}

Routes(wires) ==
  {r \in Walks(RouteVertices(wires), wires) : r[1][1] \in Starts /\ Last(r)[1] \in Stops}

Total(s) ==
  LET sum[k \in 0 .. Len(s)] == IF k = 0 THEN 0 ELSE sum[k - 1] + s[k]
  IN  sum[Len(s)]

\* What every vertex and every hop of a route costs, together.
RouteCost(r) ==
  LET Passing(k) == TraversalLatency(Node(view, r[k][1]), r[k][2])
      cost[k \in 1 .. Len(r)] ==
        IF k = 1 THEN Passing(1)
        ELSE cost[k - 1] + Max(Transports(r[k - 1], r[k])) + Passing(k)
  IN  cost[Len(r)]

Outcome(wires) ==
  CASE Starts = {} \/ Stops = {} -> "NoEndpoints"
    [] Starts # {} /\ Stops # {} /\ IsCyclic(wires) -> "Cycle"
    [] Starts # {} /\ Stops # {} /\ ~ IsCyclic(wires) /\ Routes(wires) = {} -> "NoRoute"
    [] OTHER -> "route"

-----------------------------------------------------------------------------
(***************************************************************************)
(* Properties.                                                             *)
(***************************************************************************)

\* A scope path fails for the reason RouteFailure documents (graph.rs:198-207) and
\* for no other, and one that has a route gets one.
FailureIsJustified == pc = "done" => answer.kind = Outcome(Wires)

\* No route from a source to a sink costs more than the one that is answered:
\* "the worst-case (longest) route from any source to any sink" (graph.rs:293).
RouteIsLongest ==
  answer.kind = "route" => \A r \in Routes(Wires) : RouteCost(r) <= answer.total

(***************************************************************************)
(* The hops the documentation adds to these: "A message arriving at an      *)
(* arbitrary point in the period waits up to a whole period for the        *)
(* callback that forwards it" (docs/contract-theory.md:611-613), so a      *)
(* message that no path of a node claims is forwarded by its timers.       *)
(***************************************************************************)
Sampled ==
  {e \in Candidates \X Candidates :
     /\ SamplingCost(Node(view, e[2][1]), e[2][2]) > 0
     /\ Transports(e[1], <<e[2][1], NoPath>>) # {}}

\* A timer on the way of a route is a boundary the route crosses, not its end.
TimersAreCrossed ==
  LET wires == Wires \cup Sampled
  IN  answer.kind = "NoRoute" => IsCyclic(wires) \/ Routes(wires) = {}

\* What is answered is a route, it costs the answered total, and the sampling
\* term is the one of this route alone (graph.rs:370-371).
RouteIsHonest ==
  answer.kind = "route" =>
    /\ answer.vertices \in Routes(Wires)
    /\ RouteCost(answer.vertices) = answer.total
    /\ answer.sampling =
         Total([i \in DOMAIN answer.vertices |->
                  SamplingCost(Node(view, answer.vertices[i][1]), answer.vertices[i][2])])
=============================================================================
