--------------------------- MODULE ChainDerivation ---------------------------
(***************************************************************************)
(* The derivation of the mapper's input from a model                       *)
(* (derive/src/lib.rs, derive_from_view): every node is described with the *)
(* facts the mappers rank by, then every scope path is resolved to a route *)
(* (LongestRoute) and the route is split into a chain of boundaries and    *)
(* segments, or skipped with a reason.                                     *)
(*                                                                         *)
(* What is handed over has the shape ChainAware takes.  The caller's       *)
(* costs are a record of two functions: `path` on pairs <<node, path>>,    *)
(* `node` on the names and the bare names of nodes.                        *)
(***************************************************************************)
EXTENDS LongestRoute

CONSTANTS
  Views,       \* the models
  Costs,       \* the execution costs a caller may know
  NoBudget,    \* a scope path without max_latency_ms
  NoScopePath, \* no scope path is resolved yet
  NoExec,      \* an unknown execution cost
  NoValue      \* a fact of a node that nothing declares

\* What else every model has: ranks of criticality, and a list of sets where a node
\* declares exclusion.
IsDerivable(v) ==
  /\ IsView(v) /\ IsSeq(v.scope_paths)
  /\ \A node \in ToSet(v.nodes) :
       /\ node.effective \in 0 .. NoCriticality /\ node.label \in 0 .. NoCriticality
       /\ node.exclusive # NoExclusive => IsSeq(node.exclusive)

ASSUME ViewsAreWellFormed == \A v \in Views : IsDerivable(v)

VARIABLES
  phase,                     \* of the derivation; `pc` is that of the route
  costs,                     \* an argument, like `view`
  nodes, unclassified,       \* the nodes described, and the paths reported
  turn,                      \* the scope path of this turn
  place, elements, urgency,  \* the vertices split so far, and into what
  chains, resolved, skipped  \* the answer and the report

described == <<nodes, unclassified>>
splitting == <<place, elements, urgency>>
output == <<chains, resolved, skipped>>
routing == <<pc, sp, scoping, ends, lowered, sorting, longest, walk, answer>>
vars == <<phase, view, costs, described, turn, splitting, output, routing>>

\* A route is resolved for a scope path.
StartsRoute(path) ==
  /\ pc' = "subtree"
  /\ sp' = path
  /\ subtree' = {path.scope} /\ looked' = 0 /\ before' = 1
  /\ sources' = {} /\ sinks' = {}
  /\ vertices' = <<>> /\ graph' = [n |-> 0, edges |-> <<>>]
  /\ indeg' = <<>> /\ seeded' = 0 /\ queue' = <<>> /\ order' = <<>> /\ pending' = {}
  /\ relaxed' = 0 /\ latency' = <<>> /\ prev' = <<>>
  /\ cur' = NoVertex /\ traversed' = <<>> /\ sampling' = 0
  /\ answer' = NoAnswer

Init ==
  /\ phase = "nodes"
  /\ view \in Views /\ costs \in Costs
  /\ nodes = <<>> /\ unclassified = <<>>
  /\ turn = 0
  /\ place = 0 /\ elements = <<>> /\ urgency = 2
  /\ chains = <<>> /\ resolved = <<>> /\ skipped = <<>>
  /\ pc = "done" /\ sp = NoScopePath
  /\ subtree = {} /\ looked = 0 /\ before = 0 /\ sources = {} /\ sinks = {}
  /\ vertices = <<>> /\ graph = [n |-> 0, edges |-> <<>>]
  /\ indeg = <<>> /\ seeded = 0 /\ queue = <<>> /\ order = <<>> /\ pending = {}
  /\ relaxed = 0 /\ latency = <<>> /\ prev = <<>>
  /\ cur = NoVertex /\ traversed = <<>> /\ sampling = 0
  /\ answer = NoAnswer

-----------------------------------------------------------------------------
(***************************************************************************)
(* Nodes.                                                                  *)
(***************************************************************************)

\* The cost of a path is its own, or that of a node that has no other path.  A
\* node is looked up by its name, then by its bare name.
ExecOf(node, p) ==
  CASE <<node.name, p>> \in DOMAIN costs.path -> costs.path[<<node.name, p>>]
    [] <<node.name, p>> \notin DOMAIN costs.path /\ Len(node.paths) = 1
         /\ node.name \in DOMAIN costs.node -> costs.node[node.name]
    [] <<node.name, p>> \notin DOMAIN costs.path /\ Len(node.paths) = 1
         /\ node.name \notin DOMAIN costs.node
         /\ node.bare \in DOMAIN costs.node -> costs.node[node.bare]
    [] OTHER -> NoExec

\* The groups the set joins become one with it; the others stay.
Absorb(acc, group) ==
  IF group \cap acc.merged = {}
    THEN [acc EXCEPT !.kept = Append(@, group)]
    ELSE [acc EXCEPT !.merged = @ \cup group]

\* A bug: a set joins the first group it meets and bridges no two of them.
AddSetOnce(groups, declared) ==
  LET met == {k \in DOMAIN groups : groups[k] \cap declared # {}}
  IN  IF met = {} THEN Append(groups, declared)
      ELSE [groups EXCEPT ![Min(met)] = @ \cup declared]

AddSet(groups, declared) ==
  LET acc[k \in 0 .. Len(groups)] ==
        IF k = 0 THEN [merged |-> declared, kept |-> <<>>] ELSE Absorb(acc[k - 1], groups[k])
      all == acc[Len(groups)]
  IN  IF all.merged = {} THEN all.kept ELSE Append(all.kept, all.merged)

\* The groups that the declared sets make.
Groups(sets) ==
  LET groups[k \in 0 .. Len(sets)] == IF k = 0 THEN <<>> ELSE AddSet(groups[k - 1], sets[k])
  IN  groups[Len(sets)]

ClaimsConcurrency(node) ==
  /\ node.exclusive # NoExclusive
  /\ Len(node.paths) > 1
  /\ ~ \E g \in ToSet(Groups(node.exclusive)) : NamesOf(node.paths) \subseteq g

Fastest(node) ==
  LET periods == {PeriodOf(node.paths[i]) : i \in DOMAIN node.paths} \ {0}
  IN  IF periods = {} THEN NoValue ELSE Min(periods)

\* Path latencies and service responses join one minimum.
Tightest(node) ==
  LET bounds == ({node.paths[i].latency : i \in DOMAIN node.paths} \ {NoLatency})
                  \cup node.services
  IN  IF bounds = {} THEN NoValue ELSE Min(bounds)

MapperPath(node, path) ==
  [name |-> path.name, trigger |-> EffectiveTrigger(path), latency |-> path.latency,
   exec |-> ExecOf(node, path.name)]

MapperNode(node) ==
  [name |-> node.name, period |-> Fastest(node), budget |-> Tightest(node),
   criticality |-> CriticalityOf(node), claims |-> ClaimsConcurrency(node),
   paths |-> [i \in DOMAIN node.paths |-> MapperPath(node, node.paths[i])]]

WithoutTrigger(node) ==
  LET ps == SelectSeq(node.paths, LAMBDA p : p.trigger = NoTrigger)
  IN  [i \in DOMAIN ps |-> <<node.name, ps[i].name>>]

DescribeNode ==
  /\ phase = "nodes"
  /\ Len(nodes) < Len(view.nodes)
  /\ LET node == view.nodes[Len(nodes) + 1]
     IN  /\ nodes' = Append(nodes, MapperNode(node))
         /\ unclassified' = unclassified \o WithoutTrigger(node)
  /\ UNCHANGED <<phase, view, costs, turn, splitting, output, routing>>

EndNodes ==
  /\ phase = "nodes"
  /\ Len(nodes) = Len(view.nodes)
  /\ phase' = "next"
  /\ UNCHANGED <<view, costs, described, turn, splitting, output, routing>>

-----------------------------------------------------------------------------
(***************************************************************************)
(* Chains.                                                                 *)
(***************************************************************************)
Skip(i, reason) == skipped' = Append(skipped, [path |-> i, reason |-> reason])

SkipUnbudgeted ==
  /\ phase = "next"
  /\ turn < Len(view.scope_paths)
  /\ view.scope_paths[turn + 1].budget = NoBudget
  /\ turn' = turn + 1
  /\ Skip(turn + 1, "NoBudget")
  /\ UNCHANGED <<phase, view, costs, described, splitting, chains, resolved, routing>>

StartRoute ==
  /\ phase = "next"
  /\ turn < Len(view.scope_paths)
  /\ view.scope_paths[turn + 1].budget # NoBudget
  /\ turn' = turn + 1
  /\ StartsRoute(view.scope_paths[turn + 1])
  /\ phase' = "route"
  /\ UNCHANGED <<view, costs, described, splitting, output>>

StepOfRoute ==
  /\ phase = "route"
  /\ RouteStep
  /\ UNCHANGED <<phase, costs, described, turn, splitting, output>>

SkipFailed ==
  /\ phase = "route"
  /\ answer.kind \in {"NoEndpoints", "Cycle", "NoRoute"}
  /\ Skip(turn, answer.kind)
  /\ phase' = "next"
  /\ UNCHANGED <<view, costs, described, turn, splitting, chains, resolved, routing>>

\* A bug: the urgency of the chain before is still there.
StartChainStale ==
  /\ phase = "route"
  /\ answer.kind = "route"
  /\ place' = 0 /\ elements' = <<>>
  /\ phase' = "split"
  /\ UNCHANGED <<urgency, view, costs, described, turn, output, routing>>

StartChain ==
  /\ phase = "route"
  /\ answer.kind = "route"
  /\ place' = 0 /\ elements' = <<>> /\ urgency' = 2
  /\ phase' = "split"
  /\ UNCHANGED <<view, costs, described, turn, output, routing>>

\* A hop without a declared path or without a trigger fact is no link.
IsLink(u) ==
  /\ IsPath(Node(view, u[1]), u[2])
  /\ EffectiveTrigger(Path(Node(view, u[1]), u[2])) # Unclassified

Boundary(u) ==
  [kind |-> "boundary", link |-> u, period |-> SamplingCost(Node(view, u[1]), u[2]),
   exec |-> ExecOf(Node(view, u[1]), u[2])]

\* Links that follow each other share a segment.
\* A bug: every link is a segment of its own.
PushSegmentAlone(u) == Append(elements, [kind |-> "segment", links |-> <<u>>])

PushSegmentNode(u) ==
  IF elements # <<>> /\ Last(elements).kind = "segment"
    THEN [elements EXCEPT ![Len(elements)].links = Append(@, u)]
    ELSE Append(elements, [kind |-> "segment", links |-> <<u>>])

Vertex == answer.vertices[place + 1]

PushLink ==
  /\ phase = "split"
  /\ place < Len(answer.vertices)
  /\ IsLink(Vertex)
  /\ place' = place + 1
  /\ urgency' = Min({urgency, CriticalityOf(Node(view, Vertex[1]))})
  /\ \/ /\ SamplingCost(Node(view, Vertex[1]), Vertex[2]) > 0
        /\ elements' = Append(elements, Boundary(Vertex))
     \/ /\ SamplingCost(Node(view, Vertex[1]), Vertex[2]) = 0
        /\ elements' = PushSegmentNode(Vertex)
  /\ UNCHANGED <<phase, view, costs, described, turn, output, routing>>

PassVertex ==
  /\ phase = "split"
  /\ place < Len(answer.vertices)
  /\ ~ IsLink(Vertex)
  /\ place' = place + 1
  /\ UNCHANGED <<phase, view, costs, described, turn, elements, urgency, output, routing>>

\* A bug: a chain without an element is passed over in silence.
SkipSilently ==
  /\ phase = "split"
  /\ place = Len(answer.vertices)
  /\ elements = <<>>
  /\ phase' = "next"
  /\ UNCHANGED <<view, costs, described, turn, splitting, output, routing>>

SkipLinkless ==
  /\ phase = "split"
  /\ place = Len(answer.vertices)
  /\ elements = <<>>
  /\ Skip(turn, "NoPathOnRoute")
  /\ phase' = "next"
  /\ UNCHANGED <<view, costs, described, turn, splitting, chains, resolved, routing>>

PushChain ==
  /\ phase = "split"
  /\ place = Len(answer.vertices)
  /\ elements # <<>>
  /\ resolved' = Append(resolved, turn)
  /\ chains' = Append(chains, [name |-> sp.name, criticality |-> urgency,
                               budget |-> sp.budget, elements |-> elements])
  /\ phase' = "next"
  /\ UNCHANGED <<view, costs, described, turn, splitting, skipped, routing>>

Finish ==
  /\ phase = "next"
  /\ turn = Len(view.scope_paths)
  /\ phase' = "done"
  /\ UNCHANGED <<view, costs, described, turn, splitting, output, routing>>

Returned == phase = "done" /\ UNCHANGED vars

Next ==
  \/ DescribeNode \/ EndNodes
  \/ SkipUnbudgeted \/ StartRoute \/ StepOfRoute \/ SkipFailed
  \/ StartChain \/ PushLink \/ PassVertex \/ SkipLinkless \/ PushChain
  \/ Finish \/ Returned

Spec == Init /\ [][Next]_vars

-----------------------------------------------------------------------------
(***************************************************************************)
(* Properties.                                                             *)
(***************************************************************************)
LinksOf(e) == IF e.kind = "segment" THEN e.links ELSE <<e.link>>

Links(es) == FlattenSeq([i \in DOMAIN es |-> LinksOf(es[i])])

\* One period for every boundary.
SampledBy(e) == IF e.kind = "boundary" THEN e.period ELSE 0

Sampling(es) == Total([i \in DOMAIN es |-> SampledBy(es[i])])

\* Of the first k vertices of the answer, those that are links.
LinksUpTo(k) == {i \in 1 .. k : IsLink(answer.vertices[i])}

\* The report loses no scope path and invents none (lib.rs:139-153): in the order
\* of the model, each is resolved or skipped, once, and the ones skipped for their
\* route are those whose route fails so.
ReportIsComplete ==
  /\ phase \in {"next", "done"} =>
       /\ \A i \in 1 .. turn :
            Cardinality({k \in DOMAIN resolved : resolved[k] = i})
              + Cardinality({k \in DOMAIN skipped : skipped[k].path = i}) = 1
       /\ Len(resolved) + Len(skipped) = turn
  /\ \A k \in 1 .. Len(resolved) - 1 : resolved[k] < resolved[k + 1]
  /\ phase = "next" /\ turn > 0 /\ view.scope_paths[turn].budget # NoBudget =>
       LET outcome == Outcome(Wires)
           last == IF resolved # <<>> /\ Last(resolved) = turn THEN "route"
                   ELSE Last(skipped).reason
       IN  last = outcome
             \/ (outcome = "route" /\ last = "NoPathOnRoute"
                   /\ \A u \in ToSet(answer.vertices) : ~ IsLink(u))

\* A chain is its route: every hop that carries a trigger fact is a link of it and
\* nothing else is, in source-to-sink order, timers with a rate are its boundaries
\* and no two segments meet (lib.rs:350-388, 407-409).
ChainFollowsRoute ==
  phase = "next" /\ resolved # <<>> /\ Last(resolved) = turn =>
    LET es == Last(chains).elements
    IN  /\ Links(es) = Kept(answer.vertices, LinksUpTo(Len(answer.vertices)))
        /\ \A i \in 1 .. Len(es) - 1 : {es[i].kind, es[i + 1].kind} # {"segment"}
        /\ Sampling(es) = answer.sampling

\* The most critical member decides the chain, and a chain is never less than low
\* ("criticality = max over members", lib.rs:46).
MostCriticalMemberDecides ==
  phase = "next" /\ resolved # <<>> /\ Last(resolved) = turn =>
    Last(chains).criticality =
      Min({2} \cup {CriticalityOf(Node(view, u[1])) : u \in ToSet(Links(Last(chains).elements))})

\* Concurrency is claimed exactly if a declaration leaves two paths that no chain
\* of sets with a common member joins (lib.rs:274-284).
ConcurrencyIsClaimed ==
  \A i \in DOMAIN nodes :
    LET node == view.nodes[i]
        names == NamesOf(node.paths)
        sets == ToSet(node.exclusive)
        Closed(S) == \A d \in sets : d \cap S # {} => d \subseteq S
        Together(p, q) ==
          /\ \E d \in sets : p \in d
          /\ \A S \in SUBSET UNION sets : p \in S /\ Closed(S) => q \in S
    IN  nodes[i].claims <=>
          /\ node.exclusive # NoExclusive
          /\ \E p, q \in names : p # q /\ ~ Together(p, q)
=============================================================================
