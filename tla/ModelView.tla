----------------------------- MODULE ModelView ------------------------------
(***************************************************************************)
(* The system model as the derivation reads it (derive/src/view.rs), and   *)
(* the lookups that turn an entry of it into a fact.                       *)
(*                                                                         *)
(* Names are numbers in the order of the strings they stand for; times are *)
(* whole milliseconds, a timer is given by its period.  A view is a record *)
(*   nodes       sequence of [name, bare, scope, effective, label, paths,  *)
(*               exclusive, services], in launch order, where paths is a   *)
(*               sequence of [name, trigger, outputs, latency] by name;    *)
(*   topics      sequence of [publishers, subscribers, transport], by name *)
(*   own         the subscribers' own transports, a function on endpoints; *)
(*   states      the subscribers declared `state: true`;                   *)
(*   parent      the parent of each scope, by name;                        *)
(*   scope_paths sequence of [scope, name, inputs, outputs, budget].       *)
(* An endpoint of a topic is a pair <<node, endpoint>>.  A path may spell   *)
(* it so, or bare, as <<endpoint>>.  A trigger is a record with a kind;    *)
(* "input" has endpoints, "timer" a period that is 0 if the rate is not    *)
(* positive.                                                               *)
(***************************************************************************)
EXTENDS Naturals, SequencesExt, FiniteSetsExt

CONSTANTS
  NoExclusive,   \* a node that declares no exclusion
  NoTrigger,     \* a path of a model that carries no trigger facts
  NoLatency,     \* a path that declares no max_latency_ms
  NoTransport,   \* a topic that declares no max_transport_ms
  NoScope        \* the parent of a root scope

(***************************************************************************)
(* What every model has: lists are sequences, the keys of a map are there  *)
(* once and a path has a name, and no time is negative.                    *)
(***************************************************************************)
IsSeq(s) == s \in Seq(ToSet(s))

NamedOnce(s) == \A i, j \in DOMAIN s : s[i].name = s[j].name => i = j

IsNodePath(path) ==
  /\ path.name \in Nat \ {0}
  /\ path.latency \in Nat \cup {NoLatency}
  /\ path.trigger # NoTrigger /\ path.trigger.kind = "timer" => path.trigger.period \in Nat

IsModelNode(node) ==
  /\ node.name \in Nat
  /\ IsSeq(node.paths) /\ NamedOnce(node.paths)
  /\ \A p \in ToSet(node.paths) : IsNodePath(p)

IsTopic(topic) ==
  /\ IsSeq(topic.publishers) /\ IsSeq(topic.subscribers)
  /\ topic.transport \in Nat \cup {NoTransport}

IsView(view) ==
  /\ IsSeq(view.nodes) /\ NamedOnce(view.nodes)
  /\ \A node \in ToSet(view.nodes) : IsModelNode(node)
  /\ IsSeq(view.topics)
  /\ \A topic \in ToSet(view.topics) : IsTopic(topic)
  /\ \A ep \in DOMAIN view.own : view.own[ep] \in Nat
  /\ IsSeq(view.parent)

Unclassified == [kind |-> "unclassified"]

EffectiveTrigger(path) ==
  IF path.trigger = NoTrigger THEN Unclassified ELSE path.trigger

\* The period of a timer with a positive rate, 0 for every other path.
PeriodOf(path) ==
  LET t == EffectiveTrigger(path) IN IF t.kind = "timer" THEN t.period ELSE 0

\* Ranks of criticality: 0 is high, 2 is low, 3 is none.  The effective one
\* counts, the advisory label only where there is none.
NoCriticality == 3
CriticalityOf(node) ==
  IF node.effective # NoCriticality THEN node.effective ELSE node.label

IsNode(view, name) == \E i \in DOMAIN view.nodes : view.nodes[i].name = name

\* No two nodes have one name, and no two paths of a node.
Node(view, name) == CHOOSE n \in ToSet(view.nodes) : n.name = name

IsPath(node, p) == \E i \in DOMAIN node.paths : node.paths[i].name = p

Path(node, p) == CHOOSE q \in ToSet(node.paths) : q.name = p

-----------------------------------------------------------------------------
(***************************************************************************)
(* Endpoints and the paths that claim them.                                *)
(***************************************************************************)
EndpointMatches(declared, node, ep) ==
  \/ declared = ep
  \/ node.name = ep[1] /\ declared = <<ep[2]>>

Produces(node, path, ep) == \E d \in path.outputs : EndpointMatches(d, node, ep)

\* Only an input trigger consumes: timers, once, aperiodic and unclassified
\* paths do not.
Consumes(node, path, ep) ==
  /\ EffectiveTrigger(path).kind = "input"
  /\ \E d \in path.trigger.endpoints : EndpointMatches(d, node, ep)

NamesOf(paths) == {paths[i].name : i \in DOMAIN paths}

\* The names of paths, which are listed by name.
PathsProducing(node, ep) ==
  {q.name : q \in {p \in ToSet(node.paths) : Produces(node, p, ep)}}

PathsConsuming(node, ep) ==
  {q.name : q \in {p \in ToSet(node.paths) : Consumes(node, p, ep)}}

-----------------------------------------------------------------------------
(***************************************************************************)
(* Costs.                                                                  *)
(***************************************************************************)
LatencyOf(path) == IF path.latency = NoLatency THEN 0 ELSE path.latency

MaxLatency(node) ==
  Max({0} \cup {LatencyOf(node.paths[i]) : i \in DOMAIN node.paths})

\* What a route pays for passing a node by path p; NoPath is the node as a whole.
TraversalLatency(node, p) ==
  IF IsPath(node, p)
    THEN PeriodOf(Path(node, p)) + LatencyOf(Path(node, p))
    ELSE MaxLatency(node)

SamplingCost(node, p) == IF IsPath(node, p) THEN PeriodOf(Path(node, p)) ELSE 0

\* A subscriber's own value, or else its topic's; an undeclared hop costs 0.
TransportOf(view, topic, ep) ==
  CASE ep \in DOMAIN view.own -> view.own[ep]
    [] ep \notin DOMAIN view.own /\ topic.transport # NoTransport -> topic.transport
    [] OTHER -> 0
=============================================================================
