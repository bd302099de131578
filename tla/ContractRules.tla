---------------------------- MODULE ContractRules -----------------------------
(***************************************************************************)
(* check/src/rules: what each rule reports of a scope s, of the scopes it   *)
(* includes and of its dataflow graph.  First the rules about endpoints,    *)
(* wiring and quality of service, then those about rates, latencies,       *)
(* losses and triggers.  A diagnostic says which rule, how severe, where,  *)
(* and about what text.  Times are whole milliseconds, rates whole Hertz.  *)
(***************************************************************************)
EXTENDS Contracts

-----------------------------------------------------------------------------
(***************************************************************************)
(* check/src/graph.rs: the dataflow graph of one scope, and what the rules *)
(* ask of it.  A vertex is the name of a node or of an include, an edge a  *)
(* triple <<from, to, topic>>.                                             *)
(***************************************************************************)
\* A bug: a state subscriber is wired like any other.
NeverState(s, ref) == FALSE

\* is_state_endpoint.
IsStateEndpoint(s, ref) == \E e \in Subscriber(s, ref) : IsTrue(e.state)

Vertices(s, includes) == DOMAIN s.nodes \cup includes

\* resolve_vertex: an endpoint that is declared and one that is not both lead
\* to the owner they name.
Vertex(s, includes, ref) == Owner(ref) \cap Vertices(s, includes)

\* DataflowGraph::build.
DataflowGraph(s, includes) ==
  UNION {UNION {{<<a, b, t>> : a \in Vertex(s, includes, p), b \in Vertex(s, includes, q)} :
                  p \in Range(s.topics[t].pub),
                  q \in {r \in Range(s.topics[t].sub) : ~ IsStateEndpoint(s, r)}} :
           t \in DOMAIN s.topics}

Backwards(graph) == {<<e[2], e[1], e[3]>> : e \in graph}

\* reach: what breadth first search sees from some vertices, layer by layer.
Reach(graph, from) ==
  LET layer[k \in Nat] ==
        IF k = 0 THEN from
        ELSE LET seen == layer[k - 1]
             IN  seen \cup {e[2] : e \in {f \in graph : f[1] \in seen}}
  IN  layer[Cardinality({e[2] : e \in graph})]

\* petgraph's is_cyclic_directed.
IsCyclic(graph) == \E e \in graph : e[1] \in Reach(graph, {e[2]})

-----------------------------------------------------------------------------
(***************************************************************************)
(* check/src/rules/endpoint_topic.rs: the first topic that lists an        *)
(* endpoint.                                                               *)
(***************************************************************************)
FirstTopic(s, names) == {s.topics[t] : t \in {FirstName(names) : n \in names}}

TopicForPub(s, node, ep) ==
  FirstTopic(s, {t \in DOMAIN s.topics : <<Word(node), ep>> \in Range(s.topics[t].pub)})

TopicForSub(s, node, ep) ==
  FirstTopic(s, {t \in DOMAIN s.topics : <<Word(node), ep>> \in Range(s.topics[t].sub)})

-----------------------------------------------------------------------------
\* A bug: a topic is known by the name it has in its section and no other.
KeyAsWritten(keys, name) == {name} \cap keys

\* topic_key, external_block_side: the key a name stands for is itself, else
\* its other spelling, with the slash of the root namespace or without it.
KeyOf(keys, name) == IF name \in keys THEN {name} ELSE {k \in keys : Bare(k) = Bare(name)}

-----------------------------------------------------------------------------
Diagnostic(severity, rule, at, about) ==
  [severity |-> severity, rule |-> rule, at |-> at, about |-> about]

Error(rule, at, about) == Diagnostic("error", rule, at, about)
Warning(rule, at, about) == Diagnostic("warning", rule, at, about)
Info(rule, at, about) == Diagnostic("info", rule, at, about)

\* The places of the paths of a scope: those of its nodes and its event chains.
NodePaths(s) == UNION {{<<"nodes", n, p>> : p \in DOMAIN s.nodes[n].paths} : n \in DOMAIN s.nodes}
Chains(s) == {<<"paths", p>> : p \in DOMAIN s.paths}
PathAt(s, at) == IF at[1] = "nodes" THEN s.nodes[at[2]].paths[at[3]] ELSE s.paths[at[2]]

-----------------------------------------------------------------------------
(***************************************************************************)
(* Endpoints and wiring.                                                   *)
(***************************************************************************)
EndpointUnique(s) ==
  UNION {LET nd == s.nodes[n]
             Kinds(e) == {k \in 1..4 : e \in <<DOMAIN nd.pub, DOMAIN nd.sub, DOMAIN nd.srv, DOMAIN nd.cli>>[k]}
         IN  {Error("endpoint-unique", <<"nodes", n>>, <<Word(e)>>) :
                e \in {e \in DOMAIN nd.pub \cup DOMAIN nd.sub \cup DOMAIN nd.srv \cup DOMAIN nd.cli :
                         Cardinality(Kinds(e)) > 1}} : n \in DOMAIN s.nodes}

Wiring(s) ==
  LET wired == UNION {Range(s.topics[t].pub) \cup Range(s.topics[t].sub) : t \in DOMAIN s.topics}
                 \cup UNION {Range(s.services[v].client) \cup Range(s.services[v].server) :
                               v \in DOMAIN s.services}
      Ends(at) == Range(InputsOf(PathAt(s, at))) \cup Range(PathAt(s, at).output)
  IN  UNION {{Warning("wiring", at, e) : e \in {e \in Ends(at) : <<Word(at[2])>> \o e \notin wired}} :
               at \in NodePaths(s)}

HasServer(v) == v.server # <<>> \/ v.external \cap {"server", "both"} # {}

ServiceWiring(s) ==
  LET Served(n, c) ==
        \/ \E v \in DOMAIN s.services :
             Ref(n, c) \in Range(s.services[v].client) /\ HasServer(s.services[v])
        \/ c \in DOMAIN s.services /\ HasServer(s.services[c])
  IN  UNION {{Warning("service-wiring", <<"nodes", n, "cli", c>>, <<>>) :
                c \in {c \in DOMAIN s.nodes[n].cli : ~ Served(n, c)}} : n \in DOMAIN s.nodes}

ServiceType(s) ==
  LET Undeclared(refs, n_has(_, _)) ==
        {r \in refs : \E n \in Owner(r) \cap DOMAIN s.nodes : ~ n_has(s.nodes[n], r[2].text)}
      HasSrv(nd, e) == e \in DOMAIN nd.srv
      HasCli(nd, e) == e \in DOMAIN nd.cli
      Of(v) == IF s.services[v].type = <<>>
               THEN {Error("service-type", <<"services", v>>, <<>>)}
               ELSE {Warning("service-type", <<"services", v>>, r) :
                       r \in Undeclared(Range(s.services[v].server), HasSrv)
                               \cup Undeclared(Range(s.services[v].client), HasCli)}
  IN  UNION {Of(v) : v \in DOMAIN s.services}

\* topic_side_is_external: the mark on the topic or the deprecated block.
SideIsExternal(s, t, side) ==
  (s.topics[t].external \cup UNION {s.external_topics[x].side : x \in KeyOf(DOMAIN s.external_topics, t)})
    \cap {side, "both"} # {}

DanglingEntity(s) ==
  {Warning("dangling-entity", <<"topics", t, side>>, <<>>) :
     <<t, side>> \in {x \in (DOMAIN s.topics) \X {"pub", "sub"} :
                        LET top == s.topics[x[1]]
                        IN  /\ IF x[2] = "pub" THEN top.pub = <<>> /\ top.sub # <<>>
                               ELSE top.pub # <<>> /\ top.sub = <<>>
                            /\ ~ SideIsExternal(s, x[1], x[2])}}
  \cup {Error("dangling-entity", <<"services", v>>, <<>>) :
          v \in {v \in DOMAIN s.services : s.services[v].client # <<>> /\ ~ HasServer(s.services[v])}}
  \cup {Error("dangling-entity", <<"actions", v>>, <<>>) :
          v \in {v \in DOMAIN s.actions : s.actions[v].client # <<>> /\ ~ HasServer(s.actions[v])}}

LinkSource(s) ==
  {Warning("link-unsourced", <<"links", l>>, <<>>) : l \in {l \in DOMAIN s.links : ~ s.links[l].sourced}}

TransportInline(s) ==
  UNION {{Info("transport-inline", <<"nodes", n, "sub", e>>, <<>>) :
            e \in {e \in DOMAIN s.nodes[n].sub :
                     s.nodes[n].sub[e].link = {} /\ s.nodes[n].sub[e].transport # {}}} :
           n \in DOMAIN s.nodes}

-----------------------------------------------------------------------------
(***************************************************************************)
(* Quality of service.                                                     *)
(***************************************************************************)
QosValues == [reliability |-> {"reliable", "best_effort"},
              durability |-> {"volatile", "transient_local"},
              history |-> {"keep_last", "keep_all"},
              liveliness |-> {"automatic", "manual_by_topic"}]

BadQosValues(at, qos) ==
  {Error("qos-compat", at, <<Word(f)>>) :
     f \in {f \in DOMAIN QosValues : ~ qos[f] \subseteq QosValues[f]}}

QosCompat(s) ==
  UNION {BadQosValues(<<"topics", t>>, s.topics[t].qos) : t \in DOMAIN s.topics}
  \cup UNION {LET nd == s.nodes[n]
              IN  UNION {BadQosValues(<<"nodes", n, "pub", e>>, nd.pub[e].qos) : e \in DOMAIN nd.pub}
                  \cup UNION {BadQosValues(<<"nodes", n, "sub", e>>, nd.sub[e].qos) : e \in DOMAIN nd.sub}
                  \cup UNION {BadQosValues(<<"nodes", n, "cli", e>>, nd.cli[e].qos) : e \in DOMAIN nd.cli} :
                n \in DOMAIN s.nodes}

\* check_qos_profile: values that contradict each other in one profile.
BadProfile(at, qos) ==
  {Error("qos-match", at, <<Word("depth")>>) : d \in qos.depth \cap {0}}
  \cup {Warning("qos-match", at, <<Word("history")>>) : d \in {d \in qos.depth : qos.history = {"keep_all"}}}
  \cup {Warning("qos-match", at, <<Word("durability")>>) :
          r \in {r \in qos.reliability : r = "best_effort" /\ qos.durability = {"transient_local"}}}

\* What a publisher may not offer to a subscriber that requests it, per field.
WeakerOffers == [reliability |-> <<"best_effort", "reliable">>,
                 durability |-> <<"volatile", "transient_local">>,
                 liveliness |-> <<"automatic", "manual_by_topic">>]

\* check_compat_pair.
Mismatches(offered, requested) ==
  {f \in DOMAIN WeakerOffers :
     offered[f] = {WeakerOffers[f][1]} /\ requested[f] = {WeakerOffers[f][2]}}
  \cup {"lease" : l \in {l \in offered.lease \X requested.lease : l[1] > l[2]}}

QosMatch(s) ==
  LET Profile(r) == IF Publisher(s, r) # {} THEN Publisher(s, r) ELSE Subscriber(s, r)
      Refs(t) == Range(s.topics[t].pub) \cup Range(s.topics[t].sub)
      At(t, e) == EffectiveQos(s.topics[t].qos, e.qos)
      Pairs(t) == UNION {Publisher(s, p) \X Subscriber(s, q) :
                           p \in Range(s.topics[t].pub), q \in Range(s.topics[t].sub)}
  IN  UNION {BadProfile(<<"topics", t>>, s.topics[t].qos)
             \cup UNION {BadProfile(<<"endpoints", r[1].text, r[2].text>>, e.qos) :
                           <<r, e>> \in UNION {{r} \X Profile(r) : r \in Refs(t)}}
             \cup UNION {{Error("qos-match", <<"topics", t>>, <<Word(f)>>) :
                            f \in Mismatches(At(t, pq[1]), At(t, pq[2]))} : pq \in Pairs(t)} :
               t \in DOMAIN s.topics}

OnceDurability(s) ==
  LET Lost(n, p, e) ==
        \E props \in {s.nodes[n].pub[x] : x \in {e[1].text} \cap DOMAIN s.nodes[n].pub} :
          \E t \in TopicForPub(s, n, e[1]) :
            EffectiveQos(t.qos, props.qos).durability # {"transient_local"}
  IN  UNION {{Warning("once-durability", at, e) :
                e \in {e \in Range(PathAt(s, at).output) : Lost(at[2], at[3], e)}} :
               at \in {at \in NodePaths(s) : EffectiveTrigger(PathAt(s, at)).kind = "once"}}

Sum(f) == MapThenSumSet(LAMBDA x : f[x], DOMAIN f)

-----------------------------------------------------------------------------
(***************************************************************************)
(* Rates.                                                                  *)
(***************************************************************************)
\* check_on_demand: nothing is held to a rate on account of a publisher that
\* promises none.
OnDemand(s, t) ==
  LET top == s.topics[t]
      aperiodic == {r \in Range(top.pub) : \E e \in Publisher(s, r) : IsTrue(e.aperiodic)}
      Needs(e) == e.state # {TRUE} /\ e.min_rate # {}
  IN  {Error("rate-hierarchy", <<"topics", t, "aperiodic">>, <<>>) : x \in {x \in top.rate : aperiodic # {}}}
      \cup {Error("rate-hierarchy", <<"topics", t, "aperiodic">>, r) :
              r \in {r \in Range(top.sub) : /\ aperiodic # {} /\ Range(top.pub) \subseteq aperiodic
                                            /\ \E e \in Subscriber(s, r) : Needs(e)}}

\* A bug: a subscriber may need more than the topic carries.
RatesOfPublishers(s, t, rate) ==
  LET top == s.topics[t]
      Below(e) == \E r \in e.min_rate : r < rate
      Over(e) == \E r \in e.max_rate : rate > r
  IN  {r \in Range(top.pub) : \E e \in Publisher(s, r) : Below(e) \/ Over(e)}
      \cup {r \in Range(top.sub) : \E e \in Subscriber(s, r) : Over(e)}

\* A publisher's promise >= the topic's rate >= what the most demanding
\* subscriber needs, the first of them, and no end has to go faster than it
\* says it can.
RatesOutOfOrder(s, t, rate) ==
  LET top == s.topics[t]
      Below(e) == \E r \in e.min_rate : r < rate
      Over(e) == \E r \in e.max_rate : rate > r
      Need(i) == UNION {e.min_rate : e \in Subscriber(s, top.sub[i])}
      MostDemanding(i) ==
        \E need \in Need(i) : \A j \in DOMAIN top.sub :
          \A other \in Need(j) : IF j < i THEN other < need ELSE other <= need
  IN  {r \in Range(top.pub) : \E e \in Publisher(s, r) : Below(e) \/ Over(e)}
      \cup {r \in Range(top.sub) : \E e \in Subscriber(s, r) : Over(e)}
      \cup {top.sub[i] : i \in {i \in DOMAIN top.sub : MostDemanding(i) /\ Max(Need(i)) > rate}}

RateHierarchy(s) ==
  UNION {OnDemand(s, t)
         \cup UNION {{Error("rate-hierarchy", <<"topics", t>>, r) : r \in RatesOutOfOrder(s, t, rate)} :
                       rate \in s.topics[t].rate} : t \in DOMAIN s.topics}

SyncFeasibility(s) ==
  LET Rates(at) == UNION {UNION {t.rate : t \in TopicForSub(s, at[2], e[1])} :
                            e \in Range(InputsOf(PathAt(s, at)))}
      Window(sync) == IF sync.policy = "timeout_any" THEN sync.timeout ELSE sync.max_interval
      Short(at) == \E sync \in PathAt(s, at).sync : \E w \in Window(sync) :
                     Rates(at) # {} /\ Min(Rates(at)) > 0 /\ w * Min(Rates(at)) < 1000
  IN  {Warning("sync-feasibility", at, <<>>) : at \in {at \in NodePaths(s) : Short(at)}}

QueueDrainRate(s) ==
  LET Queues(n) == {e \in DOMAIN s.nodes[n].sub :
                      IsTrue(s.nodes[n].sub[e].state) /\ s.nodes[n].sub[e].buffer = {"queue"}}
      Rate(n, e) == UNION {t.rate : t \in TopicForSub(s, n, Word(e))}
      Incoming(n) == MapThenSumSet(LAMBDA e : IF Rate(n, e) = {} THEN 0 ELSE TheOnly(Rate(n, e)), Queues(n))
  IN  {Warning("queue-drain-rate", at, <<>>) :
         at \in {at \in NodePaths(s) : LET trigger == EffectiveTrigger(PathAt(s, at))
                                       IN  trigger.kind = "timer" /\ trigger.rate < Incoming(at[2])}}

-----------------------------------------------------------------------------
(***************************************************************************)
(* Latencies.                                                              *)
(***************************************************************************)
MaxLatency(paths) == Max({0} \cup UNION {paths[p].max_latency : p \in DOMAIN paths})

\* A bug: what an include costs is left out.
ScopeTotalOfNodes(s, includes) ==
  Sum([n \in DOMAIN s.nodes |-> MaxLatency(s.nodes[n].paths)])
  + Sum([t \in DOMAIN s.topics |-> Max({0} \cup TopicTransport(s, s.topics[t]))])

\* The flat sum: every node and every include once at its largest latency,
\* every topic once at its largest edge.
ScopeTotal(s, includes) ==
  Sum([n \in DOMAIN s.nodes \cup DOMAIN includes |->
         LET own == UNION {{MaxLatency(s.nodes[m].paths)} : m \in {n} \cap DOMAIN s.nodes}
             inner == UNION {{MaxLatency(includes[m].paths)} : m \in {n} \cap DOMAIN includes}
         IN  IF inner \subseteq {0} THEN Max({0} \cup own) ELSE Max(inner)])
  + Sum([t \in DOMAIN s.topics |-> Max({0} \cup TopicTransport(s, s.topics[t]))])

ScopeBudget(s, includes) ==
  {Warning("chain-latency", <<"paths", p>>, <<>>) :
     p \in {p \in DOMAIN s.paths : \E budget \in s.paths[p].max_latency :
                                     budget < ScopeTotal(s, includes)}}

\* What is wrong with the range a path declares for its latency.
JitterOf(path) ==
  IF \E hi \in path.max_latency : \E lo \in path.min_latency : lo > hi THEN {"reversed"}
  ELSE UNION {IF path.min_latency = {} THEN {"unknown"}
              ELSE {"spread" : lo \in {lo \in path.min_latency : x[1] - lo > x[2]}} :
                x \in {x \in path.max_latency \X path.jitter : x[1] > x[2]}}

JitterRange(s) ==
  UNION {{Diagnostic(IF why = "unknown" THEN "info" ELSE "error", "jitter-range", at, <<Word(why)>>) :
            why \in JitterOf(PathAt(s, at))} : at \in NodePaths(s) \cup Chains(s)}

CausalDag(graph) == {Error("causal-dag", <<"graph">>, <<>>) : x \in {x \in {1} : IsCyclic(graph)}}

-----------------------------------------------------------------------------
(***************************************************************************)
(* Losses.                                                                 *)
(***************************************************************************)
DropSanity(s) ==
  LET Drops == {<<at, PathAt(s, at).drop>> : at \in NodePaths(s) \cup Chains(s)}
                 \cup {<<<<"topics", t>>, s.topics[t].drop>> : t \in DOMAIN s.topics}
      Bad(d) == {"rate" : c \in {c \in d.max_count : c.n > c.w}}
                  \cup {"consecutive" : k \in d.max_consecutive \cap {0}}
      Counts(t) == UNION {d.max_count : d \in s.topics[t].drop}
      TooLossy(t, r) ==
        \E rate \in s.topics[t].rate : \E c \in Counts(t) :
          \E e \in Subscriber(s, r) : \E need \in e.min_rate : rate * (c.w - c.n) < need * c.w
  IN  UNION {UNION {{Error("drop-sanity", x[1], <<Word(why)>>) : why \in Bad(d)} : d \in x[2]} : x \in Drops}
      \cup UNION {{Error("drop-sanity", <<"topics", t>>, r) :
                     r \in {r \in Range(s.topics[t].sub) : TooLossy(t, r)}} : t \in DOMAIN s.topics}

\* route_topics: the ends, and every edge between vertices that lie ahead of
\* the inputs and behind the outputs.
RouteTopics(s, graph, inputs, outputs) ==
  LET starts == UNION {UNION {Owner(r) : r \in Range(s.topics[t].sub)} : t \in inputs}
      ends == UNION {UNION {Owner(r) : r \in Range(s.topics[t].pub)} : t \in outputs}
      between == Reach(graph, starts) \cap Reach(Backwards(graph), ends)
  IN  inputs \cup outputs \cup {e[3] : e \in {e \in graph : e[1] \in between /\ e[2] \in between}}

TopicsNamed(s, texts) == UNION {KeyOf(DOMAIN s.topics, x[1].text) : x \in texts}

DropTightness(s, graph) ==
  LET Route(p) == RouteTopics(s, graph, TopicsNamed(s, Range(InputsOf(s.paths[p]))),
                              TopicsNamed(s, Range(s.paths[p].output)))
      Counts(drop) == UNION {d.max_count : d \in drop}
  IN  UNION {{Warning("drop-tightness", <<"paths", p>>, <<Word(t)>>) :
                t \in {t \in Route(p) : \E whole \in Counts(s.paths[p].drop) :
                                          \E part \in Counts(s.topics[t].drop) : LosesMore(part, whole)}} :
               p \in DOMAIN s.paths}

-----------------------------------------------------------------------------
(***************************************************************************)
(* Triggers and state.                                                     *)
(***************************************************************************)
\* The one subscriber that is neither state nor an input of any path, in a
\* node with paths or with two state subscribers beside it.
StateConsistency(s) ==
  LET States(nd) == {e \in DOMAIN nd.sub : IsTrue(nd.sub[e].state)}
      Inputs(nd) == UNION {{x[1].text : x \in Range(InputsOf(nd.paths[p]))} : p \in DOMAIN nd.paths}
      Loose(nd) == DOMAIN nd.sub \ (States(nd) \cup Inputs(nd))
      Missed(nd) == Cardinality(Loose(nd)) = 1
                      /\ (DOMAIN nd.paths # {} \/ Cardinality(States(nd)) >= 2)
  IN  UNION {{Warning("state-consistency", <<"nodes", n, "sub", e>>, <<>>) : e \in Loose(s.nodes[n])} :
               n \in {n \in DOMAIN s.nodes : Missed(s.nodes[n])}}

ExplicitTrigger(s) ==
  {Info("explicit-trigger", at, <<>>) :
     at \in {at \in NodePaths(s) \cup Chains(s) : PathAt(s, at).trigger = {}}}

\* A legacy input list beside a stated trigger of another kind.
InheritedRate(s) ==
  LET Stale(path) == /\ path.input # <<>>
                     /\ \E t \in path.trigger : t.kind \in {"timer", "once", "aperiodic"}
  IN  {Warning("inherited-rate", at, <<>>) :
         at \in {at \in NodePaths(s) \cup Chains(s) : Stale(PathAt(s, at))}}
=============================================================================
