--------------------------- MODULE ContractReader ----------------------------
(***************************************************************************)
(* types/src/parse.rs and apply_links: what a reader of a contract refuses *)
(* although every key and every value of it is well formed, and what it    *)
(* makes of what it accepts.  A refusal says where and which key; all of   *)
(* them are collected, the reader returns the first.  Syntax, closed sets  *)
(* of words and values read from the launch tree are left out.             *)
(***************************************************************************)
EXTENDS ContractValues

-----------------------------------------------------------------------------
(***************************************************************************)
(* types/src/parse.rs on what a contract says about faults: hazards, the   *)
(* functions they watch, modes, supervised bounds, safe states, and the    *)
(* file's names and acknowledgements.  Each operator gives the keys of one *)
(* declaration that are refused although every value is well formed.       *)
(* Spellings of earlier releases are refused where the field table says    *)
(* `removed`.                                                              *)
(***************************************************************************)
\* The reasons among some that hold: each a key and whether it is refused.
Faults(reasons) == {k \in DOMAIN reasons : reasons[k]}

-----------------------------------------------------------------------------
(***************************************************************************)
(* Bounds.                                                                 *)
(***************************************************************************)
\* BOUND_KEYS: which bounds have a map form, and which of these a parameter.
BoundForm ==
  [max_latency |-> "map", min_latency |-> "bare", max_jitter |-> "map", max_age |-> "param",
   ftti |-> "map", detection |-> "map", within |-> "map", response |-> "map"]

\* parse_derivation: what is derived says by which check.
BadDerivation(s) == Faults([by |-> s.kind = "derived" /\ s.by = {}])

\* parse_source.
BadSource(s) ==
  IF ~ s.map THEN {}
  ELSE BadDerivation(s) \cup Faults([source |-> s.kind \notin {"measured", "derived"},
               margin |-> s.kind = "measured" /\ ~ \E r \in s.margin : r >= 0,
               max |-> s.kind = "measured" /\ s.max = {} /\ s.terms = {},
               terms |-> \/ s.max # {} /\ s.terms # {}
                         \/ s.terms = {{}}])

\* parse_early and parse_resume.
BadEarly(e) == Faults([within |-> e.within <= 0, drop |-> e.drop <= 0])

BadResume(r) == Faults([after |-> r.after <= 0])

\* parse_supervise: one thing a miss starts; only a settle is observed on an
\* input, and only it is checked early.
BadSupervise(s, is_settle) ==
  Faults([reaction |-> s.reaction = {} /\ s.enters = {},
          enters |-> s.reaction # {} /\ s.enters # {},
          mechanism |-> s.mechanism = {},
          observes |-> s.observes # {} /\ ~ is_settle,
          early |-> s.early # {} /\ ~ is_settle])
  \cup UNION {BadEarly(e) : e \in s.early} \cup UNION {BadResume(r) : r \in s.resume}

\* yaml_bound, of a bound written as a map.
BadBudget(key, b) ==
  IF BoundForm[key] = "bare" THEN {key}
  ELSE Faults([duration |-> b.duration = {}, param |-> b.param # {} /\ BoundForm[key] # "param"])
       \cup UNION {BadSource(s) : s \in b.source}
       \cup UNION {BadSupervise(s, FALSE) : s \in b.supervise}

BadBudgets(budgets) == UNION {BadBudget(k, budgets[k]) : k \in DOMAIN budgets}

-----------------------------------------------------------------------------
(***************************************************************************)
(* Keys of extensions.                                                     *)
(***************************************************************************)
\* LEGACY_KEYS.
LegacyKeys == [hazard |-> {"entry_speed"}, settle |-> {"decel", "jerk"}]

\* reject_unknown_keys where an extension may have keys of its own: all pass
\* in a file that uses one, else those of vehicle.braking.
UnknownKeys(s, context, keys) ==
  IF s.uses # {} THEN {} ELSE DOMAIN keys \ LegacyKeys[context]

-----------------------------------------------------------------------------
(***************************************************************************)
(* Faults and what is done about them.                                     *)
(***************************************************************************)
Ordering == {"less_than", "at_most", "greater_than", "at_least"}

\* parse_predicate: a field path and one comparison with a constant.
BadPredicate(w) ==
  Faults([field |-> w.field = <<>> \/ "" \in Range(w.field) \/ DOMAIN w.compare = {},
          operator |-> \/ Cardinality(DOMAIN w.compare) > 1
                       \/ \E op \in DOMAIN w.compare : op \in Ordering /\ w.compare[op] # "number"])

\* parse_guard_group: redundant topics are at least two.
BadGroup(g) == Faults([all_of |-> Len(g) < 2])

\* parse_function: a list, a redundant group alone, or topics with a predicate.
BadFunction(f) ==
  IF f.list # <<>> THEN {}
  ELSE Faults([all_of |-> \/ f.all_of # {} /\ (f.of # {} \/ f.when # {})
                          \/ f.all_of = {} /\ f.of = {} /\ f.when = {},
               of |-> f.of # {} /\ (f.when = {} \/ f.of = {<<>>}),
               when |-> f.all_of = {} /\ f.of = {} /\ f.when # {}])
       \cup UNION {BadGroup(g) : g \in f.all_of}
       \cup UNION {BadPredicate(w) : w \in f.when}

\* parse_fault_kind, of a list that is not empty.
BadKinds(kinds) == Faults([on |-> kinds = <<>> \/ "overrun" \in Range(kinds)])

\* parse_hazard_guard: a group of its own is written as a function.
BadMonitors(gs) == Faults([all_of |-> \E g \in Range(gs) : g.all_of])

\* parse_hazards.
BadHazard(s, h) ==
  Faults([severity |-> h.severity # {},
          guards |-> h.guards # {},
          enters |-> h.enters # {} /\ h.reaction # {}])
  \cup UNION {BadMonitors(gs) : gs \in h.monitors}
  \cup UNION {BadKinds(kinds) : kinds \in h.on}
  \cup UNION {BadPredicate(w) : w \in h.when}
  \cup BadBudgets(h.budgets)
  \cup UnknownKeys(s, "hazard", h.keys)

\* parse_dwell_at: positive, of a parameter of a node, with nothing to miss.
BadDwell(b) ==
  Faults([duration |-> ~ \E d \in b.duration : d > 0,
          param |-> \E name \in b.param : Len(name) # 2,
          supervise |-> b.supervise # {}])
  \cup UNION {BadSource(s) : s \in b.source}

\* parse_exit: one spelling of its condition, and where it leads.
BadExit(exit) ==
  Faults([on |-> exit.on # {} /\ exit.holds # {},
          holds |-> exit # NoExit /\ exit.on = {} /\ exit.holds = {},
          to |-> exit # NoExit /\ exit.to = {}])

\* parse_modes.
BadMode(m) ==
  Faults([window |-> m.window # {}, exit |-> m.exit # NoExit /\ m.min_dwell = {}])
  \cup BadExit(m.exit)
  \cup UNION {BadDwell(b) : b \in m.min_dwell}

\* parse_on_violation.
BadViolation(v) ==
  Faults([reaction |-> v.reaction = {}, on |-> "overrun" \in v.on]) \cup BadBudgets(v.budgets)

\* parse_safe_state of a settle: its time or the keys it is derived from.
BadSettle(s, settle) ==
  Faults([duration |-> settle # Settle /\ settle.duration = {} /\ settle.keys = <<>>,
          source |-> settle.source # {} /\ settle.duration = {}])
  \cup UNION {BadSource(o) : o \in settle.source}
  \cup UNION {BadSupervise(o, TRUE) : o \in settle.supervise}
  \cup UNION {BadBudget("response", b) : b \in settle.response}
  \cup UnknownKeys(s, "settle", settle.keys)

\* parse_safe_state.
BadSafeState(s, safe) ==
  IF safe = NoSafeState THEN {}
  ELSE Faults([emits |-> safe.emits = {}]) \cup BadSettle(s, safe.settle)

-----------------------------------------------------------------------------
(***************************************************************************)
(* The file.                                                               *)
(***************************************************************************)
\* parse_lets: a name reads names declared before it, and a value of the
\* launch tree with a unit.
BadLets(lets) ==
  {lets[i].name : i \in {i \in DOMAIN lets :
                           \/ ~ LetsOf(lets[i].expr) \subseteq {lets[j].name : j \in 1..(i - 1)}
                           \/ Unitless(lets[i].expr)}}

\* parse_acknowledged: nothing is acknowledged twice or without a reason.
BadAcknowledged(list) ==
  UNION {Faults([reason |-> list[i].reason = {},
                 at |-> \E j \in 1..(i - 1) : list[j].rule = list[i].rule /\ list[j].at = list[i].at]) :
           i \in DOMAIN list}

\* parse_external_topics.
BadExternal(e) == Faults([side |-> e.side = {} /\ e.external = {}])

\* with_unknown_keys_collected: all keys nobody knows are refused at once.
BadUnknown(s) == s.unknown

\* parse_supervision_platform.
BadTick(ticks) == Faults([tick |-> \E t \in ticks : t <= 0])

\* reject_chains and its like, and what only the outermost level has.
BadLevel(s, p) ==
  Faults([severity_levels |-> s.severity_levels # {},
          let |-> p # Root /\ s.lets # <<>>,
          acknowledged |-> p # Root /\ s.acknowledged # <<>>])
  \cup BadTick(s.tick) \cup BadUnknown(s) \cup BadLets(s.lets) \cup BadAcknowledged(s.acknowledged)

-----------------------------------------------------------------------------
Refusal(at, key) == [at |-> at, key |-> key]

\* The reasons of some keys, at one place.
RefusedAt(at, keys) == {Refusal(at, k) : k \in keys}

-----------------------------------------------------------------------------
(***************************************************************************)
(* Endpoints.  Durations are milliseconds and may be nonsense.             *)
(***************************************************************************)
\* parse_input_release, of a subscriber or a server.
BadRelease(e) ==
  {k \in {"min_interarrival", "budget", "budget_period"} : \E d \in e[k] : d <= 0}
  \cup {k \in {"budget_period"} : e.budget # {} /\ e.budget_period = {}}
  \cup {k \in {"budget"} : \/ e.budget = {} /\ e.budget_period # {}
                           \/ \E q \in e.budget : \E p \in e.budget_period : q > p}

\* parse_arrival_curve.
BadCurve(e) == {k \in {"arrival_curve"} : \E c \in e.curve : c.rate <= 0 \/ c.burst = 0}

\* parse_on_timeout: one reaction, at once or after the last retry.
BadOnTimeout(e) ==
  UNION {{k \in {"reaction"} : IF o.reaction # {} THEN o.retry # {} \/ o.then # {} ELSE o.retry = {}}
         \cup {k \in {"then"} : o.then # {} /\ o.retry = {}}
         \cup UNION {{k \in {"attempts"} : r.attempts = {0}}
                     \cup {k \in {"backoff"} : \E b \in r.backoff : b < 0} : r \in o.retry} :
           o \in e.on_timeout}

\* parse_endpoint_props: what one endpoint may not say at once.
Contradictory(e) ==
  {k \in {"min_interarrival"} :
     \E gap \in e.min_interarrival : \E need \in e.min_rate : need > 0 /\ gap * need > 1000}
  \cup {k \in {"arrival_curve"} : \E c \in e.curve : \E need \in e.min_rate : c.rate < need}
  \cup {k \in {"aperiodic"} : IsTrue(e.aperiodic) /\ e.min_rate # {}}
  \cup {k \in {"buffer"} : e.buffer # {} /\ ~ IsTrue(e.state)}
  \cup {k \in {"timeout"} : \E d \in e.timeout : d <= 0}

\* parse_endpoints: what belongs to the other sides only.
Misplaced(side, e) ==
  {k \in {"curve", "min_interarrival", "budget", "budget_period", "link"} : side # "sub" /\ e[k] # {}}
  \cup {k \in {"call", "timeout", "on_timeout", "on_rejected"} : side # "cli" /\ e[k] # {}}
  \cup {k \in {"aperiodic"} : side # "pub" /\ e[k] # {}}

BadEndpoint(side, e) ==
  BadRelease(e) \cup BadCurve(e) \cup BadOnTimeout(e) \cup Contradictory(e) \cup Misplaced(side, e)
  \cup UNION {BadViolation(v) : v \in e.on_violation}
  \cup {k \in {"ingress", "on_demand"} : e[k] # {}}

\* parse_srv_endpoints.
BadServer(e) == BadRelease(e) \cup {k \in {"stale_after"} : \E d \in e.stale_after : d <= 0}

\* validate_endpoint_uniqueness.
Twice(nd) ==
  LET sides == <<DOMAIN nd.pub, DOMAIN nd.sub, DOMAIN nd.srv, DOMAIN nd.cli>>
  IN  UNION {sides[i] \cap sides[j] : <<i, j>> \in {x \in (1..4) \X (1..4) : x[1] < x[2]}}

-----------------------------------------------------------------------------
(***************************************************************************)
(* Paths.                                                                  *)
(***************************************************************************)
\* parse_trigger, of a timer.
BadTimer(t) ==
  {k \in {"rate_hz"} : t.rate <= 0}
  \cup {k \in {"jitter"} : t.rate > 0 /\ \E j \in t.jitter : j * t.rate >= 1000}

\* parse_sync.
BadSync(sync) ==
  {k \in {"timeout"} : sync.policy = "timeout_any" /\ sync.timeout = {}}
  \cup {k \in {"max_interval"} : sync.policy # "timeout_any" /\ sync.max_interval = {}}

\* parse_drop_spec.
BadDrop(d) == {k \in {"max_count"} : \E c \in d.max_count : c.w = 0}

\* How often each text is in a list.
HowOften(texts) == [x \in Range(texts) |-> Cardinality({i \in DOMAIN texts : texts[i] = x})]

\* parse_path_decl: the two ways to state an input agree, and what is
\* synchronised are at least two inputs.
BadPath(s, p) ==
  UNION {BadTimer(t) : t \in {t \in p.trigger : t.kind = "timer"}}
  \cup {k \in {"trigger"} : \E t \in p.trigger : t.kind = "spontaneous"}
  \cup UNION {{k \in {"trigger.input"} : p.input # <<>> /\ HowOften(t.eps) # HowOften(p.input)} :
                t \in {t \in p.trigger : t.kind = "input"}}
  \cup UNION {BadSync(sync) : sync \in p.sync}
  \cup {k \in {"sync"} : p.sync # {} /\ Len(InputsOf(p)) < 2}
  \cup UNION {BadDrop(d) : d \in p.drop}
  \cup BadBudgets(p.budgets)
  \cup BadSafeState(s, p.safe_state)

\* parse_topic_decl.
BadTopic(t) == {k \in {"type"} : t.type = <<>>} \cup UNION {BadDrop(d) : d \in t.drop}

-----------------------------------------------------------------------------
(***************************************************************************)
(* Links.                                                                  *)
(***************************************************************************)
\* parse_links: a monitor starts one thing.
BadLink(l) == {k \in {"monitor"} : \E m \in l.monitor : (m.reaction = {}) = (m.enters = {})}

\* The link a name means in a scope: that of the scope itself, else of the
\* nearest scope around it.
LinkNamed(m, p, name) ==
  LET owners == {k \in 0..Len(p) : name \in DOMAIN m[SubSeq(p, 1, k)].links}
  IN  {m[SubSeq(p, 1, Max(owners))].links[name] : k \in {k \in {1} : owners # {}}}

\* apply_links refuses a link nobody declares and a second number beside it.
BadUse(m, p, e) ==
  {k \in {"link"} : \E name \in e.link : LinkNamed(m, p, name) = {}}
  \cup {k \in {"max_transport"} : e.link # {} /\ e.transport # {}}

\* apply_links: the hop of a subscriber is charged what its link takes.
Charged(m, p, e) ==
  [e EXCEPT !.transport = @ \cup {l.transport : l \in UNION {LinkNamed(m, p, n) : n \in e.link}}]

-----------------------------------------------------------------------------
(***************************************************************************)
(* The whole contract.                                                     *)
(***************************************************************************)
\* parse_nodes.
BadNode(s, nd) ==
  LET Side(side, endpoints) ==
        UNION {RefusedAt(<<side, e>>, BadEndpoint(side, endpoints[e])) : e \in DOMAIN endpoints}
  IN  UNION {Side("pub", nd.pub), Side("sub", nd.sub), Side("cli", nd.cli),
             UNION {RefusedAt(<<"srv", e>>, BadServer(nd.srv[e])) : e \in DOMAIN nd.srv},
             UNION {RefusedAt(<<"paths", p>>, BadPath(s, nd.paths[p])
                                                \cup {k \in {"drop"} : nd.paths[p].drop # {}}) :
                      p \in DOMAIN nd.paths},
             RefusedAt(<<>>, Twice(nd))}

\* parse_manifest_yaml and apply_links on one scope; a condition on the file
\* itself selects nothing.
BadScope(m, p) ==
  LET s == m[p]
      Each(section, Bad(_)) ==
        UNION {RefusedAt(<<section, n>>, Bad(s[section][n])) : n \in DOMAIN s[section]}
  IN  UNION {UNION {BadNode(s, s.nodes[n]) : n \in DOMAIN s.nodes},
             Each("links", BadLink),
             Each("topics", BadTopic),
             Each("paths", LAMBDA c : BadPath(s, c)),
             Each("hazards", LAMBDA h : BadHazard(s, h)),
             Each("functions", BadFunction),
             Each("modes", BadMode),
             Each("external_topics", BadExternal),
             UNION {UNION {RefusedAt(<<"nodes", n, e>>, BadUse(m, p, s.nodes[n].sub[e])) :
                             e \in DOMAIN s.nodes[n].sub} : n \in DOMAIN s.nodes},
             RefusedAt(<<>>, BadLevel(s, p)),
             RefusedAt(<<>>, {k \in {"if"} : p = Root /\ ~ Unconditional(s.when)})}

Refusals(m) == UNION {BadScope(m, p) : p \in DOMAIN m}

\* parse_arg_decl: the values an argument may have, none for a free text.  A
\* type that is stated decides, also against choices beside it.
ArgValues(decl) ==
  IF decl.type = {"bool"} THEN {<<Word("true")>>, <<Word("false")>>}
  ELSE IF decl.type # {} THEN {} ELSE decl.choices

\* parse_external_topics: the side of the topic that is elsewhere.
ReadExternal(e) == [e EXCEPT !.side = IF @ # {} THEN @ ELSE e.external, !.external = {}]

\* parse_manifest_str_with_values.
ReadContract(m) ==
  [p \in DOMAIN m |->
     [m[p] EXCEPT
        !.args = [a \in DOMAIN @ |-> ArgValues(@[a])],
        !.external_topics = [t \in DOMAIN @ |-> ReadExternal(@[t])],
        !.nodes = [n \in DOMAIN @ |->
                     [@[n] EXCEPT !.sub = [e \in DOMAIN @ |-> Charged(m, p, @[e])]]]]]
=============================================================================
