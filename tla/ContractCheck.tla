---------------------------- MODULE ContractCheck -----------------------------
(***************************************************************************)
(* The way of a contract through types/src and check/src: it is read, its  *)
(* arguments are put in, its conditions are decided, what then dangles is  *)
(* cleaned up, and the rules report what they find.  A contract may also   *)
(* be checked as it is read, its conditions undecided; that is when        *)
(* satisfiability has something to say.  A contract of an earlier release  *)
(* is migrated first.  One with values to compute is read twice; one whose *)
(* values come from a launch tree is handed to the consumer that has it.   *)
(***************************************************************************)
EXTENDS Conditions, Migration, ContractMeaning, Satisfiability, ContractRules

\* What contracts there are, and each as it is written, with the layout of its
\* text, the values given to its arguments, the keys written as expressions
\* (whatever the tree has there), the launch tree they are read from and the
\* way it takes: [tree, layout, given, values, lookup, way].
CONSTANTS Contracts, Contract(_)

ASSUME ContractsAreTrees ==
  \A c \in Contracts :
    /\ Contract(c).way \in {"raw", "resolved", "launched", "old"}
    /\ Contract(c).way \in {"raw", "resolved"} => ~ Contract(c).lookup.tree
    /\ \A p \in DOMAIN Contract(c).tree : p # Root => Front(p) \in DOMAIN Contract(c).tree

VARIABLES source,    \* the contract chosen
          manifest,  \* what it has become
          stage,     \* what has been done to it
          values,    \* Resolution
          graph,     \* DataflowGraph
          next,      \* the value that is evaluated next, the rule that runs next
          found      \* CheckContext.diagnostics

vars == <<source, manifest, stage, values, graph, next, found>>

\* default_rules.
Rules == <<"endpoint-unique", "wiring", "qos-compat", "qos-match", "rate-hierarchy",
           "chain-latency", "link-unsourced", "transport-inline", "causal-dag", "drop-sanity",
           "service-wiring", "service-type", "dangling-entity", "satisfiability",
           "state-consistency", "explicit-trigger", "inherited-rate", "once-durability",
           "sync-feasibility", "queue-drain-rate", "jitter-range", "drop-tightness">>

Inline(m) == [n \in Includes(m, Root) |-> m[<<n>>]]

\* What one rule reports of the outermost scope.
Report(rule, s, includes, g) ==
  CASE rule = "endpoint-unique" -> EndpointUnique(s)
    [] rule = "wiring" -> Wiring(s)
    [] rule = "qos-compat" -> QosCompat(s)
    [] rule = "qos-match" -> QosMatch(s)
    [] rule = "rate-hierarchy" -> RateHierarchy(s)
    [] rule = "chain-latency" -> ScopeBudget(s, includes)
    [] rule = "link-unsourced" -> LinkSource(s)
    [] rule = "transport-inline" -> TransportInline(s)
    [] rule = "causal-dag" -> CausalDag(g)
    [] rule = "drop-sanity" -> DropSanity(s)
    [] rule = "service-wiring" -> ServiceWiring(s)
    [] rule = "service-type" -> ServiceType(s)
    [] rule = "dangling-entity" -> DanglingEntity(s)
    [] rule = "satisfiability" -> Satisfiability(s)
    [] rule = "state-consistency" -> StateConsistency(s)
    [] rule = "explicit-trigger" -> ExplicitTrigger(s)
    [] rule = "inherited-rate" -> InheritedRate(s)
    [] rule = "once-durability" -> OnceDurability(s)
    [] rule = "sync-feasibility" -> SyncFeasibility(s)
    [] rule = "queue-drain-rate" -> QueueDrainRate(s)
    [] rule = "jitter-range" -> JitterRange(s)
    [] rule = "drop-tightness" -> DropTightness(s, g)

-----------------------------------------------------------------------------
Init ==
  /\ \E c \in Contracts : source = Contract(c)
  /\ manifest = source.tree
  /\ stage = IF source.way = "old" THEN "old" ELSE "written"
  /\ values = NoResolution(source.tree[Root].lets, source.values)
  /\ graph = {}
  /\ next = 1
  /\ found = {}

Refuse(from, to) ==
  /\ stage = from
  /\ stage' = to
  /\ UNCHANGED <<source, manifest, values, graph, next, found>>

\* migrate_str.
Migrate ==
  /\ stage = "old"
  /\ CanMigrate(manifest, source.layout)
  /\ manifest' = Migrated(manifest, source.layout)
  /\ stage' = "migrated"
  /\ UNCHANGED <<source, values, graph, next, found>>

RefuseToMigrate == Refuse("old", "left") /\ ~ CanMigrate(manifest, source.layout)

\* What comes of a contract that has been read.
AfterReading ==
  CASE source.way = "raw" -> "filtered"
    [] source.way = "resolved" -> "read"
    [] source.way = "launched" -> "launched"

Lets == source.tree[Root].lets

IsComputed == source.values # <<>> \/ Lets # <<>>

\* A reading with the numbers that are known.
Readable(m) == Refusals(m) = {} /\ BadValues(source.values, Lets) = {}

\* parse_manifest_str and resolve_manifest_str: the first reading.
Read ==
  LET m == WithValues(manifest, source.values, values.values)
  IN  /\ stage = "written"
      /\ Readable(m)
      /\ manifest' = IF IsComputed THEN manifest ELSE ReadContract(m)
      /\ stage' = IF IsComputed THEN "evaluating" ELSE AfterReading
      /\ UNCHANGED <<source, values, graph, next, found>>

RefuseToRead ==
  /\ Refuse("written", "refused")
  /\ ~ Readable(WithValues(manifest, source.values, values.values))

\* resolve_values.
EvaluateLets ==
  /\ stage = "evaluating"
  /\ next <= Len(Lets)
  /\ values' = EvaluateLet(values, Lets[next], source.lookup)
  /\ next' = next + 1
  /\ UNCHANGED <<source, manifest, stage, graph, found>>

EvaluateValues ==
  /\ stage = "evaluating"
  /\ next > Len(Lets)
  /\ next <= Len(Lets) + Len(source.values)
  /\ values' = EvaluateValue(values, source.values[next - Len(Lets)], source.lookup)
  /\ next' = next + 1
  /\ UNCHANGED <<source, manifest, stage, graph, found>>

IsEvaluated == next > Len(Lets) + Len(source.values)

\* The second reading.
ReadAgain ==
  LET m == WithValues(manifest, source.values, values.values)
  IN  /\ stage = "evaluating"
      /\ IsEvaluated
      /\ Readable(m)
      /\ manifest' = ReadContract(m)
      /\ stage' = AfterReading
      /\ next' = 1
      /\ UNCHANGED <<source, values, graph, found>>

RefuseToReadAgain ==
  /\ Refuse("evaluating", "refused again")
  /\ IsEvaluated
  /\ ~ Readable(WithValues(manifest, source.values, values.values))

\* resolve_args and substitute_manifest with what it returns.
Substitute ==
  /\ stage = "read"
  /\ CanResolve(manifest[Root].args, source.given)
  /\ Resolvable(manifest[Root], ResolveArgs(manifest[Root].args, source.given))
  /\ manifest' = SubstituteManifest(manifest, ResolveArgs(manifest[Root].args, source.given))
  /\ stage' = "substituted"
  /\ UNCHANGED <<source, values, graph, next, found>>

RefuseArgs ==
  /\ Refuse("read", "no such argument")
  /\ ~ CanResolve(manifest[Root].args, source.given)

RefuseReference ==
  /\ Refuse("read", "no such argument")
  /\ CanResolve(manifest[Root].args, source.given)
  /\ ~ Resolvable(manifest[Root], ResolveArgs(manifest[Root].args, source.given))

Filter ==
  /\ stage = "substituted"
  /\ manifest' = FilterManifest(manifest)
  /\ stage' = "filtered"
  /\ UNCHANGED <<source, values, graph, next, found>>

\* run_checks.
Build ==
  /\ stage = "filtered"
  /\ graph' = DataflowGraph(manifest[Root], Includes(manifest, Root))
  /\ stage' = "checking"
  /\ UNCHANGED <<source, manifest, values, next, found>>

CheckRule ==
  /\ stage = "checking"
  /\ next <= Len(Rules)
  /\ found' = found \cup Report(Rules[next], manifest[Root], Inline(manifest), graph)
  /\ next' = next + 1
  /\ UNCHANGED <<source, manifest, stage, values, graph>>

Finish ==
  /\ stage = "checking"
  /\ next > Len(Rules)
  /\ stage' = "done"
  /\ UNCHANGED <<source, manifest, values, graph, next, found>>

Returned ==
  /\ stage \in {"migrated", "left", "launched", "done", "refused", "refused again", "no such argument"}
  /\ UNCHANGED vars

Next == \/ Migrate \/ RefuseToMigrate
        \/ Read \/ RefuseToRead
        \/ EvaluateLets \/ EvaluateValues \/ ReadAgain \/ RefuseToReadAgain
        \/ Substitute \/ RefuseArgs \/ RefuseReference
        \/ Filter \/ Build \/ CheckRule \/ Finish
        \/ Returned

Spec == Init /\ [][Next]_vars

-----------------------------------------------------------------------------
(***************************************************************************)
(* Properties.                                                             *)
(***************************************************************************)
Written == ReadContract(source.tree)

Checked == stage = "done"

Failed == \E d \in found : d.severity = "error"

\* What a condition without references says, told by its outermost
\* connective: `or` before `and`, both outside of parentheses and quotes.
Says(s) ==
  LET says[i \in 1..(Len(s) + 1), j \in 0..Len(s)] ==
        LET text == SubSeq(s, i, j)
            ors == {i - 1 + k : k \in TopLevel(text, "or")}
            ands == {i - 1 + k : k \in TopLevel(text, "and")}
            Side(from, to) == Literal(SubSeq(text, from, to))
        IN  IF ors # {} THEN \E k \in ors : says[i, k - 1] \/ says[k + 1, j]
            ELSE IF ands # {} THEN \A k \in ands : says[i, k - 1] /\ says[k + 1, j]
            ELSE IF text # <<>> /\ text[1] = Word("(") THEN says[i + 1, j - 1]
            ELSE IF \E k \in DOMAIN text : text[k] \in {Word("=="), Word("!=")}
            THEN LET k == CHOOSE k \in DOMAIN text : text[k] \in {Word("=="), Word("!=")}
                 IN  (Side(1, k - 1) = Side(k + 1, Len(text))) = (text[k] = Word("=="))
            ELSE text = <<Word("true")>>
  IN  says[1, Len(s)]

Holds(when, args) ==
  /\ \A c \in when.if : Says(SubstituteText(c, args))
  /\ \A c \in when.unless : ~ Says(SubstituteText(c, args))

Closed(when) == \A c \in when.if \cup when.unless : \A t \in Range(c) : ~ t.var

\* The nodes and includes of the file that its arguments remove.
Removed(m, args) ==
  {n \in DOMAIN m[Root].nodes : ~ Holds(m[Root].nodes[n].when, args)}
  \cup {n \in Includes(m, Root) : ~ Holds(m[<<n>>].when, args)}

ReferencesAreOutside(m) == \A p \in DOMAIN m : p # Root => Closed(m[p].when)

\* What is there after filtering is what the conditions say of the values the
\* arguments were given: nodes, includes and event chains by their own
\* condition, a topic if besides an end of it is left or lies elsewhere.
ConditionsDecide ==
  Checked /\ source.way = "resolved" /\ ReferencesAreOutside(Written) =>
    LET was == Written[Root]
        is == manifest[Root]
        args == source.given
        gone == Removed(Written, args)
        Left(refs) == \E r \in Range(refs) : Owner(SubstituteText(r, args)) \cap gone = {}
    IN  /\ DOMAIN is.nodes = DOMAIN was.nodes \ gone
        /\ Includes(manifest, Root) = Includes(Written, Root) \ gone
        /\ DOMAIN is.paths = {p \in DOMAIN was.paths : Holds(was.paths[p].when, args)}
        /\ DOMAIN is.topics = {t \in DOMAIN was.topics :
                                 /\ Holds(was.topics[t].when, args)
                                 /\ \/ Left(was.topics[t].pub)
                                    \/ Left(was.topics[t].sub)
                                    \/ was.topics[t].external # {}}

\* Of the ends of a topic only those go that belong to something a condition
\* removed; an end that names what was never declared stays for the rules, and
\* the others keep their order.
OnlyRemovedEndsGo ==
  Checked /\ source.way = "resolved" /\ ReferencesAreOutside(Written) =>
    LET was == SubstituteScope(Written[Root], source.given)
        gone == Removed(Written, source.given)
        Kept(refs) == SelectSeq(refs, LAMBDA r : Owner(r) \cap gone = {})
    IN  \A t \in DOMAIN manifest[Root].topics :
          /\ manifest[Root].topics[t].pub = Kept(was.topics[t].pub)
          /\ manifest[Root].topics[t].sub = Kept(was.topics[t].sub)

\* docs/launch-manifest.md:1293, :1666: the references in the conditions of
\* an include are resolved like all others before the condition is decided.
ConditionalIncludesFollowArgs ==
  Checked /\ source.way = "resolved" =>
    \A n \in Includes(Written, Root) :
      n \in Includes(manifest, Root) <=> Holds(Written[<<n>>].when, source.given)

-----------------------------------------------------------------------------
\* The file under one assignment, filtered.
Under(v) == FilterManifest(SubstituteManifest(manifest, v))

\* The rule can read every condition: each is a chain of comparisons of
\* finite arguments with one kind of connective and without parentheses.
IsClear(s) ==
  LET texts == UNION {s.nodes[n].when.if \cup s.nodes[n].when.unless : n \in DOMAIN s.nodes}
      domains == Restrict(s.args, FiniteArgs(s))
  IN  /\ \A n \in DOMAIN s.nodes : s.nodes[n].when.if = {} \/ s.nodes[n].when.unless = {}
      /\ \A c \in texts : /\ TopLevel(c, "and") = {} \/ TopLevel(c, "or") = {}
                          /\ \A v \in Assignments(s) : Translated(domains, v, c).known
                          /\ \A i \in DOMAIN c : c[i].text \in DOMAIN domains => c[i].var

\* Satisfiability, read off the undecided conditions, foretells what filtering
\* does: a topic that somebody always listens to is reported exactly if some
\* valid values of the arguments leave it without a publisher, and a node
\* exactly if no values keep it.
SatisfiabilityForetells ==
  Checked /\ source.way = "raw" /\ IsClear(manifest[Root]) /\ FiniteArgs(manifest[Root]) # {} =>
    LET s == manifest[Root]
        IsHeard(t) == \E r \in Range(s.topics[t].sub) :
                        /\ \E n \in Owner(r) \cap DOMAIN s.nodes : Unconditional(s.nodes[n].when)
                        /\ \A e \in Subscriber(s, r) : ~ IsTrue(e.state)
        Starved(t) == \E v \in Assignments(s) : Under(v)[Root].topics[t].pub = <<>>
        Lost(n) == \A v \in Assignments(s) : n \notin DOMAIN Under(v)[Root].nodes
    IN  /\ \A t \in DOMAIN s.topics :
             Unconditional(s.topics[t].when) /\ IsHeard(t) /\ s.topics[t].pub # <<>> =>
               (Error("satisfiability", <<"topics", t>>, <<>>) \in found <=> Starved(t))
        /\ \A n \in DOMAIN s.nodes :
             Warning("satisfiability", <<"nodes", n>>, <<>>) \in found <=> Lost(n)

-----------------------------------------------------------------------------
\* <<a, b, topic, subscriber>>: what a publishes wakes b.
Hops(s, includes) ==
  UNION {UNION {{<<a, b, t, q>> : a \in Owner(p) \cap Vertices(s, includes),
                                  b \in Owner(q) \cap Vertices(s, includes)} :
                  p \in Range(s.topics[t].pub),
                  q \in {r \in Range(s.topics[t].sub) :
                           \A e \in Subscriber(s, r) : e.state # {TRUE}}} :
           t \in DOMAIN s.topics}

\* All sequences of hops, one after the other, that meet no owner twice.
Routes(hops) ==
  LET Continues(r, h) == /\ h[1] # h[2]
                         /\ \A i \in DOMAIN r : h[2] \notin {r[i][1], r[i][2]}
                         /\ r # <<>> => r[Len(r)][2] = h[1]
      routes[k \in Nat] ==
        IF k = 0 THEN {<<>>}
        ELSE LET shorter == routes[k - 1]
             IN  shorter \cup UNION {{Append(r, h) : h \in {h \in hops : Continues(r, h)}} : r \in shorter}
  IN  routes[Cardinality({h[1] : h \in hops})] \ {<<>>}

CycleFound == Error("causal-dag", <<"graph">>, <<>>) \in found

\* A loop is reported exactly if somebody may be woken again by what it
\* caused itself; an end that only keeps state wakes nobody.
LoopsAreReported ==
  Checked =>
    LET hops == Hops(manifest[Root], Includes(manifest, Root))
        Closes(h) == \/ h[1] = h[2]
                     \/ \E r \in Routes(hops) : r[1][1] = h[2] /\ r[Len(r)][2] = h[1]
    IN  CycleFound <=> \E h \in hops : Closes(h)

\* What a hop takes: the number of the link it crosses, as the file declares
\* it, else its own, else the topic's.
HopTime(h) ==
  LET file == source.tree[Root]
      own == UNION {IF e.link # {} THEN {file.links[l].transport : l \in e.link} ELSE e.transport :
                      e \in Subscriber(file, h[4])}
  IN  Max({0} \cup EdgeTransport(own, manifest[Root].topics[h[3]].transport))

OwnerTime(n) ==
  Max({0} \cup UNION {UNION {manifest[Root].nodes[m].paths[p].max_latency :
                               p \in DOMAIN manifest[Root].nodes[m].paths} :
                        m \in {n} \cap DOMAIN manifest[Root].nodes}
          \cup UNION {UNION {manifest[<<m>>].paths[p].max_latency : p \in DOMAIN manifest[<<m>>].paths} :
                        m \in {n} \cap Includes(manifest, Root)})

RouteTime(r) ==
  OwnerTime(r[1][1]) + MapThenSumSet(LAMBDA i : HopTime(r[i]) + OwnerTime(r[i][2]), DOMAIN r)

\* docs/launch-manifest.md:2610: the flat sum is conservative.  An event chain
\* whose budget no rule complains about has room for every route there is,
\* with the number of every link and of every included scope on it.
BudgetCoversEveryRoute ==
  Checked /\ ~ CycleFound =>
    \A p \in DOMAIN manifest[Root].paths : \A budget \in manifest[Root].paths[p].max_latency :
      Warning("chain-latency", <<"paths", p>>, <<>>) \notin found =>
        \A r \in Routes(Hops(manifest[Root], Includes(manifest, Root))) : RouteTime(r) <= budget

\* A contract without an error delivers: whatever a publisher of a topic with
\* a rate promises is, after the losses the topic allows, at least what each
\* subscriber needs.
RatesAddUp ==
  Checked /\ ~ Failed =>
    LET s == manifest[Root]
    IN  \A t \in DOMAIN s.topics :
          s.topics[t].rate # {} =>
            \A p \in UNION {Publisher(s, r) : r \in Range(s.topics[t].pub)},
               q \in UNION {Subscriber(s, r) : r \in Range(s.topics[t].sub)} :
              \A promise \in p.min_rate, need \in q.min_rate :
                \A c \in {[n |-> 0, w |-> 1]} \cup UNION {d.max_count : d \in s.topics[t].drop} :
                  promise * (c.w - c.n) >= need * c.w

\* drop_tightness.rs:64-65: a chain may write the name of a topic with or
\* without the slash.  A part looser than the whole is reported exactly of the
\* topics an input or an output of the event chain means, and of those that
\* lie on some way from the one to the other.  A topic is meant by its name,
\* and by its other spelling unless that is the name of a topic too.
LooserPartsAreReported ==
  Checked /\ ~ CycleFound =>
    LET s == manifest[Root]
        routes == Routes(Hops(s, Includes(manifest, Root)))
        Means(text, t) == \/ text = <<Word(t)>>
                          \/ /\ \E u \in {u \in Range(NameOrder) : Bare(u) = Bare(t)} : text = <<Word(u)>>
                             /\ \A u \in DOMAIN s.topics : text # <<Word(u)>>
        Meant(texts) == {t \in DOMAIN s.topics : \E i \in DOMAIN texts : Means(texts[i], t)}
        Ends(texts, side) == UNION {UNION {Owner(r) : r \in Range(s.topics[t][side])} : t \in Meant(texts)}
        OnTheWay(inputs, outputs, t) ==
          \/ t \in Meant(inputs) \cup Meant(outputs)
          \/ \E r \in routes : /\ r[1][1] \in Ends(inputs, "sub") /\ r[Len(r)][2] \in Ends(outputs, "pub")
                               /\ \E i \in DOMAIN r : r[i][3] = t
        Losses(drop) == UNION {d.max_count : d \in drop}
        Looser(p, t) == \E part \in Losses(s.topics[t].drop) : \E whole \in Losses(s.paths[p].drop) :
                          part.n * whole.w > whole.n * part.w
    IN  \A p \in DOMAIN s.paths, t \in DOMAIN s.topics :
          Warning("drop-tightness", <<"paths", p>>, <<Word(t)>>) \in found
            <=> OnTheWay(InputsOf(s.paths[p]), s.paths[p].output, t) /\ Looser(p, t)

-----------------------------------------------------------------------------
\* What an expression says, the entries of `let` read in the places of their
\* names: [dim, number], if it says anything.
RECURSIVE Denoted(_, _)
Denoted(e, node) ==
  CASE e.op = "let" -> UNION {Denoted(l.expr, {}) : l \in {l \in Range(Lets) : l.name = e.name}}
    [] IsLeaf(e) ->
         {[dim |-> TheOnly(DimOf(e, <<>>)), number |-> x] : x \in NumberOf(Eval(e, <<>>, source.lookup, node))}
    [] OTHER ->
         LET sides == Denoted(e.lhs, node) \X Denoted(e.rhs, node)
             Where(fits, Dim(_, _)) == {[dim |-> Dim(s[1].dim, s[2].dim),
                                         number |-> Combine(e.op, Worth(s[1].number), Worth(s[2].number)).number] :
                                          s \in fits}
         IN  CASE e.op = "*" -> Where(sides, Times)
               [] e.op = "/" -> Where({s \in sides : s[2].number[1] # 0}, Per)
               [] OTHER -> Where({s \in sides : s[1].dim = s[2].dim}, LAMBDA d, f : d)

\* The number a value has for its key.
Said(value) ==
  {d.number : d \in {d \in Denoted(value.expr, NodeOf(value)) :
                       d.dim = value.want /\ InRange(value.want, d.number)}}

\* The leaves an expression comes down to.
RECURSIVE Sources(_)
Sources(e) ==
  UNION {IF l.op = "let" THEN {l} \cup UNION {Sources(d.expr) : d \in {d \in Range(Lets) : d.name = l.name}}
         ELSE {l} : l \in Leaves(e)}

\* docs/format-reference.md:523: the consumer evaluates every reference and
\* hands each rule a plain number.  A contract with references is read as the
\* one that has their numbers written out, and lacks the keys whose number is
\* not known or not fit for them; it is not refused for anything else, but for
\* keys whose absence the first reading does not forgive.  What lacks its
\* number for another reason than that there is no launch tree has an error.
ReferencesReadLikeNumbers ==
  LET plain == WithValues(source.tree, source.values,
                          [k \in {v.at : v \in Range(source.values)} |->
                             UNION {Said(v) : v \in {v \in Range(source.values) : v.at = k}}])
      blamed == {e.at : e \in values.errors}
      Excused(v) == \E l \in Sources(v.expr) : \/ l.op = "let" /\ <<"let", l.name>> \in blamed
                                               \/ IsReference(l) /\ ~ source.lookup.tree
      IsRead == stage = AfterReading /\ source.way \in {"launched", "raw"}
  IN  /\ IsComputed /\ IsRead =>
           /\ Refusals(plain) = {}
           /\ manifest = ReadContract(plain)
           /\ \A v \in Range(source.values) : Said(v) = {} => v.at \in blamed \/ Excused(v)
           /\ blamed # {} => \/ \E v \in Range(source.values) : Said(v) = {}
                            \/ \E l \in Range(Lets) : Denoted(l.expr, {}) = {}
      /\ stage = "refused again" => Refusals(plain) # {}
      /\ IsComputed /\ stage = "refused" =>
           \/ BadValues(source.values, Lets) # {} \/ BadLets(Lets) # {}
           \/ Refusals(plain) # {}
           \/ \E v \in Range(source.values) : v.at[4] \in {"sync.max_interval", "budget", "budget_period"}

-----------------------------------------------------------------------------
Skipped(rewrites) == {r.at : r \in {r \in rewrites : r.skip}}

\* Whether a reader refuses a contract for keys alone that have another name
\* now, and for what it misses because of that.
RefusedAsOld(m) ==
  \A r \in Refusals(m) :
    \/ r.key \in {"severity", "severity_levels", "guards", "window", "ingress", "on_demand",
                  "trigger", "drop", "all_of"}
    \/ r.key = "exit" /\ Refusal(r.at, "window") \in Refusals(m)

LinkedEnds(m) ==
  UNION {UNION {{e \in Range(m[p].nodes[n].sub) : e.link # {}} : n \in DOMAIN m[p].nodes} : p \in DOMAIN m}

\* migrate.rs:1-19: of the spellings a rewrite knows none is left in a file
\* that was migrated, but those it was not able to edit, and those it reports
\* again when it is run again, when it edits nothing.  If it could edit all of
\* them and they were all that a reader refused, the result can be read.
NothingOldIsLeft ==
  stage = "migrated" =>
    LET again == Rewrites(manifest, source.layout)
        left == Skipped(again)
        Excuses(place) ==
          IF Len(place) = 5 /\ place[4] = "group"
          THEN {place, <<place[1], "functions">>, <<place[1], "hazards", place[3], "guards">>}
          ELSE {place}
    IN  /\ Edits(again) = {}
        /\ \A place \in OldSpellings(manifest) : Excuses(place) \cap left # {}
        /\ left = {} /\ RefusedAsOld(source.tree) /\ LinkedEnds(manifest) = {} =>
             Refusals(manifest) = {}

\* migrate.rs:1361, :1399, :1501: a migrated contract says what it said, and
\* what was acknowledged is acknowledged still.
MigrationPreservesMeaning ==
  stage = "migrated" =>
    LET was == source.tree
        is == manifest
        old == was[Root].acknowledged
        new == is[Root].acknowledged
    IN  /\ Meaning(is) = Meaning(was)
        /\ \A p \in DOMAIN was :
             /\ was[p].uses \subseteq is[p].uses
             /\ \A f \in DOMAIN was[p].functions : is[p].functions[f] = was[p].functions[f]
        /\ Len(new) = Len(old)
        /\ Skipped(Rewrites(was, source.layout)) = {} =>
             \A i \in DOMAIN old : Leads(was, old[i].at) => Leads(is, new[i].at)
=============================================================================
