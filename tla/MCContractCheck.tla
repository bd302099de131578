--------------------------- MODULE MCContractCheck ---------------------------
(***************************************************************************)
(* Small contracts, one family for each question: what conditions leave,   *)
(* what satisfiability foretells, routes, rates, losses, and what the      *)
(* reader or the arguments refuse.                                         *)
(***************************************************************************)
EXTENDS ContractCheck

-----------------------------------------------------------------------------
(***************************************************************************)
(* Contracts of earlier releases, one family for each kind of spelling     *)
(* that has changed, at the root and in an include, in every form of the   *)
(* text that decides whether a rewrite can be made.                        *)
(***************************************************************************)
W(w) == Word(w)

NoLaunchTree == [tree |-> FALSE, value |-> <<>>]

C(tree, given, way) ==
  [tree |-> tree, layout |-> PlainLayout, given |-> given, values |-> <<>>, lookup |-> NoLaunchTree, way |-> way]

Old(tree, layout) == [C(tree, <<>>, "old") EXCEPT !.layout = layout]

MCBare(t) == CASE t = "/t" -> "t" [] t = "/u" -> "u" [] t = "/v" -> "v" [] OTHER -> t

MCOptional(S) == {{}} \cup {{v} : v \in S}

\* A file that is one level, or has it as an include.
Levelled(inside, s) ==
  IF inside THEN [p \in {Root, <<"inc">>} |-> IF p = Root THEN Scope ELSE s]
  ELSE [p \in {Root} |-> s]

LevelOf(inside) == IF inside THEN <<"inc">> ELSE Root

-----------------------------------------------------------------------------
(***************************************************************************)
(* Hazards: what they start, how bad they are, what they watch.            *)
(***************************************************************************)
Topic(f) == [all_of |-> FALSE, members |-> <<f>>]
Group(f, g) == [all_of |-> TRUE, members |-> <<f, g>>]

Watch == {{}, {<<Topic("t")>>}, {<<Group("t", "u"), Topic("t"), Group("u", "v")>>}}

TheHazard(reaction, enters, integrity, severity, monitors, guards) ==
  [Hazard EXCEPT !.reaction = reaction, !.enters = enters, !.integrity = integrity,
                 !.severity = severity, !.monitors = monitors, !.guards = guards]

Hazardous(uses, levels, old_levels, functions, h) ==
  [Scope EXCEPT !.uses = uses, !.integrity_levels = levels, !.severity_levels = old_levels,
                !.functions = functions, !.modes = [m |-> Mode],
                !.hazards = [h |-> h, i |-> [Hazard EXCEPT !.guards = {<<Group("u", "v")>>}]]]

NoFunction == <<>>
Taken == [h_all_of |-> [Function EXCEPT !.list = <<"v">>], h_all_of_2 |-> [Function EXCEPT !.list = <<"u">>]]

Hazards ==
  {"hazards"} \X BOOLEAN \X MCOptional({"m", "c"}) \X MCOptional({"m"}) \X MCOptional({"b"}) \X MCOptional({"c"})
    \X Watch \X Watch \X {NoFunction, Taken}

HazardContract(c) ==
  Old(Levelled(c[2], Hazardous({}, {}, {}, c[9], TheHazard(c[3], c[4], c[5], c[6], c[7], c[8]))), PlainLayout)

Scales ==
  {"scales"} \X BOOLEAN \X (SUBSET {"iso26262", "house", "rail.ebd", "vehicle.braking"})
    \X MCOptional({<<"a", "b">>}) \X MCOptional({<<"b", "a">>}) \X {"integrity", "severity"}
    \X {"none", "number", "quantity"} \X BOOLEAN

\* entry_speed, and a settle of a node path or of an event chain.
ScaleContract(c) ==
  LET speed == [k \in {k \in {"entry_speed"} : c[7] # "none"} |-> c[7]]
      settle == [Path EXCEPT !.safe_state = [emits |-> {"t"}, settle |-> [Settle EXCEPT !.keys = [decel |-> "name", jerk |-> "number"]]]]
      s == Hazardous(c[3], c[4], c[5], NoFunction, [Hazard EXCEPT ![c[6]] = {"b"}, !.keys = speed])
  IN  Old(Levelled(c[2], IF c[8] THEN [s EXCEPT !.paths = [p |-> settle]]
                         ELSE [s EXCEPT !.nodes = [a |-> [NodeDecl EXCEPT !.paths = [p \in {"p"} |-> settle]]]]),
          PlainLayout)

-----------------------------------------------------------------------------
(***************************************************************************)
(* Modes, and what is acknowledged of them and of hazards.                 *)
(***************************************************************************)
Dwell(d) == [Budget EXCEPT !.duration = {d}]

Seg(k) == [key |-> k, index |-> {}]
Within(inside, path) == IF inside THEN <<Seg("includes"), Seg("inc")>> \o path ELSE path

Acknowledged(rule, mode, path, reason) ==
  [rule |-> [mode |-> mode, id |-> rule], at |-> path, reason |-> reason]

AckPaths ==
  {<<Seg("severity_levels")>>, <<Seg("hazards"), Seg("h"), Seg("severity")>>,
   <<Seg("hazards"), Seg("h"), [key |-> "guards", index |-> {0}]>>, <<Seg("modes"), Seg("m"), Seg("window")>>,
   <<Seg("nodes"), Seg("severity_levels")>>, <<Seg("modes"), Seg("guards"), Seg("window")>>}

Modes ==
  {"modes"} \X BOOLEAN \X MCOptional({1}) \X MCOptional({2}) \X MCOptional({"f"}) \X MCOptional({"f"})
    \X {"ladder-window-floor", "integrity-unknown"} \X BOOLEAN \X AckPaths

ModeContract(c) ==
  LET mode == [Mode EXCEPT !.min_dwell = {Dwell(d) : d \in c[3]}, !.window = {Dwell(d) : d \in c[4]},
                           !.exit = [holds |-> c[5], on |-> c[6], to |-> {"n"}]]
      s == [Scope EXCEPT !.severity_levels = {<<"a">>}, !.modes = [m |-> mode, guards |-> [mode EXCEPT !.window = {}]],
                         !.hazards = [h |-> [Hazard EXCEPT !.severity = {"a"}, !.guards = {<<Topic("t")>>}]]]
      ack == <<Acknowledged(c[7], c[8], Within(c[2], c[9]), {"known"}),
               Acknowledged("scope-budget", FALSE, <<Seg("paths")>>, {"known"})>>
  IN  Old([Levelled(c[2], s) EXCEPT ![Root].acknowledged = ack], PlainLayout)

-----------------------------------------------------------------------------
(***************************************************************************)
(* Paths and topics of nodes, and the bounds of topics.                    *)
(***************************************************************************)
OfKind(kind) == [kind |-> kind, rate |-> IF kind = "timer" THEN 10 ELSE 0, jitter |-> {},
                 eps |-> IF kind = "input" THEN <<<<W("in")>>>> ELSE <<>>]

Lost(n) == [max_count |-> {[n |-> n, w |-> 9]}, max_consecutive |-> {}]

Outs == {<<>>, <<<<W("out")>>>>, <<<<W("out")>>, <<W("side")>>>>}

Layouts(inside) ==
  LET p == LevelOf(inside)
      path == <<p, "nodes", "a", "paths", "p">>
  IN  {PlainLayout,
       [PlainLayout EXCEPT !.last = {<<p, "t">>}],
       [PlainLayout EXCEPT !.comma = {{path \o <<"input">>, path \o <<"drop">>}}],
       [PlainLayout EXCEPT !.awkward = {path \o <<"drop">>, path \o <<"trigger">>}],
       [PlainLayout EXCEPT !.awkward = {path \o <<"input">>, <<p, "topics", "t">>}]}

OldPaths ==
  UNION {{"paths"} \X {inside} \X MCOptional({"spontaneous", "input", "timer"}) \X {<<>>, <<<<W("in")>>>>}
           \X MCOptional({1, 2}) \X Outs \X {"one", "two", "none", "twin"} \X MCOptional({1}) \X Layouts(inside) :
           inside \in BOOLEAN}

PathContract(c) ==
  LET p == [Path EXCEPT !.trigger = {OfKind(k) : k \in c[3]}, !.input = c[4], !.drop = {Lost(n) : n \in c[5]}, !.output = c[6]]
      paths == IF c[7] = "twin" THEN [p |-> p, q |-> [p EXCEPT !.input = <<>>]] ELSE [x \in {"p"} |-> p]
      t == [TopicDecl EXCEPT !.type = <<W("Pose")>>, !.pub = <<Ref("a", "out")>>, !.drop = {Lost(n) : n \in c[8]}]
      topics == CASE c[7] = "two" -> [t |-> t, u |-> t]
                  [] c[7] = "none" -> <<>>
                  [] OTHER -> [x \in {"t"} |-> t]
      ext == [x \in {x \in {"v"} : c[9] # PlainLayout} |-> [ExternalTopic EXCEPT !.side = {"sub"}, !.type = {<<W("Pose")>>}]]
  IN  Old(Levelled(c[2], [Scope EXCEPT !.nodes = [a |-> [NodeDecl EXCEPT !.paths = paths]],
                                       !.topics = topics, !.external_topics = ext]), c[9])

\* The subscribers of a topic with a bound of its own.
Transports ==
  {"transport"} \X BOOLEAN \X {<<>>, <<"b">>, <<"b", "c">>, <<"c", "ghost">>, <<"b", "b">>, <<"one word">>}
    \X MCOptional({4}) \X BOOLEAN \X BOOLEAN \X {"plain", "key", "end"}

TransportContract(c) ==
  LET at == LevelOf(c[2])
      refs == IF c[3] = <<"one word">> THEN <<<<W("b")>>>> ELSE [i \in DOMAIN c[3] |-> Ref(c[3][i], "in")]
      b == [Endpoint EXCEPT !.transport = c[4], !.ingress = {[rate |-> 5, burst |-> 1]}]
      linked == [Endpoint EXCEPT !.link = {x \in {"wire"} : c[5]}]
      t == [TopicDecl EXCEPT !.type = <<W("Pose")>>, !.sub = refs, !.transport = {7}]
      s == [Scope EXCEPT
              !.nodes = [b |-> [NodeDecl EXCEPT !.sub = [in |-> b], !.pub = [out |-> [Endpoint EXCEPT !.on_demand = {TRUE}]]],
                         c |-> [NodeDecl EXCEPT !.sub = [in |-> linked]]],
              !.links = [wire |-> [sourced |-> TRUE, transport |-> 1, monitor |-> {}]],
              !.topics = [t |-> t, u |-> [t EXCEPT !.transport = {}, !.sub = <<Ref("b", "late")>>]]]
      read == [s EXCEPT !.nodes.b.sub.in.ingress = {}, !.nodes.b.pub.out.on_demand = {}]
  IN  Old(Levelled(c[2], IF c[6] THEN read ELSE s),
          [PlainLayout EXCEPT !.awkward =
             CASE c[7] = "key" -> {<<at, "topics", "t", "transport">>}
               [] c[7] = "end" -> {<<at, "nodes", "b", "sub", "in">>}
               [] OTHER -> {}])

-----------------------------------------------------------------------------
(***************************************************************************)
(* The section of external topics.                                         *)
(***************************************************************************)
Entries ==
  {[ExternalTopic EXCEPT !.side = side, !.external = ext, !.type = type, !.qos = qos] :
     side \in MCOptional({"pub"}), ext \in MCOptional({"sub"}), type \in MCOptional({<<W("Pose")>>, <<W("Odom")>>}),
     qos \in {NoQos, [NoQos EXCEPT !.reliability = {"reliable"}]}}

Sections ==
  {"external"} \X BOOLEAN \X Entries \X {"t", "/t"} \X {"none", "other", "same"} \X MCOptional({"pub"}) \X {<<>>, <<W("Pose")>>}
    \X {"alone", "slash", "beside"} \X {"plain", "section", "topic"}

ExternalContract(c) ==
  LET at == LevelOf(c[2])
      topic == [TopicDecl EXCEPT !.external = c[6], !.type = c[7]]
      second == [ExternalTopic EXCEPT !.side = {"pub"}, !.type = {<<W("Pose")>>}]
      slash == IF c[4] = "t" THEN "/t" ELSE "t"
      names == CASE c[8] = "alone" -> {c[4]} [] c[8] = "slash" -> {c[4], slash} [] c[8] = "beside" -> {c[4], "v"}
      topics == CASE c[5] = "none" -> <<>>
                  [] c[5] = "other" -> [x \in {"u"} |-> [topic EXCEPT !.type = <<W("Pose")>>]]
                  [] c[5] = "same" -> [x \in {"t"} |-> topic]
  IN  Old(Levelled(c[2], [Scope EXCEPT !.topics = topics,
                            !.external_topics = [n \in names |-> IF n = c[4] THEN c[3] ELSE second]]),
          [PlainLayout EXCEPT !.awkward =
             CASE c[9] = "section" -> {<<at, "external_topics">>}
               [] c[9] = "topic" -> {<<at, "topics", "t">>}
               [] OTHER -> {}])

-----------------------------------------------------------------------------
(***************************************************************************)
(* Every old spelling at once, one place written in an awkward form.       *)
(***************************************************************************)
Everything1 ==
  LET h == TheHazard({"m"}, {}, {}, {"b"}, {}, {<<Group("t", "u"), Topic("t")>>})
      path == [Path EXCEPT !.trigger = {OfKind("spontaneous")}, !.drop = {Lost(1)}, !.output = <<<<W("out")>>>>]
  IN  [Scope EXCEPT
         !.severity_levels = {<<"a", "b">>},
         !.hazards = [x \in {"h"} |-> [h EXCEPT !.keys = [k \in {"entry_speed"} |-> "number"]]],
         !.modes = [x \in {"m"} |-> [Mode EXCEPT !.window = {Dwell(3)}, !.exit = [holds |-> {}, on |-> {"f"}, to |-> {"m"}]]],
         !.nodes = [a |-> [NodeDecl EXCEPT !.pub = [x \in {"out"} |-> [Endpoint EXCEPT !.on_demand = {TRUE}]],
                                           !.sub = [x \in {"in"} |-> [Endpoint EXCEPT !.ingress = {[rate |-> 5, burst |-> 1]}]],
                                           !.paths = [p |-> path, q |-> [Path EXCEPT !.input = <<<<W("in")>>>>]]]],
         !.topics = [t |-> [TopicDecl EXCEPT !.type = <<W("Pose")>>, !.pub = <<Ref("a", "out")>>],
                     u |-> [TopicDecl EXCEPT !.type = <<W("Pose")>>, !.sub = <<Ref("a", "in")>>, !.transport = {7}]],
         !.external_topics = [x \in {"v"} |-> [ExternalTopic EXCEPT !.side = {"pub"}, !.type = {<<W("Pose")>>}]],
         !.acknowledged = <<Acknowledged("window-expiry", FALSE, <<Seg("modes"), Seg("m"), Seg("window")>>, {"known"})>>]

AwkwardPlaces(p) ==
  {<<p, "severity_levels">>, <<p, "hazards", "h", "severity">>, <<p, "hazards", "h", "guards">>,
   <<p, "hazards", "h", "reaction">>, <<p, "hazards", "h", "group", 1>>, <<p, "hazards", "h", "keys", "entry_speed">>,
   <<p, "functions">>, <<p, "modes", "m", "window">>, <<p, "modes", "m", "exit", "on">>,
   <<p, "nodes", "a", "pub", "out", "on_demand">>, <<p, "nodes", "a", "sub", "in", "ingress">>,
   <<p, "nodes", "a", "sub", "in">>, <<p, "nodes", "a", "paths", "p", "trigger">>,
   <<p, "nodes", "a", "paths", "p", "drop">>, <<p, "nodes", "a", "paths", "q", "input">>,
   <<p, "topics", "t">>, <<p, "topics", "u", "transport">>, <<p, "external_topics">>, <<p, "use">>,
   <<p, "acknowledged", 1, "rule">>, <<p, "acknowledged", 1, "at">>}

Awkward == {<<"awkward", FALSE, {}>>, <<"awkward", TRUE, {}>>}
             \cup UNION {{"awkward"} \X {inside} \X {{place} : place \in AwkwardPlaces(LevelOf(inside))} : inside \in BOOLEAN}

AwkwardContract(c) ==
  Old(Levelled(c[2], IF c[2] THEN [Everything1 EXCEPT !.acknowledged = <<>>] ELSE Everything1),
      [PlainLayout EXCEPT !.awkward = c[3]])

MCOld == UNION {Hazards, Scales, Modes, OldPaths, Transports, Sections, Awkward}

MCOldContract(c) ==
  CASE c[1] = "hazards" -> HazardContract(c)
    [] c[1] = "scales" -> ScaleContract(c)
    [] c[1] = "modes" -> ModeContract(c)
    [] c[1] = "paths" -> PathContract(c)
    [] c[1] = "transport" -> TransportContract(c)
    [] c[1] = "external" -> ExternalContract(c)
    [] c[1] = "awkward" -> AwkwardContract(c)

-----------------------------------------------------------------------------
MCNameOrder == <<"/t", "/u", "/v", "a", "b", "c", "d", "inc", "t", "u", "v", "x", "y">>

Is(a, value) == <<Var(a), W("=="), W("'"), W(value), W("'")>>
IsNot(a, value) == <<Var(a), W("!="), W("'"), W(value), W("'")>>
And(l, r) == l \o <<W("and")>> \o r
Or(l, r) == l \o <<W("or")>> \o r
Paren(c) == <<W("(")>> \o c \o <<W(")")>>

If(c) == [Always EXCEPT !.if = {c}]
Unless(c) == [Always EXCEPT !.unless = {c}]

Out(props) == [e \in {"out"} |-> props]
In(props) == [e \in {"in"} |-> props]

\* A node that takes from "in" and gives to "out" within some time.
N(when, in, out, latency) ==
  [NodeDecl EXCEPT !.when = when, !.pub = Out(out), !.sub = In(in),
     !.paths = [p \in {"work"} |->
                  [Path EXCEPT !.input = <<<<W("in")>>>>, !.output = <<<<W("out")>>>>,
                               !.max_latency = {latency}]]]

Pubs(owners) == [i \in DOMAIN owners |-> Ref(owners[i], "out")]
Subs(owners) == [i \in DOMAIN owners |-> Ref(owners[i], "in")]
T(pubs, subs) == [TopicDecl EXCEPT !.type = <<W("Pose")>>, !.pub = Pubs(pubs), !.sub = Subs(subs)]

\* An event chain from one topic to another.
Chain(from, to, budget, losses) ==
  [Path EXCEPT !.trigger = {[kind |-> "input", rate |-> 0, jitter |-> {}, eps |-> <<<<W(from)>>>>]},
               !.output = <<<<W(to)>>>>, !.max_latency = budget, !.drop = losses]

Lose(n, w) == {[max_count |-> {[n |-> n, w |-> w]}, max_consecutive |-> {}]}

File(s) == [p \in {Root} |-> s]
With(s, inner) == [p \in {Root, <<"inc">>} |-> IF p = Root THEN s ELSE inner]

-----------------------------------------------------------------------------
(***************************************************************************)
(* Conditions on two arguments of two values each.                         *)
(***************************************************************************)
Enum == [type |-> {}, choices |-> {<<W("p")>>, <<W("q")>>}]
Bool == [type |-> {"bool"}, choices |-> {}]

Given == {[x |-> <<W(u)>>, y |-> <<W(v)>>] : u \in {"p", "q"}, v \in {"true", "false"}}

Conditions2 ==
  {<<Var("y")>>, Is("x", "p"), IsNot("x", "p"), And(Is("x", "p"), <<Var("y")>>),
   Or(<<Var("y")>>, Is("x", "q")), And(<<Var("y")>>, And(Is("x", "p"), IsNot("x", "p"))),
   Or(Is("x", "p"), And(Is("x", "q"), <<Var("y")>>)),
   Or(And(Is("x", "p"), <<Var("y")>>), Is("x", "q")),
   And(Paren(Or(<<Var("y")>>, Is("x", "q"))), Is("x", "p")),
   And(<<Var("y")>>, Is("x", "r"))}

Whens == {Always} \cup {If(c) : c \in Conditions2} \cup {Unless(c) : c \in Conditions2}

Conditional(first, second, topic, inc, pubs) ==
  With([Scope EXCEPT
          !.args = [x |-> Enum, y |-> Bool],
          !.nodes = [a |-> N(first, Endpoint, Endpoint, 1), b |-> N(second, Endpoint, Endpoint, 1),
                     c |-> N(Always, Endpoint, Endpoint, 1)],
          !.topics = [t |-> [T(pubs, <<"c">>) EXCEPT !.when = topic],
                      u |-> [T(<<"a">>, <<"b", "inc">>) EXCEPT !.external = {}]],
          !.services = [v |-> [ServiceDecl EXCEPT !.type = <<W("Srv")>>, !.server = Pubs(<<"a">>),
                                                  !.client = Subs(<<"c">>)]],
          !.paths = [p \in {"chain"} |-> [Chain("t", "u", {9}, {}) EXCEPT !.when = second]]],
       [Scope EXCEPT !.when = inc])

\* Conditions without references, as an include may have them.
Fixed == {Always, If(<<W("true")>>), If(<<W("false")>>), Unless(<<W("p"), W("=="), W("p")>>)}

Filtered ==
  {"filtered"} \X Whens \X {Always, If(Is("x", "p")), Unless(<<Var("y")>>)}
    \X {Always, If(IsNot("x", "q"))} \X Fixed \X {<<"a">>, <<"b", "ghost", "a">>} \X Given

Foretold ==
  {"foretold"} \X Whens \X Whens \X {<<"a">>, <<"b", "a">>, <<"a", "ghost">>, <<"a", "c">>}

\* Includes whose condition refers to an argument of the file.
Included == {"included"} \X {If(<<Var("y")>>), Unless(Is("x", "p"))} \X Given

\* Values that are missing or not allowed, and a reference to no argument.
BadArgs ==
  {"args"} \X {Is("x", "p"), Is("z", "p")}
    \X (Given \cup {[x |-> <<W("p")>>], [x |-> <<W("r")>>, y |-> <<W("true")>>]})

ConditionalContract(c) ==
  CASE c[1] = "filtered" -> C(Conditional(c[2], c[3], c[4], c[5], c[6]), c[7], "resolved")
    [] c[1] = "foretold" -> C(Conditional(c[2], c[3], Always, Always, c[4]), <<>>, "raw")
    [] c[1] = "included" -> C(Conditional(Always, Always, Always, c[2], <<"a">>), c[3], "resolved")
    [] c[1] = "args" -> C(Conditional(If(c[2]), Always, Always, Always, <<"a">>), c[3], "resolved")

-----------------------------------------------------------------------------
(***************************************************************************)
(* Two nodes and an include, wired in any way by two topics and in two     *)
(* ways by a third, with times, links and losses.                          *)
(***************************************************************************)
Sides == {<<"a">>, <<"b">>, <<"a", "b">>, <<"inc">>, <<"b", "inc">>}

Timed(first, second, third, kind, b_in, budget) ==
  With([Scope EXCEPT
          !.nodes = [a |-> N(Always, [Endpoint EXCEPT !.state = kind], Endpoint, 3),
                     b |-> N(Always, b_in, Endpoint, 2)],
          !.topics = [t |-> [T(first[1], first[2]) EXCEPT !.transport = {1}, !.drop = Lose(1, 5)],
                      u |-> [T(second[1], second[2]) EXCEPT !.drop = Lose(1, 20)],
                      v |-> [T(third[1], third[2]) EXCEPT !.drop = Lose(1, 5)]],
          !.links = [wire |-> [sourced |-> TRUE, transport |-> 4, monitor |-> {}]],
          !.paths = [p \in {"chain"} |-> Chain("t", "u", {budget}, Lose(1, 10))]],
       [Scope EXCEPT !.paths = [p \in {"inner"} |-> Chain("t", "u", {2}, {})],
                     !.links = [wire |-> [sourced |-> FALSE, transport |-> 1, monitor |-> {}]]])

Routed ==
  {"routed"} \X (Sides \X {<<"a">>, <<"b">>, <<"inc">>}) \X (Sides \X {<<"a">>, <<"b">>, <<"b", "inc">>})
    \X {<<<<"a">>, <<"b">>>>, <<<<"b">>, <<"inc">>>>}
    \X {{}, {TRUE}} \X {Endpoint, [Endpoint EXCEPT !.link = {"wire"}]} \X {7, 13}

RoutedContract(c) == C(Timed(c[2], c[3], c[4], c[5], c[6], c[7]), <<>>, "resolved")

-----------------------------------------------------------------------------
(***************************************************************************)
(* An event chain that writes its topics with or without the slash of the  *)
(* root namespace, beside topics of either name or both: what `t` and `u`  *)
(* lead to differs from what `/t` and `/u` lead to.  The publisher of `v`  *)
(* is elsewhere, and an entry of external topics may say so.               *)
(***************************************************************************)
Spelled ==
  {"spelled"} \X (SUBSET {"t", "/t"}) \X (SUBSET {"u", "/u"}) \X {"t", "/t"} \X {"u", "/u"}
    \X {Lose(1, 5), Lose(1, 10)} \X {{}, {"/v"}, {"v", "/v"}}

SpelledContract(c) ==
  LET subs == [t |-> <<"a">>] @@ ("/t" :> <<"b">>)
      pubs == [u |-> <<"c">>] @@ ("/u" :> <<"b">>)
      lossy == [n \in c[2] |-> [T(<<>>, subs[n]) EXCEPT !.drop = Lose(1, 6)]]
                 @@ [n \in c[3] |-> [T(pubs[n], <<>>) EXCEPT !.drop = Lose(1, 6)]]
      between == [x |-> [T(<<"a">>, <<"b">>) EXCEPT !.drop = Lose(1, 6)],
                  y |-> [T(<<"b">>, <<"c">>) EXCEPT !.drop = Lose(1, 6)],
                  v |-> T(<<>>, <<"c">>)]
  IN  C(File([Scope EXCEPT
                !.nodes = [n \in {"a", "b", "c"} |-> N(Always, Endpoint, Endpoint, 1)],
                !.topics = lossy @@ between,
                !.args = [x |-> Enum],
                !.external_topics = [n \in c[7] |-> [ExternalTopic EXCEPT !.external = IF n = "v" THEN {"sub"} ELSE {"pub"},
                                                                          !.type = {<<Var("x")>>}]],
                !.paths = [p \in {"chain"} |-> Chain(c[4], c[5], {}, c[6])]]),
        [x |-> <<W("p")>>], "resolved")

-----------------------------------------------------------------------------
(***************************************************************************)
(* One topic with what its ends promise and need.                          *)
(***************************************************************************)
Promised == {Endpoint, [Endpoint EXCEPT !.aperiodic = {TRUE}]}
              \cup {[Endpoint EXCEPT !.min_rate = {r}] : r \in {8, 10}}
Needed == {[Endpoint EXCEPT !.min_rate = need, !.max_rate = most] :
             need \in MCOptional({8, 9, 10}), most \in MCOptional({9})}

Rates ==
  {"rates"} \X Promised \X Needed \X MCOptional({8, 10})
    \X {{}, Lose(1, 10), Lose(2, 10), Lose(3, 2)} \X {<<"b">>, <<"c", "b">>}

RatesContract(c) ==
  C(File([Scope EXCEPT
            !.nodes = [a |-> N(Always, Endpoint, c[2], 1), b |-> N(Always, c[3], Endpoint, 1),
                       c |-> N(Always, [Endpoint EXCEPT !.min_rate = {9}], Endpoint, 1)],
            !.topics = [t |-> [T(<<"a">>, c[6]) EXCEPT !.rate = c[4], !.drop = c[5]]]]),
    <<>>, "raw")

-----------------------------------------------------------------------------
(***************************************************************************)
(* Contracts that are refused, and one that has something of everything.   *)
(***************************************************************************)
OneNode(nd) == File([Scope EXCEPT !.nodes = [a |-> nd], !.links = [wire |-> [sourced |-> TRUE, transport |-> 1, monitor |-> {}]]])

Retry(attempts) == [attempts |-> {attempts}, backoff |-> {0}]
OnTimeout(reaction, retry, then) == [reaction |-> reaction, retry |-> retry, then |-> then]

Endpoints ==
  {[Endpoint EXCEPT !.budget = {2}], [Endpoint EXCEPT !.budget = {2}, !.budget_period = {1}],
   [Endpoint EXCEPT !.budget = {1}, !.budget_period = {2}], [Endpoint EXCEPT !.min_interarrival = {0}],
   [Endpoint EXCEPT !.curve = {[rate |-> 5, burst |-> 1]}, !.min_rate = {8}],
   [Endpoint EXCEPT !.curve = {[rate |-> 5, burst |-> 0]}],
   [Endpoint EXCEPT !.min_interarrival = {126}, !.min_rate = {8}],
   [Endpoint EXCEPT !.min_interarrival = {125}, !.min_rate = {8}],
   [Endpoint EXCEPT !.buffer = {"queue"}], [Endpoint EXCEPT !.buffer = {"queue"}, !.state = {TRUE}],
   [Endpoint EXCEPT !.link = {"wire"}, !.transport = {1}], [Endpoint EXCEPT !.link = {"air"}],
   [Endpoint EXCEPT !.link = {"wire"}], [Endpoint EXCEPT !.aperiodic = {TRUE}],
   [Endpoint EXCEPT !.call = {"async"}, !.timeout = {5}], [Endpoint EXCEPT !.timeout = {0}],
   [Endpoint EXCEPT !.on_timeout = {OnTimeout({"stop"}, {}, {})}],
   [Endpoint EXCEPT !.on_timeout = {OnTimeout({}, {Retry(2)}, {"stop"})}],
   [Endpoint EXCEPT !.on_timeout = {OnTimeout({}, {Retry(0)}, {"stop"})}],
   [Endpoint EXCEPT !.on_timeout = {OnTimeout({"stop"}, {Retry(1)}, {})}],
   [Endpoint EXCEPT !.on_timeout = {OnTimeout({}, {}, {"stop"})}]}

Paths ==
  {[Path EXCEPT !.trigger = {[kind |-> "timer", rate |-> rate, jitter |-> {10}, eps |-> <<>>]}] : rate \in {0, 99, 100}}
  \cup {[Path EXCEPT !.input = <<<<W("in")>>>>,
                     !.trigger = {[kind |-> "input", rate |-> 0, jitter |-> {}, eps |-> eps]}] :
          eps \in {<<<<W("in")>>>>, <<<<W("out")>>>>}}
  \cup {[Path EXCEPT !.input = input, !.sync = {sync}] :
          input \in {<<<<W("in")>>>>, <<<<W("in")>>, <<W("out")>>>>},
          sync \in {[policy |-> "exact", max_interval |-> {50}, timeout |-> {}],
                    [policy |-> "exact", max_interval |-> {}, timeout |-> {}],
                    [policy |-> "timeout_any", max_interval |-> {50}, timeout |-> {}]}}
  \cup {[Path EXCEPT !.drop = Lose(1, 2)]}

Refused ==
  ({"endpoint"} \X {"pub", "sub", "cli"} \X Endpoints)
  \cup ({"path"} \X Paths)
  \cup ({"server"} \X {0, 1} \X {"pub", "sub"})
  \cup {<<"twice">>, <<"condition">>}

RefusedContract(c) ==
  LET nd == CASE c[1] = "endpoint" -> [NodeDecl EXCEPT ![c[2]] = [e \in {"e"} |-> c[3]]]
              [] c[1] = "path" -> [NodeDecl EXCEPT !.paths = [p \in {"p"} |-> c[2]]]
              [] c[1] = "server" -> [NodeDecl EXCEPT !.srv = [e \in {"e"} |-> [Server EXCEPT !.stale_after = {c[2]}]],
                                                     ![c[3]] = In(Endpoint)]
              [] c[1] = "twice" -> [NodeDecl EXCEPT !.pub = In(Endpoint), !.sub = In(Endpoint)]
  IN  C(IF c[1] = "condition" THEN File([Scope EXCEPT !.when = If(<<W("true")>>)]) ELSE OneNode(nd), <<>>, "raw")

Qos(rel, dur) == [NoQos EXCEPT !.reliability = {rel}, !.durability = {dur}, !.depth = {0}, !.history = {"keep_all"}, !.lease = {2}]

Everything ==
  {"everything"} \X MCOptional({"volatile", "transient_local"}) \X MCOptional({1, 4, 9})
    \X MCOptional({"pub", "both", "server"})

FullContract(dur, lo, ext) ==
  C(File([Scope EXCEPT
             !.nodes = [a |-> [N(Always, Endpoint, [Endpoint EXCEPT !.qos = Qos("best_effort", "transient_local")], 1)
                                 EXCEPT !.paths = [once |-> [Path EXCEPT !.output = <<<<W("out")>>>>,
                                                              !.trigger = {[kind |-> "once", rate |-> 0, jitter |-> {}, eps |-> <<>>]}],
                                                   tick |-> [Path EXCEPT !.input = <<<<W("in")>>>>, !.max_latency = {5}, !.min_latency = lo, !.jitter = {2},
                                                              !.trigger = {[kind |-> "timer", rate |-> 10, jitter |-> {}, eps |-> <<>>]}]],
                                        !.cli = In([Endpoint EXCEPT !.qos = [NoQos EXCEPT !.liveliness = {"sometimes"}]])],
                        b |-> [N(Always, [Endpoint EXCEPT !.qos = [NoQos EXCEPT !.reliability = {"reliable"}, !.durability = dur, !.lease = {1}]], Endpoint, 1)
                                 EXCEPT !.sub = [in |-> [Endpoint EXCEPT !.qos = [NoQos EXCEPT !.reliability = {"reliable"}, !.durability = dur, !.lease = {1}]],
                                                 queue |-> [Endpoint EXCEPT !.state = {TRUE}, !.buffer = {"queue"}, !.transport = {1}],
                                                 late |-> [Endpoint EXCEPT !.state = {TRUE}]],
                                        !.paths = [sync |-> [Path EXCEPT !.input = <<<<W("in")>>, <<W("queue")>>>>,
                                                              !.sync = {[policy |-> "exact", max_interval |-> {50}, timeout |-> {}]}]]]],
             !.topics = [t |-> [T(<<"a">>, <<"b">>) EXCEPT !.rate = {10}],
                         u |-> [T(<<"a">>, <<>>) EXCEPT !.sub = <<Ref("b", "queue")>>, !.rate = {20}],
                         v |-> [T(<<>>, <<"a">>) EXCEPT !.external = ext]],
             !.services = [x |-> [ServiceDecl EXCEPT !.client = Subs(<<"a">>)],
                           y |-> [ServiceDecl EXCEPT !.type = <<W("Srv")>>, !.server = Pubs(<<"b">>), !.client = Subs(<<"b">>)]],
             !.actions = [x |-> [ServiceDecl EXCEPT !.client = Subs(<<"a">>), !.external = ext]],
             !.external_topics = [v |-> [ExternalTopic EXCEPT !.side = {"sub"}]],
             !.links = [wire |-> [sourced |-> FALSE, transport |-> 1, monitor |-> {}]],
             !.paths = [p \in {"chain"} |-> [Chain("t", "u", {0}, {[max_count |-> {[n |-> 3, w |-> 2]}, max_consecutive |-> {0}]}) EXCEPT !.min_latency = lo]]]),
    <<>>, "raw")

-----------------------------------------------------------------------------
(***************************************************************************)
(* Values read from a launch tree: two entries of `let`, and one or two    *)
(* keys of a node that belong together.                                    *)
(***************************************************************************)
Unit == [s |-> {[dim |-> Time, scale |-> One]}, ms |-> {[dim |-> Time, scale |-> <<1, 1000>>]},
         Hz |-> {[dim |-> Frequency, scale |-> One]}, none |-> {}]

Num(n, unit) == [op |-> "number", raw |-> Whole(n), unit |-> Unit[unit]]
Param(node, unit) == [op |-> "param", name |-> "x", node |-> node, unit |-> Unit[unit]]
LaunchVar(unit) == [op |-> "var", name |-> "y", node |-> {}, unit |-> Unit[unit]]
Let(name) == [op |-> "let", name |-> name]
Apply(lhs, op, rhs) == [op |-> op, lhs |-> lhs, rhs |-> rhs]

FirstLets == {Num(100, "ms"), LaunchVar("Hz"), Apply(Num(1, "none"), "/", LaunchVar("Hz")),
              Apply(Num(1, "s"), "+", LaunchVar("Hz")), Param({}, "s")}
SecondLets == {Apply(Let("a"), "*", Num(2, "none")), Apply(Num(3, "none"), "/", Let("a")),
               Apply(Let("a"), "-", Num(1, "s"))}

FirstExprs == {Param({}, "Hz"), Param({"b"}, "ms"), Let("a"), Let("b"), Apply(Let("a"), "*", Let("b")),
               Apply(Let("b"), "+", Apply(Num(1, "none"), "/", Param({}, "Hz")))}
SecondExprs == {Param({}, "ms"), Let("b"), Apply(Num(2, "none"), "/", Let("a")), Apply(Let("a"), "*", Let("b"))}

\* A parameter without a unit, and what is not read from where it is written.
BadExprs == {Param({}, "none"), Apply(Param({}, "none"), "*", Num(1, "ms")), Let("c")}

\* Keys, with the dimension of each.
KeyPairs ==
  {<<<<"paths", "p", "trigger.timer.rate_hz", Frequency>>, <<"paths", "p", "trigger.timer.jitter", Time>>>>,
   <<<<"sub", "in", "arrival_curve.rate_hz", Frequency>>, <<"sub", "in", "arrival_curve.burst", Scalar>>>>,
   <<<<"sub", "in", "min_interarrival", Time>>, <<"sub", "in", "min_rate", Frequency>>>>,
   <<<<"sub", "in", "budget", Time>>, <<"sub", "in", "budget_period", Time>>>>,
   <<<<"paths", "s", "sync.max_interval", Time>>, <<"paths", "p", "max_latency", Time>>>>}

LaunchTrees ==
  {NoLaunchTree, [tree |-> TRUE, value |-> <<>>]}
  \cup {[tree |-> TRUE, value |-> [at \in {<<"x", {"a"}>>, <<"x", {"b"}>>, <<"y", {}>>} |->
                                    IF at[1] = "y" THEN Whole(y) ELSE Whole(x)]] : x \in {0, 20}, y \in {0, 10}}

Launched ==
  ({"launched"} \X FirstLets \X SecondLets \X KeyPairs \X FirstExprs \X SecondExprs \X LaunchTrees \X {FALSE})
  \cup ({"launched"} \X {Num(1, "s")} \X {Let("a")} \X KeyPairs \X BadExprs \X {Let("b")} \X LaunchTrees \X BOOLEAN)
  \cup ({"launched"} \X {Param({"b"}, "none"), Let("b"), Let("a")} \X {Let("a"), Let("b")} \X KeyPairs
           \X {Let("b")} \X {Let("b")} \X {NoLaunchTree} \X {FALSE})

LaunchedContract(c) ==
  LET Value(key, expr, sourced) ==
        [at |-> <<"a", key[1], key[2], key[3]>>, want |-> key[4], expr |-> expr, sourced |-> sourced]
      s == [Scope EXCEPT
              !.lets = <<[name |-> "a", expr |-> c[2]], [name |-> "b", expr |-> c[3]]>>,
              !.nodes = [a |-> [NodeDecl EXCEPT
                !.sub = [in |-> [Endpoint EXCEPT
                           !.curve = {k \in {[rate |-> 5, burst |-> 1]} : c[4][1][3] = "arrival_curve.rate_hz"}],
                         other |-> Endpoint],
                !.paths = [p |-> [Path EXCEPT !.trigger = {t \in {[kind |-> "timer", rate |-> 5, jitter |-> {}, eps |-> <<>>]} :
                                                             c[4][1][3] = "trigger.timer.rate_hz"}],
                           s |-> [Path EXCEPT !.input = <<<<W("in")>>, <<W("other")>>>>,
                                     !.sync = {[policy |-> "exact", max_interval |-> {50}, timeout |-> {}]}]]]]]
  IN  [C(File(s), <<>>, IF c[7].tree \/ c[2] \in FirstLets \ {Num(100, "ms")} THEN "launched" ELSE "raw")
         EXCEPT !.values = <<Value(c[4][1], c[5], c[8]), Value(c[4][2], c[6], FALSE)>>, !.lookup = c[7]]

MCContracts == UNION {Filtered, Foretold, Routed, Spelled, Rates, Refused, BadArgs, Everything, Launched, MCOld}
MCIncluded == Included

MCContract(c) ==
  CASE c[1] \in {"filtered", "foretold", "included", "args"} -> ConditionalContract(c)
    [] c[1] = "routed" -> RoutedContract(c)
    [] c[1] = "spelled" -> SpelledContract(c)
    [] c[1] = "rates" -> RatesContract(c)
    [] c[1] = "launched" -> LaunchedContract(c)
    [] c[1] = "everything" -> FullContract(c[2], c[3], c[4])
    [] c[1] \in {"endpoint", "path", "server", "twice", "condition"} -> RefusedContract(c)
    [] OTHER -> MCOldContract(c)
=============================================================================
