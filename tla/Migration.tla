------------------------------ MODULE Migration ------------------------------
(***************************************************************************)
(* types/src/migrate.rs and types/src/rule_names.rs: a contract written    *)
(* with spellings of earlier releases is rewritten to those of this one.   *)
(*                                                                         *)
(* Every rewrite reads the document as it was found and asks for edits of  *)
(* its text; all edits are made at once, and none if two of them touch.    *)
(* An edit sets values, renames keys of one mapping, inserts text at       *)
(* points and deletes keys.  Of the text only what decides whether an edit *)
(* can be made is left, the layout: the places written in a form the edit  *)
(* does not handle, the topics that are last of their block, and the keys  *)
(* whose deletions share a comma of a flow mapping.  A place is a level    *)
(* and the keys that lead from it.                                         *)
(***************************************************************************)
EXTENDS ContractReader, TLC

PlainLayout == [awkward |-> {}, last |-> {}, comma |-> {}]

\* manifest_levels: the file and its inline includes; an include that names a
\* file instead is none.
Levels(m) ==
  {p \in DOMAIN m : \A k \in 1..Len(p) : "manifest" \notin m[SubSeq(p, 1, k)].unknown}

-----------------------------------------------------------------------------
(***************************************************************************)
(* What a rewrite finds at a place: an edit, or a reason to leave it.      *)
(***************************************************************************)
NoEdit == [set |-> {}, move |-> {}, insert |-> {}, delete |-> {}]

Skip(at) == {[at |-> at, skip |-> TRUE, edit |-> NoEdit]}
Edit(at, edit) == {[at |-> at, skip |-> FALSE, edit |-> edit]}

\* Doc::skip where a text has a form the edit does not handle, else an edit.
EditUnless(awkward, at, edit) == IF awkward THEN Skip(at) ELSE Edit(at, edit)

\* rename_key.
RenameKey(place, old, new, lay) ==
  EditUnless(place \o <<old>> \in lay.awkward, place \o <<old>>,
             [NoEdit EXCEPT !.move = {<<place, old, new>>}])

\* rename_in: of two spellings none is renamed.
RenameIn(map, place, old, new, lay) ==
  IF map[old] = {} THEN {}
  ELSE IF map[new] # {} THEN Skip(place \o <<old>>)
  ELSE RenameKey(place, old, new, lay)

\* A value on its key's line is replaced.
SetValue(place, value, lay) ==
  EditUnless(place \in lay.awkward, place, [NoEdit EXCEPT !.set = {<<place, value>>}])

\* Where a level's hazards, modes, endpoints and paths are.
MemberPlaces(m, section) ==
  UNION {{<<p, section, n>> : n \in DOMAIN m[p][section]} : p \in Levels(m)}

EndpointPlaces(m, side) ==
  UNION {UNION {{<<p, "nodes", n, side, e>> : e \in DOMAIN m[p].nodes[n][side]} : n \in DOMAIN m[p].nodes} :
           p \in Levels(m)}

PathPlaces(m) ==
  UNION {UNION {{<<p, "nodes", n, "paths", k>> : k \in DOMAIN m[p].nodes[n].paths} : n \in DOMAIN m[p].nodes} :
           p \in Levels(m)}

\* What is at a place.
RECURSIVE At(_, _)
At(tree, place) == IF place = <<>> THEN tree ELSE At(tree[Head(place)], Tail(place))

\* One kind of rewrite at all of some places.
Everywhere(places, Rewrite(_)) == UNION {Rewrite(place) : place \in places}

-----------------------------------------------------------------------------
(***************************************************************************)
(* Keys and words that were renamed.                                       *)
(***************************************************************************)
\* hazard_reaction_enters: of the file's own hazards, those that enter a mode.
HazardReactionEnters(m, lay) ==
  LET Entering == {h \in DOMAIN m[Root].hazards :
                     /\ m[Root].hazards[h].enters = {}
                     /\ m[Root].hazards[h].reaction \cap DOMAIN m[Root].modes # {}}
  IN  Everywhere({<<Root, "hazards", h>> : h \in Entering},
                 LAMBDA place : RenameKey(place, "reaction", "enters", lay))

\* A bug: the levels of the file itself are rewritten, those of its includes not.
SeverityIntegrityOfFile(m, lay) ==
  RenameIn(m[Root], <<Root>>, "severity_levels", "integrity_levels", lay)
  \cup Everywhere({place \in MemberPlaces(m, "hazards") : place[1] = Root},
                  LAMBDA place : RenameIn(At(m, place), place, "severity", "integrity", lay))

\* severity_integrity.
SeverityIntegrity(m, lay) ==
  Everywhere({<<p>> : p \in Levels(m)},
             LAMBDA place : RenameIn(At(m, place), place, "severity_levels", "integrity_levels", lay))
  \cup Everywhere(MemberPlaces(m, "hazards"),
                  LAMBDA place : RenameIn(At(m, place), place, "severity", "integrity", lay))

\* guards_monitors.
GuardsMonitors(m, lay) ==
  Everywhere(MemberPlaces(m, "hazards"),
             LAMBDA place : RenameIn(At(m, place), place, "guards", "monitors", lay))

\* ingress_arrival_curve.
IngressArrivalCurve(m, lay) ==
  Everywhere(EndpointPlaces(m, "sub"),
             LAMBDA place : RenameIn(At(m, place), place, "ingress", "curve", lay))

\* aperiodic: a publisher's key and a trigger's word.
Aperiodic(m, lay) ==
  LET Renamed(place) ==
        UNION {SetValue(place \o <<"trigger">>, {[t EXCEPT !.kind = "aperiodic"]}, lay) :
                 t \in {t \in At(m, place).trigger : t.kind = "spontaneous"}}
  IN  Everywhere(EndpointPlaces(m, "pub"),
                 LAMBDA place : RenameIn(At(m, place), place, "on_demand", "aperiodic", lay))
      \cup Everywhere(PathPlaces(m) \cup MemberPlaces(m, "paths"), Renamed)

\* window_min_dwell.
WindowMinDwell(m, lay) ==
  Everywhere(MemberPlaces(m, "modes"),
             LAMBDA place : RenameIn(At(m, place), place, "window", "min_dwell", lay))

\* exit_on_holds: of the file's own modes.
ExitOnHolds(m, lay) ==
  LET Old(exit) == exit.on # {} /\ exit.holds = {}
  IN  Everywhere({<<Root, "modes", k, "exit">> : k \in {k \in DOMAIN m[Root].modes : Old(m[Root].modes[k].exit)}},
                 LAMBDA place : RenameKey(place, "on", "holds", lay))

-----------------------------------------------------------------------------
(***************************************************************************)
(* Acknowledgements.  A rule id is a name and whether it is said of one    *)
(* mode (mode:<rule>), a path its segments, each a key and an index.       *)
(***************************************************************************)
\* RENAMED_RULES.
RenamedRules ==
  {[old |-> "severity-unknown", new |-> "integrity-unknown"],
   [old |-> "severity-scale-conflict", new |-> "integrity-scale-conflict"],
   [old |-> "ladder-rung-budget", new |-> "degradation-level-time"],
   [old |-> "ladder-unterminated", new |-> "fallback-without-mrc"],
   [old |-> "ladder-window-floor", new |-> "dwell-at-mrc"],
   [old |-> "call-unbounded-floor", new |-> "call-unbounded-mrc"],
   [old |-> "window-expiry", new |-> "dwell-expiry"],
   [old |-> "window-param", new |-> "dwell-param"],
   [old |-> "window-unbound", new |-> "dwell-unbound"],
   [old |-> "scope-budget", new |-> "chain-latency"],
   [old |-> "scope-sampling-feasibility", new |-> "chain-sampling-feasibility"],
   [old |-> "fault-reaction-budget", new |-> "fault-reaction-time"],
   [old |-> "degradation-level-budget", new |-> "degradation-level-time"],
   [old |-> "budget-overflow", new |-> "latency-bound-overflow"]}

\* current: a prefix of the id stays.
CurrentRule(rule) ==
  LET renames == {r \in RenamedRules : r.old = rule.id}
  IN  IF renames = {} THEN rule ELSE [rule EXCEPT !.id = TheOnly(renames).new]

\* RENAMED_KEYS: <<section, key>>, of a level itself where the section is "".
RenamedKeys ==
  {[section |-> "", old |-> "severity_levels", new |-> "integrity_levels"],
   [section |-> "hazards", old |-> "severity", new |-> "integrity"],
   [section |-> "modes", old |-> "window", new |-> "min_dwell"],
   [section |-> "hazards", old |-> "guards", new |-> "monitors"]}

\* rewrite_path: a key is renamed only where the grammar puts it.
IsKeyAt(path, i, k) ==
  LET Seg(j) == path[j].key
      at_level == i = 1 \/ (i >= 3 /\ Seg(i - 2) = "includes")
      in_section == /\ i >= 3 /\ Seg(i - 2) = k.section
                    /\ \/ i = 3
                       \/ Seg(i - 3) = "includes"
                       \/ (i >= 5 /\ Seg(i - 4) = "includes")
  IN  /\ Seg(i) = k.old
      /\ IF k.section = "" THEN at_level ELSE in_section

\* current_path; an index stays.
CurrentPath(path) ==
  [i \in DOMAIN path |->
     LET renames == {k \in RenamedKeys : IsKeyAt(path, i, k)}
     IN  IF renames = {} THEN path[i] ELSE [path[i] EXCEPT !.key = TheOnly(renames).new]]

\* rule_id_renamed: acknowledgements are the file's own.
RuleIdRenamed(m, lay) ==
  LET entries == m[Root].acknowledged
      Now(i, key, value) ==
        IF value = entries[i][key] THEN {}
        ELSE SetValue(<<Root, "acknowledged", i, key>>, value, lay)
  IN  UNION {Now(i, "rule", CurrentRule(entries[i].rule)) \cup Now(i, "at", CurrentPath(entries[i].at)) :
               i \in DOMAIN entries}

-----------------------------------------------------------------------------
(***************************************************************************)
(* Declarations that have another place or form.                           *)
(***************************************************************************)
\* path_input_trigger: beside a trigger the list is deleted.
PathInputTrigger(m, lay) ==
  LET Rewritten(place) ==
        LET p == At(m, place)
            input == place \o <<"input">>
            trigger == {[kind |-> "input", rate |-> 0, jitter |-> {}, eps |-> p.input]}
        IN  IF p.input = <<>> THEN {}
            ELSE EditUnless(input \in lay.awkward, input,
                            IF p.trigger # {}
                            THEN [NoEdit EXCEPT !.set = {<<input, <<>>>>}, !.delete = {input}]
                            ELSE [NoEdit EXCEPT !.set = {<<input, <<>>>>, <<place \o <<"trigger">>, trigger>>}])
  IN  Everywhere(PathPlaces(m) \cup MemberPlaces(m, "paths"), Rewritten)

\* entry_speed_unit: metres per second, as the key of the core was read.
EntrySpeedUnit(m, lay) ==
  Everywhere({place \in MemberPlaces(m, "hazards") :
                \E k \in DOMAIN At(m, place).keys : k = "entry_speed" /\ At(m, place).keys[k] = "number"},
             LAMBDA place : SetValue(place \o <<"keys", "entry_speed">>, "quantity", lay))

\* bundled_param_keys.
ParamKeys == {"decel", "jerk"}

\* ext_param_read: a parameter is read by the read form, not by its name.
ExtParamRead(m, lay) ==
  LET Read(place) ==
        UNION {SetValue(place \o <<"safe_state", "settle", "keys", k>>, "read", lay) :
                 k \in {k \in ParamKeys \cap DOMAIN At(m, place).safe_state.settle.keys :
                          At(m, place).safe_state.settle.keys[k] = "name"}}
  IN  Everywhere(PathPlaces(m) \cup MemberPlaces(m, "paths"), Read)

\* add_entry where a topic is the last of its block ends where the block does.
EndOfTopic(p, t, lay) == IF <<p, t>> \in lay.last THEN <<p, "topics">> ELSE <<p, "topics", t>>

\* A bug: a subscriber that states its own bound gets the topic's.
BearersOfEvery(s, t) == DOMAIN t.sub

\* The subscribers of a topic that state no bound of their own.
Bearers(s, t) == {i \in DOMAIN t.sub : \A e \in Subscriber(s, t.sub[i]) : e.transport = {}}

\* topic_max_transport_subscribers: onto every listed subscriber that states
\* none, if all of them are declared here.
MaxTransportOf(m, place, lay) ==
  LET s == m[place[1]]
      t == At(m, place)
      key == place \o <<"transport">>
      ref(i) == t.sub[i]
      Place(r) == <<place[1], "nodes", r[1].text, "sub", r[2].text>>
      bare == Bearers(s, t)
  IN  IF t.transport = {} THEN {}
      ELSE EditUnless(
             \/ key \in lay.awkward \/ t.sub = <<>>
             \/ \E i \in DOMAIN t.sub : Subscriber(s, ref(i)) = {}
             \/ \E i \in bare : Place(ref(i)) \in lay.awkward,
             key,
             [NoEdit EXCEPT
                !.set = {<<key, {}>>} \cup {<<Place(ref(i)) \o <<"transport">>, t.transport>> : i \in bare},
                !.insert = {<<Place(ref(i)), i>> : i \in bare},
                !.delete = {key}])

TopicMaxTransportSubscribers(m, lay) ==
  Everywhere(MemberPlaces(m, "topics"), LAMBDA place : MaxTransportOf(m, place, lay))

\* node_path_drop_topic: to the one topic that carries the path's one output.
NodePathDropOf(m, place, lay) ==
  LET s == m[place[1]]
      p == At(m, place)
      key == place \o <<"drop">>
      carriers == {t \in DOMAIN s.topics :
                     <<Word(place[3])>> \o p.output[1] \in Range(s.topics[t].pub)}
      carrier == TheOnly(carriers)
      topic == <<place[1], "topics", carrier>>
  IN  IF p.drop = {} THEN {}
      ELSE IF Len(p.output) # 1 THEN Skip(key)
      ELSE IF Cardinality(carriers) # 1 THEN Skip(key)
      ELSE IF s.topics[carrier].drop = p.drop
      THEN EditUnless(key \in lay.awkward, key, [NoEdit EXCEPT !.set = {<<key, {}>>}, !.delete = {key}])
      ELSE EditUnless(
             s.topics[carrier].drop # {} \/ key \in lay.awkward \/ topic \in lay.awkward,
             key,
             [NoEdit EXCEPT !.set = {<<key, {}>>, <<topic \o <<"drop">>, p.drop>>},
                            !.insert = {<<EndOfTopic(place[1], carrier, lay), "drop">>},
                            !.delete = {key}])

NodePathDropTopic(m, lay) == Everywhere(PathPlaces(m), LAMBDA place : NodePathDropOf(m, place, lay))

-----------------------------------------------------------------------------
(***************************************************************************)
(* external_topics_to_topics: a whole section at once.                     *)
(***************************************************************************)
\* The same topic: at the root namespace `x` is `/x`.
SameTopic(p, t, u) == t = u \/ (p = Root /\ Bare(t) = Bare(u))

SideWritten(e) == IF e.side # {} THEN e.side ELSE e.external

AsTopic(e) ==
  [TopicDecl EXCEPT !.external = SideWritten(e), !.type = TheOnly(e.type), !.qos = e.qos]

\* What an entry gives the topic of its name that is there already.
Joined(topic, e) ==
  [topic EXCEPT !.external = SideWritten(e), !.type = IF e.type # {} THEN TheOnly(e.type) ELSE @]

\* An entry the topic of its name contradicts, or whose qos would be merged.
CannotJoin(topic, e) ==
  \/ SideWritten(e) = {}
  \/ topic.external \notin {{}, SideWritten(e)}
  \/ e.qos # NoQos
  \/ \E type \in e.type : topic.type \notin {<<>>, type}

ExternalTopicsOf(m, p, lay) ==
  LET s == m[p]
      section == <<p, "external_topics">>
      entries == s.external_topics
      Existing(n) == {t \in DOMAIN s.topics : SameTopic(p, t, n)}
      joining == {n \in DOMAIN entries : Existing(n) # {}}
      topic(n) == TheOnly(Existing(n))
      changing == {n \in joining : Joined(s.topics[topic(n)], entries[n]) # s.topics[topic(n)]}
      moving == DOMAIN entries \ joining
      Untouchable ==
        \/ section \in lay.awkward
        \/ \E n \in DOMAIN entries : entries[n].side # {} /\ entries[n].external # {}
        \/ \E n \in moving : entries[n].type = {} \/ (s.topics # <<>> /\ SideWritten(entries[n]) = {})
        \/ \E n \in joining : CannotJoin(s.topics[topic(n)], entries[n])
        \/ \E n \in changing : <<p, "topics", topic(n)>> \in lay.awkward
      cleared == <<section, <<>>>>
  IN  IF entries = <<>> THEN {}
      ELSE IF s.topics = <<>>
      THEN EditUnless(Untouchable, section,
             [NoEdit EXCEPT !.set = {cleared, <<<<p, "topics">>, [n \in moving |-> AsTopic(entries[n])]>>}])
      ELSE EditUnless(Untouchable, section,
             [NoEdit EXCEPT
                !.set = {cleared}
                        \cup {<<<<p, "topics", n>>, AsTopic(entries[n])>> : n \in moving}
                        \cup UNION {{<<<<p, "topics", topic(n), f>>, Joined(s.topics[topic(n)], entries[n])[f]>> :
                                       f \in {"external", "type"}} : n \in changing},
                !.insert = {<<<<p, "topics", topic(n), "first">>, n>> : n \in changing}
                           \cup {<<<<p, "topics">>, "moved">> : x \in {x \in {1} : moving # {}}},
                !.delete = {section}])

ExternalTopicsToTopics(m, lay) ==
  Everywhere(Levels(m), LAMBDA p : ExternalTopicsOf(m, p, lay))

-----------------------------------------------------------------------------
(***************************************************************************)
(* guard_all_of_function: a group of topics becomes a function.            *)
(***************************************************************************)
\* <hazard>_all_of, then <hazard>_all_of_2 and so on.
GroupName(h, n) == h \o "_all_of" \o (IF n = 1 THEN "" ELSE "_" \o ToString(n))

\* The name of the k-th group of a hazard among names that are not taken.
FreeName(h, k, taken) ==
  LET free == {n \in 1..(k + Cardinality(taken)) : GroupName(h, n) \notin taken}
  IN  GroupName(h, CHOOSE n \in free : Cardinality({i \in free : i < n}) = k - 1)

Named(f) == [all_of |-> FALSE, members |-> <<f>>]

GuardAllOf(m, p, lay) ==
  LET s == m[p]
      taken == DOMAIN s.functions \cup DOMAIN s.topics
      key(h) == IF s.hazards[h].monitors # {} THEN "monitors" ELSE "guards"
      watching == {h \in DOMAIN s.hazards : s.hazards[h][key(h)] # {}}
      list(h) == TheOnly(s.hazards[h][key(h)])
      at(h, i) == <<p, "hazards", h, "group", i>>
      groups(h) == {i \in DOMAIN list(h) : list(h)[i].all_of /\ at(h, i) \notin lay.awkward}
      name(h, i) == FreeName(h, Cardinality({j \in groups(h) : j <= i}), taken)
      functions == <<p, "functions">>
      made == UNION {{<<h, i>> : i \in groups(h)} : h \in watching}
      left == UNION {{at(h, i) : i \in {i \in DOMAIN list(h) : list(h)[i].all_of}} : h \in watching} \cap lay.awkward
  IN  UNION {Skip(place) : place \in left}
      \cup IF made = {} THEN {}
           ELSE EditUnless(functions \in lay.awkward, functions,
                  [NoEdit EXCEPT
                     !.set = {<<<<p, "hazards", h, key(h)>>,
                                {[i \in DOMAIN list(h) |-> IF i \in groups(h) THEN Named(name(h, i)) ELSE list(h)[i]]}>> :
                                h \in {g[1] : g \in made}}
                             \cup {<<<<p, "functions", name(g[1], g[2])>>,
                                     [Function EXCEPT !.all_of = {list(g[1])[g[2]].members}]>> : g \in made},
                     !.insert = {<<<<p, IF s.functions # <<>> THEN "functions" ELSE "hazards">>, "group">>}])

GuardAllOfFunction(m, lay) == Everywhere(Levels(m), LAMBDA p : GuardAllOf(m, p, lay))

-----------------------------------------------------------------------------
(***************************************************************************)
(* use_implicit: what a level would have loaded without saying so.         *)
(***************************************************************************)
\* Names with a dot are extensions; the reference profiles.
Extensions == {"vehicle.braking", "rail.ebd"}
Profiles ==
  {"iso26262", "iec61508", "iec61511", "do178c", "iec62304", "iso13849", "en50129"}

WritesVehicleKeys(s) ==
  \/ \E h \in DOMAIN s.hazards : "entry_speed" \in DOMAIN s.hazards[h].keys
  \/ \E n \in DOMAIN s.nodes : \E p \in DOMAIN s.nodes[n].paths :
       ParamKeys \cap DOMAIN s.nodes[n].paths[p].safe_state.settle.keys # {}

StatesIntegrity(s) ==
  /\ \E h \in DOMAIN s.hazards : s.hazards[h].integrity # {} \/ s.hazards[h].severity # {}
  /\ s.integrity_levels = {} /\ s.severity_levels = {}

UseImplicitOf(m, p, lay) ==
  LET s == m[p]
      use == <<p, "use">>
      needs_vehicle == WritesVehicleKeys(s) /\ "vehicle.braking" \notin s.uses
      needs_levels == StatesIntegrity(s) /\ s.uses \cap Profiles = {}
      other == s.uses \cap Extensions
      unknown == s.uses \ (Extensions \cup Profiles)
      add == {x \in {"vehicle.braking"} : needs_vehicle /\ other = {}}
             \cup {x \in {"iso26262"} : needs_levels /\ unknown = {}}
      by_hand == (needs_vehicle /\ other # {}) \/ (needs_levels /\ unknown # {})
  IN  UNION {Skip(x) : x \in {x \in {use} : by_hand}}
      \cup IF add = {} THEN {}
           ELSE EditUnless(use \in lay.awkward, use,
                  [NoEdit EXCEPT !.set = {<<<<p, "uses">>, s.uses \cup add>>}, !.insert = {<<use, "use">>}])

UseImplicit(m, lay) == Everywhere(Levels(m), LAMBDA p : UseImplicitOf(m, p, lay))

-----------------------------------------------------------------------------
(***************************************************************************)
(* migrate_str.                                                            *)
(***************************************************************************)
\* REWRITES: all of them on the document as it was found.
Rewrites(m, lay) ==
  UNION {HazardReactionEnters(m, lay), ExitOnHolds(m, lay), PathInputTrigger(m, lay),
         ExternalTopicsToTopics(m, lay), TopicMaxTransportSubscribers(m, lay),
         NodePathDropTopic(m, lay), GuardAllOfFunction(m, lay), EntrySpeedUnit(m, lay),
         UseImplicit(m, lay), ExtParamRead(m, lay), SeverityIntegrity(m, lay),
         WindowMinDwell(m, lay), GuardsMonitors(m, lay), IngressArrivalCurve(m, lay),
         Aperiodic(m, lay), RuleIdRenamed(m, lay)}

Edits(rewrites) == {r \in rewrites : ~ r.skip}

\* Two insertions at one point, or two deletions of the comma between them.
Overlap(edits, lay) ==
  LET points == UNION {{<<r.at, i>> : i \in r.edit.insert} : r \in edits}
      deleted == UNION {r.edit.delete : r \in edits}
  IN  \/ \E x, y \in points : x # y /\ x[2][1] = y[2][1]
      \/ \E pair \in lay.comma : pair \subseteq deleted

\* The tree with another value at a place, which may be new.
RECURSIVE PutIn(_, _, _)
PutIn(tree, place, value) ==
  IF place = <<>> THEN value
  ELSE IF Head(place) \in DOMAIN tree
  THEN [tree EXCEPT ![Head(place)] = PutIn(@, Tail(place), value)]
  ELSE Head(place) :> value @@ tree

Exchanged(map, old, new) == [map EXCEPT ![old] = map[new], ![new] = map[old]]

RECURSIVE WithMoves(_, _), WithSets(_, _)
WithMoves(tree, moves) ==
  IF moves = {} THEN tree
  ELSE LET move == CHOOSE x \in moves : TRUE
       IN  WithMoves(PutIn(tree, move[1], Exchanged(At(tree, move[1]), move[2], move[3])), moves \ {move})

WithSets(tree, sets) ==
  IF sets = {} THEN tree
  ELSE LET set == CHOOSE x \in sets : TRUE IN WithSets(PutIn(tree, set[1], set[2]), sets \ {set})

\* All edits made; the new spelling of a key is free where the old one is renamed.
Applied(m, edits) ==
  WithMoves(WithSets(m, UNION {r.edit.set : r \in edits}), UNION {r.edit.move : r \in edits})

\* The migration is refused if edits overlap, or if it would make a file
\* unreadable that was readable.
CanMigrate(m, lay) ==
  LET edits == Edits(Rewrites(m, lay))
  IN  /\ ~ Overlap(edits, lay)
      /\ edits # {} /\ Refusals(m) = {} => Refusals(Applied(m, edits)) = {}

Migrated(m, lay) == Applied(m, Edits(Rewrites(m, lay)))
=============================================================================
