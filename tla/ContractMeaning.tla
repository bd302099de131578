--------------------------- MODULE ContractMeaning ---------------------------
(***************************************************************************)
(* What a contract says, whatever the spelling: the reference migrations   *)
(* are held against.  Each operator reads the old spelling and the new one *)
(* alike, as the releases that knew them did.                              *)
(***************************************************************************)
EXTENDS Contracts

\* What a hazard starts: a mode of its own scope first, else an event chain.
Response(s, h) ==
  IF h.enters # {} THEN <<"mode", h.enters, h.reaction>>
  ELSE IF h.reaction \cap DOMAIN s.modes # {} THEN <<"mode", h.reaction, {}>>
  ELSE <<"chain", {}, h.reaction>>

\* What is watched for a fault: topics alone, or groups of redundant ones that
\* are written in place or named by a function.
Watched(s, h) ==
  LET WhatIs(g) ==
        LET named == {f \in Range(g.members) \cap DOMAIN s.functions :
                        ~ g.all_of /\ s.functions[f].all_of # {}}
        IN  IF named # {} THEN <<TRUE, TheOnly(s.functions[TheOnly(named)].all_of)>>
            ELSE <<g.all_of, g.members>>
  IN  {[i \in DOMAIN gs |-> WhatIs(gs[i])] : gs \in h.monitors \cup h.guards}

HazardMeaning(s) ==
  [h \in DOMAIN s.hazards |->
     [response |-> Response(s, s.hazards[h]),
      integrity |-> s.hazards[h].integrity \cup s.hazards[h].severity,
      watched |-> Watched(s, s.hazards[h])]]

\* How long a mode lasts, and what ends it.
ModeMeaning(s) ==
  [k \in DOMAIN s.modes |->
     [dwell |-> s.modes[k].min_dwell \cup s.modes[k].window,
      ends |-> s.modes[k].exit.holds \cup s.modes[k].exit.on,
      to |-> s.modes[k].exit.to]]

\* What causes a path.
TriggerMeaning(path) ==
  LET t == EffectiveTrigger(path)
  IN  IF t.kind = "spontaneous" THEN [t EXCEPT !.kind = "aperiodic"] ELSE t

NodeMeaning(s) ==
  [n \in DOMAIN s.nodes |->
     LET nd == s.nodes[n]
     IN  [triggers |-> [p \in DOMAIN nd.paths |-> TriggerMeaning(nd.paths[p])],
          curves |-> [e \in DOMAIN nd.sub |-> nd.sub[e].curve \cup nd.sub[e].ingress],
          aperiodic |-> [e \in DOMAIN nd.pub |-> nd.pub[e].aperiodic \cup nd.pub[e].on_demand]]]

\* How long each message of a topic is on its way: what its link takes, else
\* what the subscriber says, else what the topic says.
Transit(s, t) ==
  LET Takes(r) ==
        IF \E e \in Subscriber(s, r) : e.link # {}
        THEN <<"link", UNION {e.link : e \in Subscriber(s, r)}>>
        ELSE <<"time", EdgeTransport(SubTransport(s, r), s.topics[t].transport)>>
  IN  IF s.topics[t].sub = <<>> THEN {<<"time", {d}>> : d \in s.topics[t].transport}
      ELSE {<<r, Takes(r)>> : r \in Range(s.topics[t].sub)}

\* What a topic may lose: its own statement and those of the paths whose one
\* output it alone carries.
Losing(s, t) ==
  LET Carried(n, p) ==
        LET out == s.nodes[n].paths[p].output
        IN  Len(out) = 1 /\ {u \in DOMAIN s.topics : <<Word(n)>> \o out[1] \in Range(s.topics[u].pub)} = {t}
  IN  s.topics[t].drop
      \cup UNION {UNION {s.nodes[n].paths[p].drop : p \in {p \in DOMAIN s.nodes[n].paths : Carried(n, p)}} :
                    n \in DOMAIN s.nodes}

\* Which side of a topic is elsewhere and what is known of it, said in either
\* section; at the root namespace a name with the slash is the same.
TopicMeaning(s, p) ==
  LET Name(t) == IF p = Root THEN Bare(t) ELSE t
      topics(n) == {t \in DOMAIN s.topics : Name(t) = n}
      entries(n) == {s.external_topics[t] : t \in {t \in DOMAIN s.external_topics : Name(t) = n}}
  IN  [n \in {Name(t) : t \in DOMAIN s.topics \cup DOMAIN s.external_topics} |->
         [external |-> UNION ({s.topics[t].external : t \in topics(n)}
                              \cup {IF e.side # {} THEN e.side ELSE e.external : e \in entries(n)}),
          types |-> ({s.topics[t].type : t \in topics(n)} \ {<<>>})
                    \cup UNION {e.type : e \in entries(n)},
          qos |-> ({s.topics[t].qos : t \in topics(n)} \cup {e.qos : e \in entries(n)}) \ {NoQos},
          transit |-> UNION {Transit(s, t) : t \in topics(n)},
          losing |-> UNION {Losing(s, t) : t \in topics(n)}]]

\* The levels a contract's integrity is measured on.
LevelMeaning(s) == s.integrity_levels \cup s.severity_levels

Meaning(m) ==
  [p \in DOMAIN m |->
     [hazards |-> HazardMeaning(m[p]), modes |-> ModeMeaning(m[p]), nodes |-> NodeMeaning(m[p]),
      chains |-> [c \in DOMAIN m[p].paths |-> TriggerMeaning(m[p].paths[c])],
      topics |-> TopicMeaning(m[p], p), levels |-> LevelMeaning(m[p])]]

-----------------------------------------------------------------------------
\* Whether the path of an acknowledgement leads to something that is written.
RECURSIVE LeadsFrom(_, _, _)
LeadsFrom(m, p, path) ==
  LET key(i) == path[i].key
  IN  \/ Len(path) = 1 /\ key(1) \in {"severity_levels", "integrity_levels"} /\ m[p][key(1)] # {}
      \/ /\ Len(path) = 3 /\ key(1) \in {"hazards", "modes"}
         /\ key(2) \in DOMAIN m[p][key(1)]
         /\ key(3) \in DOMAIN m[p][key(1)][key(2)]
         /\ m[p][key(1)][key(2)][key(3)] # {}
      \/ /\ Len(path) > 2 /\ key(1) = "includes"
         /\ Append(p, key(2)) \in DOMAIN m
         /\ LeadsFrom(m, Append(p, key(2)), SubSeq(path, 3, Len(path)))

Leads(m, path) == LeadsFrom(m, Root, path)

\* The places of the file where a spelling of an earlier release is left.
OldSpellings(m) ==
  UNION {LET s == m[p]
             In(section, old) ==
               UNION {{<<p, section, n, k>> : k \in {k \in old : s[section][n][k] # {}}} : n \in DOMAIN s[section]}
             Of(n, side, old) ==
               {<<p, "nodes", n, side, e, old>> : e \in {e \in DOMAIN s.nodes[n][side] : s.nodes[n][side][e][old] # {}}}
             OldPath(path) ==
               {k \in {"input"} : path.input # <<>>}
               \cup {k \in {"trigger"} : \E t \in path.trigger : t.kind = "spontaneous"}
             GroupsOf(h) == UNION {{i \in DOMAIN gs : gs[i].all_of} : gs \in h.monitors \cup h.guards}
             As(form, map) == {k \in DOMAIN map : map[k] = form}
         IN  UNION {
               {<<p, k>> : k \in {k \in {"severity_levels"} : s[k] # {}}},
               UNION {{<<p, "hazards", h, "group", i>> : i \in GroupsOf(s.hazards[h])} : h \in DOMAIN s.hazards},
               {<<p, k>> : k \in {k \in {"external_topics"} : DOMAIN s[k] # {}}},
               In("hazards", {"severity", "guards"}), In("modes", {"window"}), In("topics", {"transport"}),
               UNION {{<<p, "hazards", h, "keys", k>> : k \in As("number", s.hazards[h].keys)} : h \in DOMAIN s.hazards},
               UNION {{<<p, "paths", c, k>> : k \in OldPath(s.paths[c])} : c \in DOMAIN s.paths},
               UNION {Of(n, "sub", "ingress") \cup Of(n, "pub", "on_demand") : n \in DOMAIN s.nodes},
               UNION {UNION {{<<p, "nodes", n, "paths", c, k>> :
                                k \in OldPath(s.nodes[n].paths[c])
                                      \cup {k \in {"drop"} : s.nodes[n].paths[c].drop # {}}} :
                               c \in DOMAIN s.nodes[n].paths} : n \in DOMAIN s.nodes},
               UNION {UNION {{<<p, "nodes", n, "paths", c, "safe_state", "settle", "keys", k>> :
                                k \in As("name", s.nodes[n].paths[c].safe_state.settle.keys)} :
                               c \in DOMAIN s.nodes[n].paths} : n \in DOMAIN s.nodes},
               \* of the file's own: what enters a mode, and what ends one
               {<<p, "hazards", h, "reaction">> :
                  h \in {h \in DOMAIN s.hazards : p = Root /\ s.hazards[h].enters = {}
                                                    /\ s.hazards[h].reaction \cap DOMAIN s.modes # {}}},
               {<<p, "modes", k, "exit", "on">> :
                  k \in {k \in DOMAIN s.modes : p = Root /\ s.modes[k].exit.on # {} /\ s.modes[k].exit.holds = {}}}} :
           p \in {p \in DOMAIN m : "manifest" \notin m[p].unknown}}
=============================================================================
