--------------------------- MODULE MCLongestRoute ----------------------------
(***************************************************************************)
(* Three nodes wired in every way, with paths of every kind; topic 4 comes *)
(* from outside.  And a few larger systems with forks, joins and nested    *)
(* scopes.                                                                 *)
(***************************************************************************)
EXTENDS LongestRoute

\* The endpoint a node publishes topic t with, and the one it subscribes with.
Out(t) == t
In(t) == 10 + t

OnInputs(ts) == [kind |-> "input", endpoints |-> {<<In(t)>> : t \in ts}]
Timer(period) == [kind |-> "timer", period |-> period]

P(name, trigger, outputs, cost) ==
  [name |-> name, trigger |-> trigger, outputs |-> outputs, latency |-> cost]

\* The kinds of node: one reaction; two, of which the first knows less; a timer; a
\* timer beside a reaction that publishes nothing; no path; a path that claims
\* nothing; a reaction of no declared cost.  Node m publishes topic m.
PathsOf(kind, m, subs) ==
  LET out == {<<m, Out(m)>>}
  IN  CASE kind = "relay" -> <<P(1, OnInputs(subs), out, m)>>
        [] kind = "two" -> <<P(1, OnInputs(subs \cap {1}), out, 4),
                             P(2, OnInputs(subs), {<<Out(m)>>}, m)>>
        [] kind = "timer" -> <<P(1, Timer(10), out, m)>>
        [] kind = "both" -> <<P(1, OnInputs(subs), {}, 7), P(2, Timer(5), out, m)>>
        [] kind = "bare" -> <<>>
        [] kind = "idle" -> <<P(1, NoTrigger, {}, m)>>
        [] kind = "free" -> <<P(1, OnInputs(subs), out, NoLatency)>>

N(name, scope, paths) ==
  [name |-> name, bare |-> name, scope |-> scope, effective |-> NoCriticality,
   label |-> NoCriticality, paths |-> paths, exclusive |-> NoExclusive,
   services |-> {}]

\* The places of a sequence of endpoints, in the order of the nodes.
Subscribers(t, subs) ==
  LET ms == SelectSeq(<<1, 2, 3>>, LAMBDA m : t \in subs[m])
  IN  [i \in DOMAIN ms |-> <<ms[i], In(t)>>]

Wiring(kinds, subs, states) ==
  [nodes |-> [m \in 1 .. 3 |-> N(m, 1, PathsOf(kinds[m], m, subs[m]))],
   topics |-> [t \in 1 .. 4 |->
                 [publishers |-> IF t < 4 THEN << <<t, Out(t)>> >> ELSE <<>>,
                  subscribers |-> Subscribers(t, subs),
                  transport |-> IF t = 1 THEN 2 ELSE NoTransport]],
   own |-> [ep \in {<<3, In(1)>>} |-> 9],
   states |-> states,
   parent |-> <<NoScope>>]

Kinds == {"relay", "two", "timer", "both", "bare", "free"}

Wirings ==
  {Wiring(<<k1, k2, k3>>, <<s1, s2, s3>>, states) :
     k1 \in {"relay", "timer"}, k2 \in Kinds, k3 \in {"relay", "two", "bare"},
     s1 \in {{4}, {3}}, s2 \in {{}, {1}, {1, 3}, {1, 2}},
     s3 \in {{1}, {2}, {1, 2}},
     states \in {{}, {<<2, In(3)>>, <<1, In(3)>>}}}

SP(scope, inputs, outputs) ==
  [scope |-> scope, name |-> 1, inputs |-> inputs, outputs |-> outputs, budget |-> 50]

T(pubs, subs, transport) ==
  [publishers |-> pubs, subscribers |-> subs, transport |-> transport]

Relay(m, scope, cost) ==
  N(m, scope, <<P(1, [kind |-> "input", endpoints |-> {<<11>>, <<m, 12>>}], {<<1>>}, cost)>>)

(***************************************************************************)
(* A fork of 1 to 2 and 3 that joins at 4 and ends at 5, in scopes that    *)
(* nest against the order of their names: 4 contains 3, 3 contains 2 and 2 *)
(* contains 1.  Topic 1 has a second publisher that is no node.            *)
(***************************************************************************)
ForkJoin(scopes, costs, own) ==
  [nodes |-> [m \in 1 .. 5 |-> Relay(m, scopes[m], costs[m])],
   topics |-> <<T(<< <<1, 1>>, <<9, 1>> >>, << <<2, 11>>, <<3, 11>> >>, 1),
                T(<< <<2, 1>>, <<3, 1>> >>, << <<4, 11>>, <<4, 12>> >>, NoTransport),
                T(<< <<4, 1>> >>, << <<5, 11>>, <<9, 11>> >>, 3),
                T(<< <<5, 1>> >>, <<>>, NoTransport)>>,
   own |-> own, states |-> {},
   parent |-> <<2, 3, 4, NoScope>>]

Forks ==
  {ForkJoin(scopes, costs, own) :
     scopes \in {<<1, 1, 1, 1, 1>>, <<4, 1, 2, 3, 1>>, <<1, 2, 4, 2, 3>>},
     costs \in {<<1, 2, 3, 1, 1>>, <<0, 0, 0, 0, 0>>, <<1, 3, 3, NoLatency, 1>>},
     own \in {<<>>, [ep \in {<<2, 11>>} |-> 6], [ep \in {<<4, 12>>} |-> 0]}}

MCRequests ==
  (Wirings \X {SP(1, {1}, {3})})
    \cup {r \in Wirings \X {SP(1, {1, 2}, {2, 3}), SP(1, {3}, {2})} :
            r[1].nodes[1] = N(1, 1, PathsOf("relay", 1, {3}))}
    \cup {r \in Wirings \X {SP(1, {4}, {3})} :
            r[1].nodes[1] = N(1, 1, PathsOf("relay", 1, {4}))}
    \cup (Forks \X {SP(s, i, o) : s \in {1, 3, 4}, i \in {{1}, {2, 8}}, o \in {{4}, {3}}})
=============================================================================
