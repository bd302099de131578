-------------------------- MODULE MCChainDerivation --------------------------
(***************************************************************************)
(* Pipelines of four nodes in two scopes with several scope paths each,    *)
(* and single nodes with every small declaration of exclusion.             *)
(***************************************************************************)
EXTENDS ChainDerivation

P(name, trigger, outputs, bound) ==
  [name |-> name, trigger |-> trigger, outputs |-> outputs, latency |-> bound]

Timer(period) == [kind |-> "timer", period |-> period]
OnInput(eps) == [kind |-> "input", endpoints |-> eps]
Once == [kind |-> "once"]

N(name, scope, effective, label, paths) ==
  [name |-> name, bare |-> 100 + (name % 2), scope |-> scope, effective |-> effective,
   label |-> label, paths |-> paths, exclusive |-> NoExclusive, services |-> {}]

\* Every node subscribes with endpoint 11 and publishes with endpoint 1.
First == {<<P(1, Timer(10), {<<1>>}, 1)>>, <<P(1, Timer(0), {<<1>>}, 1)>>,
          <<P(1, Once, {<<1>>}, 1), P(2, Timer(20), {<<1>>}, NoLatency)>>}
Third == {<<>>, <<P(1, NoTrigger, {<<1>>}, 3)>>,
          <<P(1, OnInput({<<11>>}), {<<3, 1>>}, 3)>>,
          <<P(1, OnInput({<<3, 11>>}), {<<1>>}, 2), P(2, Timer(5), {<<1>>}, 8)>>}
Relay == <<P(1, OnInput({<<11>>}), {<<1>>}, 4)>>

T(pubs, subs) == [publishers |-> pubs, subscribers |-> subs, transport |-> NoTransport]

SP(scope, name, inputs, outputs, budget) ==
  [scope |-> scope, name |-> name, inputs |-> inputs, outputs |-> outputs,
   budget |-> budget]

\* 1 to 2 to 3 to 4 and back to 2; scope 2 holds nodes 3 and 4.
Pipeline(first, third, ranks, feedback, states) ==
  [nodes |-> <<N(4, 2, ranks[4], 3, Relay), N(1, 1, ranks[1], 1, first),
               N(2, 1, ranks[2], 3, Relay), N(3, 2, ranks[3], 3, third)>>,
   topics |-> <<T(<< <<1, 1>> >>, << <<2, 11>> >>), T(<< <<2, 1>> >>, << <<3, 11>> >>),
                T(<< <<3, 1>> >>, << <<4, 11>> >>), T(<< <<4, 1>> >>, feedback)>>,
   own |-> <<>>, states |-> states, parent |-> <<NoScope, 1>>,
   scope_paths |-> <<SP(1, 1, {1}, {4}, 50), SP(1, 2, {2}, {3}, 50),
                     SP(2, 1, {3}, {4}, 30), SP(2, 2, {2}, {3}, NoBudget),
                     SP(2, 3, {2}, {3}, 30), SP(2, 4, {1}, {4}, 9)>>]

Pipelines ==
  {Pipeline(first, third, ranks, wires[1], wires[2]) :
     first \in First, third \in Third,
     ranks \in {<<3, 3, 3, 3>>, <<3, 1, 0, 2>>, <<2, 3, 0, 1>>},
     wires \in {<< <<>>, {} >>, << << <<2, 11>> >>, {} >>,
                << << <<2, 11>> >>, {<<2, 11>>} >>}}

Alone(paths, exclusive, services) ==
  [nodes |-> <<[N(1, 1, 3, 3, [k \in 1 .. paths |-> P(k, Once, {}, 10 + k)])
                 EXCEPT !.exclusive = exclusive, !.services = services]>>,
   topics |-> <<>>, own |-> <<>>, states |-> {}, parent |-> <<NoScope>>,
   scope_paths |-> <<>>]

Sets == {{}, {1}, {1, 2}, {2, 3}, {3, 4}, {1, 4}, {4, 5}}

Declarations ==
  {NoExclusive, <<>>} \cup {<<a, b>> : a, b \in Sets}
                      \cup {<<a, b, c>> : a, b, c \in Sets \ {{}}}

MCViews ==
  Pipelines \cup {Alone(n, d, {5}) : n \in {1, 3, 4}, d \in Declarations}

MCCosts ==
  {[path |-> <<>>, node |-> <<>>],
   [path |-> [l \in {<<1, 1>>, <<3, 2>>} |-> 2], node |-> [m \in {1, 3, 101} |-> 6]]}
=============================================================================
