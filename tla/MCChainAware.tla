---------------------------- MODULE MCChainAware ----------------------------
(***************************************************************************)
(* Two chains over four nodes, in every order of declaration, on hosts     *)
(* with narrow, wide, illegal and absent bands.                            *)
(***************************************************************************)
EXTENDS ChainAware

Timer(p, period) == [name |-> p, trigger |-> "timer", period |-> period,
                     latency |-> NoPeriod]
OnInput(p, latency) == [name |-> p, trigger |-> "input", period |-> NoPeriod,
                        latency |-> latency]
Once(p) == [name |-> p, trigger |-> "once", period |-> NoPeriod, latency |-> NoPeriod]

\* Node 1 has a timer and a reaction; nodes 2 and 4 are timers of one period when
\* no chain covers them; node 3 reacts; node 5 has nothing to rank it by.
PathsOf ==
  <<<<OnInput(1, 20), Timer(2, 40)>>, <<Timer(1, 10)>>, <<OnInput(1, NoPeriod)>>,
    <<Timer(1, 20)>>, <<Once(1)>>>>

Node(m, crit) == [name |-> m, criticality |-> crit, paths |-> PathsOf[m]]

\* The nodes, in launch order and in the opposite order; some are critical.
MCNodes ==
  {[k \in 1 .. 5 |-> Node(order[k], crit[order[k]])] :
     order \in {<<1, 2, 3, 4, 5>>, <<5, 4, 3, 2, 1>>},
     crit \in {<<3, 3, 3, 3, 3>>, <<1, 3, 3, 0, 3>>}}

Seg(links) == [kind |-> "segment", links |-> links]
Bound(link, period, exec) ==
  [kind |-> "boundary", link |-> link, period |-> period, exec |-> exec]

Routes ==
  {<<Seg(<< <<1, 1>>, <<3, 1>> >>)>>,
   <<Bound(<<4, 1>>, 20, 5), Bound(<<2, 1>>, 10, NoExec), Seg(<< <<3, 1>> >>)>>,
   <<Seg(<< <<1, 1>> >>), Bound(<<2, 1>>, 10, NoExec), Seg(<< <<3, 1>> >>)>>,
   <<Bound(<<4, 1>>, 20, 5)>>}

MCChains(names, budgets) ==
  [name : names, criticality : {0, 2}, budget : budgets, elements : Routes]

MCInputs ==
  [nodes : MCNodes,
   chains : {<<>>} \cup {<<c>> : c \in MCChains({1}, {12, 50})}
                   \cup {<<c, d>> : c \in MCChains({1, 2}, {50}),
                                    d \in MCChains({1}, {12, 50})}]

Posix(levels, slice) == [target |-> "posix", band |-> levels, slice |-> slice]

MCPlatforms ==
  {Posix([min |-> 10, max |-> 10], 15), Posix([min |-> 10, max |-> 11], 10),
   Posix([min |-> 97, max |-> 99], NoSlice), Posix([min |-> 1, max |-> 20], 9),
   Posix([min |-> 5, max |-> 4], 9), Posix([min |-> 0, max |-> 9], 9),
   Posix(NoBand, 9), [target |-> "raw"]}
=============================================================================
