-------------------------- MODULE MCRankedMappers ---------------------------
(***************************************************************************)
(* Every system of four nodes over a few rates and deadlines, in two       *)
(* launch orders, on narrow, exact, wide and unusable bands.               *)
(***************************************************************************)
EXTENDS RankedMappers

Facts == [rate : {0, 2, 3, NoRate}, deadline : {5, NoDeadline}]
           \cup [rate : {7}, deadline : {5, 9}]

Node(m, f) == [name |-> m, rate |-> f.rate, deadline |-> f.deadline]

\* Four nodes, launched in the order of their names or in the opposite order, and
\* six with a fact each of their own.
MCInputs ==
  {[k \in 1 .. 4 |-> Node(k, f[k])] : f \in [1 .. 4 -> Facts]}
    \cup {[k \in 1 .. 3 |-> Node(4 - k, f[k])] : f \in [1 .. 3 -> Facts]}
    \cup {<<>>, [k \in 1 .. 6 |-> [name |-> k, rate |-> k, deadline |-> 7 - k]]}

Posix(band, slice) == [target |-> "posix", band |-> band, slice |-> slice]

\* The slices lie below, at and above the periods of 60 ticks per second.
MCPlatforms ==
  {Posix([min |-> 10, max |-> 10], 20), Posix([min |-> 10, max |-> 11], 4),
   Posix([min |-> 97, max |-> 99], NoSlice), Posix([min |-> 1, max |-> 6], 9),
   Posix([min |-> 5, max |-> 4], 9), Posix(NoBand, 9), [target |-> "raw"]}
=============================================================================
