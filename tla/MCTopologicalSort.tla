-------------------------- MODULE MCTopologicalSort --------------------------
(***************************************************************************)
(* Every graph of up to three vertices and four edges, self-loops and      *)
(* parallel edges included, and some of five vertices.                     *)
(***************************************************************************)
EXTENDS TopologicalSort

Edge(a, b) == [from |-> a, to |-> b]

Edges(n) == [from : 1 .. n, to : 1 .. n]

Small == UNION {[n : {n}, edges : UNION {[1 .. m -> Edges(n)] : m \in 0 .. 4}] : n \in 1 .. 3}

\* Two orders of every choice of edges among these, with and without the last two,
\* which close cycles.
Candidates ==
  <<Edge(1, 3), Edge(2, 3), Edge(3, 5), Edge(1, 5), Edge(5, 4), Edge(2, 4), Edge(4, 2),
    Edge(5, 1)>>

Chosen(S, up) ==
  SelectSeq([k \in 1 .. 8 |-> Candidates[IF up THEN k ELSE 9 - k]],
            LAMBDA e : \E k \in S : Candidates[k] = e)

Large == {[n |-> 5, edges |-> Chosen(S, up)] : S \in SUBSET (1 .. 8), up \in BOOLEAN}

MCGraphs == Small \cup Large \cup {[n |-> 0, edges |-> <<>>]}
=============================================================================
