------------------------- MODULE MCBandCompression -------------------------
(***************************************************************************)
(* Every ranked plan of at most MaxItems items over two chains and the     *)
(* buckets outside them, against every band of at most MaxWidth levels.    *)
(***************************************************************************)
EXTENDS BandCompression

CONSTANTS c1, c2, MaxItems, MaxWidth

MCItems ==
  [fine : 0 .. MaxItems - 1, coarse : {c1, c2, NoChain},
   tie : (0 .. MaxItems - 1) \cup {NoTie}]

\* Groups are numbered from 0 in steps of at most one.
Numberings(k) ==
  {f \in [1 .. k -> 0 .. k - 1] :
     /\ k > 0 => f[1] = 0
     /\ \A i \in 1 .. k - 1 : f[i + 1] \in {f[i], f[i] + 1}}

\* The owners of the groups: the chains first; a name may come back.
Owners(g) ==
  {o \in [0 .. g - 1 -> {c1, c2, NoChain}] :
     \A i \in 1 .. g - 1 : o[i - 1] = NoChain => o[i] = NoChain}

\* The owner of a group decides its tie.
PlanOf(f, owner) ==
  [i \in DOMAIN f |->
     [fine |-> f[i], coarse |-> owner[f[i]],
      tie |-> IF owner[f[i]] = NoChain THEN f[i] ELSE NoTie]]

PlansOfLength(k) ==
  {PlanOf(fo[1], fo[2]) :
     fo \in UNION {{f} \X Owners(f[k] + 1) : f \in Numberings(k)}}

MCPlans == {<<>>} \cup UNION {PlansOfLength(k) : k \in 1 .. MaxItems}

MCBands == {[min |-> 10, max |-> 9 + w] : w \in 1 .. MaxWidth}
=============================================================================
