--------------------------- MODULE PlanValidation ---------------------------
(***************************************************************************)
(* sched/src/validate.rs: what the caller checks of a plan before it is    *)
(* applied.  A plan is a sequence of tasks [name, priority, policy,        *)
(* members].                                                               *)
(***************************************************************************)
EXTENDS Integers, Sequences, FiniteSets

CONSTANT DefaultTask

\* PosixSched::priority: these policies carry no real-time priority.
WithoutPriority == {"other", "batch", "idle", "deadline"}

\* band_violations: the tasks whose priority lies outside the band.
BandViolations(plan, band) ==
  {t \in {plan[k] : k \in DOMAIN plan} :
     /\ t.name # DefaultTask
     /\ t.policy \notin WithoutPriority
     /\ t.priority \notin band.min .. band.max}

\* priority_by_node: tasks are scanned in order and the last one wins.
PriorityByNode(plan) ==
  [m \in UNION {plan[k].members : k \in DOMAIN plan} |->
     LET holders == {k \in DOMAIN plan : m \in plan[k].members}
     IN  plan[CHOOSE k \in holders : \A l \in holders : l <= k].priority]

\* scan_contradictions: pairs <<a, b>> where the fact puts a ahead of b and the
\* plan puts b ahead of a.  `urgency` holds the fact of the nodes that have one.
Contradictions(urgency, plan) ==
  LET prio == PriorityByNode(plan)
  IN  {ab \in (DOMAIN urgency \cap DOMAIN prio) \X (DOMAIN urgency \cap DOMAIN prio) :
         /\ urgency[ab[1]] > urgency[ab[2]]
         /\ prio[ab[1]] < prio[ab[2]]}
=============================================================================
