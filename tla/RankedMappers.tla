--------------------------- MODULE RankedMappers ----------------------------
(***************************************************************************)
(* The mapper registry and its simple built-ins (sched/src/mapper.rs):     *)
(* `manual`, which ranks nothing, and `rate_monotonic` and                 *)
(* `deadline_monotonic`, which sort the nodes by one fact, collapse equal  *)
(* facts into one rank and spread the ranks linearly over the band.        *)
(*                                                                         *)
(* A node is a record [name, rate, deadline]; names are numbers in the     *)
(* order of the strings they stand for, rates whole Hz, deadlines ticks.   *)
(***************************************************************************)
EXTENDS PosixFacts, StableSort, PlanValidation, FiniteSetsExt, SequencesExt

CONSTANTS
  Inputs,          \* the sequences of nodes a caller may hand over
  Platforms,       \* the platform files it may come with
  NoRate, NoDeadline,
  TicksPerSecond   \* 1,000,000 in the code: periods are microseconds

ASSUME TicksAssumption == TicksPerSecond \in Nat \ {0}

\* The nodes are a list in which each stands once: plans and the maps behind them go
\* by its name.  A fact is a number or absent.
ASSUME InputsAssumption ==
  \A list \in Inputs :
    /\ list \in Seq(Range(list))
    /\ \A j, k \in DOMAIN list : list[j].name = list[k].name => j = k
    /\ \A nd \in Range(list) : /\ nd.name \in Int
                               /\ nd.rate \in Int \cup {NoRate}
                               /\ nd.deadline \in Int \cup {NoDeadline}


VARIABLES
  pc,
  mapper, nodes, platform,   \* the arguments
  queue,                     \* the nodes left to group, most urgent first
  groups,                    \* the ranks: sequences of nodes
  level,                     \* the priority of every rank
  warnings, tasks            \* the answer

args == <<mapper, nodes, platform>>
vars == <<pc, args, queue, groups, level, warnings, tasks>>

Names == {nd.name : nd \in Range(nodes)}

\* The names with_builtins registers, and one it does not.
MapperNames == {"manual", "rate_monotonic", "deadline_monotonic", "picas"}

-----------------------------------------------------------------------------
(***************************************************************************)
(* The fact each mapper ranks on.                                          *)
(***************************************************************************)
FactOf(nd) == IF mapper = "rate_monotonic" THEN nd.rate ELSE nd.deadline

HasFact(nd) ==
  FactOf(nd) # (IF mapper = "rate_monotonic" THEN NoRate ELSE NoDeadline)

\* A higher rate is more urgent, and so is a shorter deadline.
Urgency(nd) == IF mapper = "rate_monotonic" THEN nd.rate ELSE 0 - nd.deadline

\* Mutant of MoreUrgent: the lower rate and the longer deadline lead.
MoreUrgentReversed(a, b) ==
  Urgency(a) < Urgency(b) \/ (Urgency(a) = Urgency(b) /\ a.name < b.name)

MoreUrgent(a, b) ==
  Urgency(a) > Urgency(b) \/ (Urgency(a) = Urgency(b) /\ a.name < b.name)

\* period_from_rate: the rounded period; a rate that is not positive has none.
PeriodFromRate(rate) ==
  IF rate > 0 THEN (2 * TicksPerSecond + rate) \div (2 * rate) ELSE NoPeriod

PeriodOf(nd) ==
  IF mapper = "rate_monotonic" THEN PeriodFromRate(nd.rate) ELSE nd.deadline

Init ==
  /\ pc = "lookup"
  /\ mapper \in MapperNames
  /\ nodes \in Inputs
  /\ platform \in Platforms
  /\ queue = <<>> /\ groups = <<>> /\ level = <<>>
  /\ warnings = {} /\ tasks = <<>>

\* MapperRegistry::get.
LookupFails ==
  /\ pc = "lookup"
  /\ mapper = "picas"
  /\ pc' = "unknown"
  /\ UNCHANGED <<args, queue, groups, level, warnings, tasks>>

DefaultOf(members) ==
  IF members = {} THEN {}
  ELSE {[name |-> DefaultTask, priority |-> 0, policy |-> "other",
         members |-> members]}

\* ManualMapper::map: one default task, even when it has no members.
MapManually ==
  /\ pc = "lookup"
  /\ mapper = "manual"
  /\ tasks' = <<[name |-> DefaultTask, priority |-> 0, policy |-> "other",
                 members |-> Names]>>
  /\ pc' = "done"
  /\ UNCHANGED <<args, queue, groups, level, warnings>>

Ranks == mapper \in {"rate_monotonic", "deadline_monotonic"}

RefuseBand ==
  /\ pc = "lookup" /\ Ranks
  /\ BandVerdict(platform) # "ok"
  /\ pc' = "error"
  /\ UNCHANGED <<args, queue, groups, level, warnings, tasks>>

\* The nodes that have the fact, sorted.
Rank ==
  /\ pc = "lookup" /\ Ranks
  /\ BandVerdict(platform) = "ok"
  /\ queue' = SortedBy(Kept(nodes, {i \in DOMAIN nodes : HasFact(nodes[i])}), MoreUrgent)
  /\ pc' = "group"
  /\ UNCHANGED <<args, groups, level, warnings, tasks>>

-----------------------------------------------------------------------------
(***************************************************************************)
(* rank_groups: a node joins the last rank when its fact is exactly that   *)
(* of the rank's first node.                                               *)
(***************************************************************************)
\* Mutant of JoinsLast: every node is a rank of its own.
JoinsNone(nd) == FALSE

JoinsLast(nd) == groups # <<>> /\ FactOf(groups[Len(groups)][1]) = FactOf(nd)

JoinRank ==
  /\ pc = "group" /\ queue # <<>>
  /\ JoinsLast(Head(queue))
  /\ groups' = [groups EXCEPT ![Len(groups)] = Append(@, Head(queue))]
  /\ queue' = Tail(queue)
  /\ UNCHANGED <<pc, args, level, warnings, tasks>>

OpenRank ==
  /\ pc = "group" /\ queue # <<>>
  /\ ~ JoinsLast(Head(queue))
  /\ groups' = Append(groups, <<Head(queue)>>)
  /\ queue' = Tail(queue)
  /\ UNCHANGED <<pc, args, level, warnings, tasks>>

(***************************************************************************)
(* spread_priority: how far below the top of the band rank i of k lies,    *)
(* the whole number nearest to span * (i - 1) / (k - 1).  The code rounds  *)
(* a product of doubles: where the true value lies half way between two    *)
(* numbers the error of the product decides, so both are allowed.          *)
(***************************************************************************)
\* Mutant of Depths: divides by the number of ranks.
DepthsOfOneMore(i, k) ==
  LET span == platform.band.max - platform.band.min
  IN  IF k <= 1 THEN {0}
      ELSE {x \in 0 .. span : /\ 2 * k * x - k <= 2 * span * (i - 1)
                              /\ 2 * span * (i - 1) <= 2 * k * x + k}

Depths(i, k) ==
  LET span == platform.band.max - platform.band.min
      gaps == k - 1
  IN  IF k <= 1 THEN {0}
      ELSE {x \in 0 .. span : /\ 2 * gaps * x - gaps <= 2 * span * (i - 1)
                              /\ 2 * span * (i - 1) <= 2 * gaps * x + gaps}

Spread ==
  /\ pc = "group" /\ queue = <<>>
  /\ \E depth \in {d \in [DOMAIN groups -> 0 .. platform.band.max - platform.band.min] :
                     \A i \in DOMAIN d : d[i] \in Depths(i, Len(groups))} :
       level' = [i \in DOMAIN groups |-> platform.band.max - depth[i]]
  /\ pc' = "build"
  /\ UNCHANGED <<args, queue, groups, warnings, tasks>>

-----------------------------------------------------------------------------
(***************************************************************************)
(* build_ranked_plan.                                                      *)
(***************************************************************************)
Ranked == UNION {Range(groups[i]) : i \in DOMAIN groups}

PriorityOf ==
  [m \in {nd.name : nd \in Ranked} |->
     level[CHOOSE i \in DOMAIN groups : \E nd \in Range(groups[i]) : nd.name = m]]

ByName(m) == CHOOSE nd \in Range(nodes) : nd.name = m

PeriodByName == [m \in {nd.name : nd \in Ranked} |-> PeriodOf(ByName(m))]

\* A rank of one node is named after it, a shared rank after the fact: a node's
\* name sorts before any label.
NameOf(group) ==
  IF Len(group) = 1 THEN <<0, group[1].name>> ELSE <<1, FactOf(group[1])>>

\* Mutant of TaskOf: the policy is decided by the size of the rank.
TaskOfAlone(i, rr) ==
  [name |-> NameOf(groups[i]), priority |-> level[i],
   policy |-> IF Len(groups[i]) > 1 THEN "rr" ELSE "fifo",
   members |-> {nd.name : nd \in Range(groups[i])}]

\* The policy is read off the first member of the rank.
TaskOf(i, rr) ==
  [name |-> NameOf(groups[i]), priority |-> level[i],
   policy |-> IF Min({nd.name : nd \in Range(groups[i])}) \in rr THEN "rr" ELSE "fifo",
   members |-> {nd.name : nd \in Range(groups[i])}]

\* The default task has priority 0, below every real-time task.
TaskBefore(a, b) ==
  \/ a.priority > b.priority
  \/ a.priority = b.priority /\ a # b /\ LexLess(a.name, b.name)

Build ==
  /\ pc = "build"
  /\ LET rr == RRNodes(PriorityOf, PeriodByName, SliceOf(platform))
         rest == {nd.name : nd \in {x \in Range(nodes) : ~ HasFact(x)}}
     IN  tasks' = SortedBy(SetToSeq({TaskOf(i, rr) : i \in DOMAIN groups}
                                      \cup DefaultOf(rest)), TaskBefore)
  /\ warnings' = UnmitigatedTies(PriorityOf, PeriodByName, SliceOf(platform))
  /\ pc' = "done"
  /\ UNCHANGED <<args, queue, groups, level>>

Returned == pc \in {"done", "error", "unknown"} /\ UNCHANGED vars

Next == \/ LookupFails \/ MapManually \/ RefuseBand \/ Rank
        \/ JoinRank \/ OpenRank \/ Spread \/ Build
        \/ Returned

Spec == Init /\ [][Next]_vars

-----------------------------------------------------------------------------
(***************************************************************************)
(* Properties.                                                             *)
(***************************************************************************)
PlanMade == pc = "done" /\ Ranks

WithFact == {nd \in Range(nodes) : HasFact(nd)}

FactsInUse == {FactOf(nd) : nd \in WithFact}

\* The task that holds a node.
Holder(m) == CHOOSE t \in Range(tasks) : m \in t.members

\* "Equal facts earn equal priority": nodes share a task exactly when they share
\* the fact, whatever their names and the order they are launched in, and no node
\* is lost or placed twice.
EqualFactsShareOneTask ==
  PlanMade =>
    /\ \A m \in Names : Cardinality({k \in DOMAIN tasks : m \in tasks[k].members}) = 1
    /\ \A a, b \in Range(nodes) :
         Holder(a.name) = Holder(b.name) <=>
           HasFact(a) = HasFact(b) /\ (HasFact(a) => FactOf(a) = FactOf(b))

\* The checks of validate.rs find nothing to object to in a mapper's own plan:
\* no priority contradicts the fact it was derived from, none leaves the band.
PassesItsOwnValidation ==
  PlanMade =>
    /\ Contradictions([m \in {nd.name : nd \in WithFact} |-> Urgency(ByName(m))],
                      tasks) = {}
    /\ BandViolations(tasks, platform.band) = {}

\* While the band has a level for every fact, no two facts share one, and the
\* ranks reach from the top of the band to its foot.
BandIsSpentOnFacts ==
  PlanMade /\ FactsInUse # {} =>
    LET band == platform.band
        levels == {Holder(nd.name).priority : nd \in WithFact}
        facts == Cardinality(FactsInUse)
    IN  /\ facts <= band.max - band.min + 1 => Cardinality(levels) = facts
        /\ band.max \in levels
        /\ facts > 1 => band.min \in levels

\* Nodes that share a real-time priority, of one rank or of two that the band
\* could not keep apart, all rotate by a slice shorter than every period known of
\* them, or are reported together; a node alone keeps SCHED_FIFO.
TiesAreMitigated ==
  PlanMade =>
    \A nd \in WithFact :
      LET mine == Holder(nd.name)
          tied == {x \in WithFact : Holder(x.name).priority = mine.priority}
          names == {x.name : x \in tied}
          known == {PeriodOf(x) : x \in tied} \ {NoPeriod}
          slice == SliceOf(platform)
      IN  IF mine.policy = "rr"
          THEN /\ Cardinality(tied) > 1
               /\ \A x \in tied : Holder(x.name).policy = "rr"
               /\ slice # NoSlice /\ known # {} /\ \A p \in known : slice < p
          ELSE mine.policy = "fifo" /\ (Cardinality(tied) > 1 => names \in warnings)
=============================================================================
