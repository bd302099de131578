----------------------------- MODULE ChainAware -----------------------------
(***************************************************************************)
(* The `chain_aware` mapper (sched/src/chain_aware_mapper.rs), as called:  *)
(* chain_aware_rank judges the declared chains, orders the feasible ones,  *)
(* walks each from its sink to its source and appends the paths outside    *)
(* every chain; realize_posix then asks the platform for its band, fits    *)
(* the ranked plan into it (BandLoop), gives every node the best priority  *)
(* of its paths and decides what a tie means (PosixFacts).                 *)
(*                                                                         *)
(* Names are numbers in the order of the strings they stand for.  Times    *)
(* are whole numbers of one unit.  Criticality is its rank, 0 for high to  *)
(* 2 for low and 3 for none.  A link is a pair <<node, path>>.  An input   *)
(* is a record:                                                            *)
(*   chains  sequence of [name, criticality, budget, elements], where an   *)
(*           element is [kind |-> "segment", links] or                     *)
(*           [kind |-> "boundary", link, period, exec];                    *)
(*   nodes   sequence of [name, criticality, paths], where a path is       *)
(*           [name, trigger, period, latency].                             *)
(***************************************************************************)
EXTENDS BandLoop, PosixFacts, StableSort, SequencesExt

CONSTANTS
  Inputs,       \* what a caller may hand over
  Platforms,    \* the platform files it may come with
  NoExec,       \* a boundary without a declared WCET
  DefaultTask   \* the name of the synthesized task

Links == Nat \X Nat

\* An element of a declared chain: what its kind carries along.
IsElement(e) ==
  IF e.kind = "boundary"
  THEN e.link \in Links /\ e.period \in Int /\ e.exec \in Int \cup {NoExec}
  ELSE e.links \in Seq(Links)

IsChain(c) ==
  /\ c.name \in Nat /\ c.criticality \in Int /\ c.budget \in Int
  /\ c.elements \in Seq(Range(c.elements))
  /\ \A e \in Range(c.elements) : IsElement(e)

IsNode(nd) ==
  /\ nd.name \in Nat /\ nd.criticality \in Int
  /\ nd.paths \in Seq(Range(nd.paths))
  /\ \A p \in Range(nd.paths) : /\ p.name \in Nat
                                /\ p.period \in Int \cup {NoPeriod}
                                /\ p.latency \in Int \cup {NoPeriod}

\* Lists of chains and nodes; a node stands in its list once, since the plan and the
\* maps behind it go by its name.  Two chains may have one name.
ASSUME InputsAssumption ==
  \A in \in Inputs :
    /\ in.chains \in Seq(Range(in.chains)) /\ \A c \in Range(in.chains) : IsChain(c)
    /\ in.nodes \in Seq(Range(in.nodes)) /\ \A nd \in Range(in.nodes) : IsNode(nd)
    /\ \A a, b \in DOMAIN in.nodes : in.nodes[a].name = in.nodes[b].name => a = b

\* What stands for an absent value is none of the values.
ASSUME AbsenceAssumption == NoChain \notin Nat /\ NoTie \notin Nat

ASSUME DefaultTaskAssumption == DefaultTask \in Int

VARIABLES
  pc,
  input, platform,   \* the arguments
  at,                \* the chain the loop of the ranker looks at
  pos,               \* how many elements of that chain are left
  candidates,        \* the feasible chains
  counter,           \* the next group number
  best,              \* the priority of every ranked node
  warnings, tasks    \* the answer

args == <<input, platform>>
ranking == <<at, pos, candidates, counter>>
compressing == <<stage, band, idx, starts, prio, overflow>>
vars == <<pc, args, ranking, items, compressing, best, warnings, tasks>>

-----------------------------------------------------------------------------
(***************************************************************************)
(* Feasibility.                                                            *)
(***************************************************************************)
IsBoundary(e) == e.kind = "boundary"

\* What a timer on the way costs: its period and its WCET, if declared.
TimerCost(e) ==
  IF IsBoundary(e) THEN e.period + (IF e.exec = NoExec THEN 0 ELSE e.exec) ELSE 0

\* The sum over the chain, added up from its source.
SamplingCost(chain) ==
  LET upTo[k \in 0 .. Len(chain.elements)] ==
        IF k = 0 THEN 0 ELSE upTo[k - 1] + TimerCost(chain.elements[k])
  IN  upTo[Len(chain.elements)]

\* What is left of the budget for scheduling to shape.
Controllable(chain) == chain.budget - SamplingCost(chain)

Feasible(chain) == Controllable(chain) > 0

\* A verdict that counted an absent WCET as zero says so.
LacksEvidence(chain) ==
  \E e \in Range(chain.elements) : IsBoundary(e) /\ e.exec = NoExec

\* Mutant of ChainBefore: slack is forgotten.
ChainBeforeByName(c, d) ==
  \/ c.criticality < d.criticality
  \/ c.criticality = d.criticality /\ c.name < d.name

\* Critical chains first, then those with the least slack, then by name.
ChainBefore(c, d) ==
  \/ c.criticality < d.criticality
  \/ /\ c.criticality = d.criticality
     /\ \/ Controllable(c) < Controllable(d)
        \/ Controllable(c) = Controllable(d) /\ c.name < d.name

Init ==
  /\ pc = "judge"
  /\ input \in Inputs
  /\ platform \in Platforms
  /\ at = 1 /\ pos = 0 /\ candidates = <<>> /\ counter = 0
  /\ items = <<>>
  /\ stage = "seed" /\ band = NoBand /\ idx = 1 /\ starts = {} /\ prio = <<>>
  /\ overflow = NoOverflow
  /\ best = <<>>
  /\ warnings = {}
  /\ tasks = <<>>

\* A feasible chain becomes a candidate ...
Admit ==
  /\ pc = "judge" /\ at <= Len(input.chains)
  /\ Feasible(input.chains[at])
  /\ candidates' = Append(candidates, input.chains[at])
  /\ warnings' = IF LacksEvidence(input.chains[at])
                 THEN warnings \cup {[kind |-> "without_wcet",
                                      chain |-> input.chains[at].name]}
                 ELSE warnings
  /\ at' = at + 1
  /\ UNCHANGED <<pc, args, pos, counter, items, compressing, best, tasks>>

\* ... an infeasible one is reported and shapes nothing.
Reject ==
  /\ pc = "judge" /\ at <= Len(input.chains)
  /\ ~ Feasible(input.chains[at])
  /\ warnings' = warnings \cup {[kind |-> "infeasible",
                                 chain |-> input.chains[at].name]}
  /\ at' = at + 1
  /\ UNCHANGED <<pc, args, pos, candidates, counter, items, compressing, best, tasks>>

ElementsOf(cs, k) == IF k <= Len(cs) THEN Len(cs[k].elements) ELSE 0

OrderChains ==
  /\ pc = "judge" /\ at > Len(input.chains)
  /\ candidates' = SortedBy(candidates, ChainBefore)
  /\ at' = 1
  /\ pos' = ElementsOf(candidates', 1)
  /\ pc' = "walk"
  /\ UNCHANGED <<args, counter, items, compressing, best, warnings, tasks>>

-----------------------------------------------------------------------------
(***************************************************************************)
(* chain_item_order: from the sink to the source.                          *)
(***************************************************************************)
ChainItem(link) == [link |-> link, fine |-> counter, coarse |-> candidates[at].name,
                    tie |-> NoTie]

\* Mutant of EmitSegment: a segment is drained from its source.
EmitSegmentForward ==
  /\ pc = "walk" /\ pos > 0
  /\ ~ IsBoundary(candidates[at].elements[pos])
  /\ LET links == candidates[at].elements[pos].links
     IN  items' = items \o [k \in DOMAIN links |-> ChainItem(links[k])]
  /\ counter' = counter + 1
  /\ pos' = pos - 1
  /\ UNCHANGED <<pc, args, at, candidates, compressing, best, warnings, tasks>>

EmitSegment ==
  /\ pc = "walk" /\ pos > 0
  /\ ~ IsBoundary(candidates[at].elements[pos])
  /\ LET links == Reverse(candidates[at].elements[pos].links)
     IN  items' = items \o [k \in DOMAIN links |-> ChainItem(links[k])]
  /\ counter' = counter + 1
  /\ pos' = pos - 1
  /\ UNCHANGED <<pc, args, at, candidates, compressing, best, warnings, tasks>>

\* Where the maximal run of boundaries that ends at element i begins.
RunStart(elements, i) ==
  Min({s \in 1 .. i : \A k \in s .. i : IsBoundary(elements[k])})

\* Within a run the shorter period leads, then the node's name.
RateMonotonic(e, f) ==
  e.period < f.period \/ (e.period = f.period /\ e.link[1] < f.link[1])

EmitBoundaryRun ==
  /\ pc = "walk" /\ pos > 0
  /\ IsBoundary(candidates[at].elements[pos])
  /\ LET elements == candidates[at].elements
         first == RunStart(elements, pos)
         run == SortedBy(SubSeq(elements, first, pos), RateMonotonic)
     IN  /\ items' = items \o [k \in DOMAIN run |-> ChainItem(run[k].link)]
         /\ pos' = first - 1
  /\ counter' = counter + 1
  /\ UNCHANGED <<pc, args, at, candidates, compressing, best, warnings, tasks>>

NextChain ==
  /\ pc = "walk" /\ pos = 0 /\ at <= Len(candidates)
  /\ at' = at + 1
  /\ pos' = ElementsOf(candidates, at + 1)
  /\ UNCHANGED <<pc, args, candidates, counter, items, compressing, best, warnings,
                 tasks>>

-----------------------------------------------------------------------------
(***************************************************************************)
(* non_chain_item_order: the paths that no feasible chain covers.          *)
(***************************************************************************)
\* The one time budget a path brings along: a period or a deadline.
PathBudget(path) ==
  CASE path.trigger = "timer" -> path.period
    [] path.trigger = "input" -> path.latency
    [] OTHER                  -> NoPeriod

Covered == {it.link : it \in Range(items)}

PathLink(node, path) == <<node.name, path.name>>

\* Where the paths stand that have a time budget and lie in no chain.
Uncovered ==
  {w \in UNION {{<<a, b>> : b \in DOMAIN input.nodes[a].paths} :
                a \in DOMAIN input.nodes} :
     LET node == input.nodes[w[1]]
         path == node.paths[w[2]]
     IN  PathBudget(path) # NoPeriod /\ PathLink(node, path) \notin Covered}

FactAt(w) ==
  LET node == input.nodes[w[1]]
      path == node.paths[w[2]]
  IN  [link |-> PathLink(node, path), criticality |-> node.criticality,
       budget |-> PathBudget(path)]

\* Node by node and path by path.
Facts ==
  LET visited == SortedBy(SetToSeq(Uncovered), LexLess)
  IN  [k \in DOMAIN visited |-> FactAt(visited[k])]

\* High criticality first, then the shorter budget, then the node's name.
FactBefore(f, g) ==
  \/ f.criticality < g.criticality
  \/ /\ f.criticality = g.criticality
     /\ \/ f.budget < g.budget
        \/ f.budget = g.budget /\ f.link[1] < g.link[1]

SameFact(f, g) == f.criticality = g.criticality /\ f.budget = g.budget

\* How many buckets of equal facts there are up to position k.
Bucket(facts, k) == Cardinality({m \in 2 .. k : ~ SameFact(facts[m - 1], facts[m])})

EmitRest ==
  /\ pc = "walk" /\ at > Len(candidates)
  /\ LET facts == SortedBy(Facts, FactBefore)
         item(k) == [link |-> facts[k].link, fine |-> counter + Bucket(facts, k),
                     coarse |-> NoChain, tie |-> counter + Bucket(facts, k)]
     IN  items' = items \o [k \in DOMAIN facts |-> item(k)]
  /\ pc' = "realize"
  /\ UNCHANGED <<args, ranking, compressing, best, warnings, tasks>>

-----------------------------------------------------------------------------
(***************************************************************************)
(* realize_posix.                                                          *)
(***************************************************************************)
\* Without a band that Linux accepts there is no plan.
RefuseBand ==
  /\ pc = "realize"
  /\ BandVerdict(platform) # "ok"
  /\ pc' = "error"
  /\ UNCHANGED <<args, ranking, items, compressing, best, warnings, tasks>>

AcceptBand ==
  /\ pc = "realize"
  /\ BandVerdict(platform) = "ok"
  /\ band' = platform.band
  /\ pc' = "compress"
  /\ UNCHANGED <<args, ranking, items, stage, idx, starts, prio, overflow, best,
                 warnings, tasks>>

Compress ==
  /\ pc = "compress"
  /\ Step
  /\ UNCHANGED <<pc, args, ranking, best, warnings, tasks>>

RankedNodes == {it.link[1] : it \in Range(items)}

\* Mutant of Project: the last path of a node decides, not the best.
ProjectLast ==
  /\ pc = "compress" /\ stage = "done"
  /\ best' = [m \in RankedNodes |->
                Min({prio[i] : i \in {k \in DOMAIN items : items[k].link[1] = m}})]
  /\ warnings' = IF overflow = NoOverflow THEN warnings
                 ELSE warnings \cup {[kind |-> "narrow", report |-> overflow]}
  /\ pc' = "place"
  /\ UNCHANGED <<args, ranking, items, compressing, tasks>>

\* Mutant of Project: a band that is too narrow is not reported.
ProjectSilently ==
  /\ pc = "compress" /\ stage = "done"
  /\ best' = [m \in RankedNodes |->
                Max({prio[i] : i \in {k \in DOMAIN items : items[k].link[1] = m}})]
  /\ pc' = "place"
  /\ UNCHANGED <<args, ranking, items, compressing, warnings, tasks>>

\* A node's priority is the best of its ranked paths.
Project ==
  /\ pc = "compress" /\ stage = "done"
  /\ best' = [m \in RankedNodes |->
                Max({prio[i] : i \in {k \in DOMAIN items : items[k].link[1] = m}})]
  /\ warnings' = IF overflow = NoOverflow THEN warnings
                 ELSE warnings \cup {[kind |-> "narrow", report |-> overflow]}
  /\ pc' = "place"
  /\ UNCHANGED <<args, ranking, items, compressing, tasks>>

\* shortest_node_budget_us, of a node nothing is known of too.
NodeBudget ==
  [m \in DOMAIN best |->
     LET paths == UNION {Range(nd.paths) : nd \in {x \in Range(input.nodes) : x.name = m}}
         budgets == {PathBudget(p) : p \in paths} \ {NoPeriod}
     IN  IF budgets = {} THEN NoPeriod ELSE Min(budgets)]

Tie(t) == [kind |-> "tie", nodes |-> t]

TaskOf(m, rr) ==
  [name |-> m, priority |-> best[m], members |-> {m},
   policy |-> IF m \in rr THEN "rr" ELSE "fifo"]

\* The nodes without a rank share the default task, at priority 0.
DefaultTasks ==
  LET rest == {nd.name : nd \in Range(input.nodes)} \ DOMAIN best
  IN  IF rest = {} THEN {}
      ELSE {[name |-> DefaultTask, priority |-> 0, members |-> rest,
             policy |-> "other"]}

TaskBefore(a, b) ==
  a.priority > b.priority \/ (a.priority = b.priority /\ a.name < b.name)

\* Mutant of Place: ties in a wide band are not looked at.
PlaceWhenNarrow ==
  /\ pc = "place"
  /\ LET slice == IF overflow = NoOverflow THEN NoSlice ELSE SliceOf(platform)
         rr == RRNodes(best, NodeBudget, slice)
     IN  /\ tasks' = SortedBy(SetToSeq({TaskOf(m, rr) : m \in DOMAIN best}
                                         \cup DefaultTasks), TaskBefore)
         /\ warnings' = warnings \cup
              {Tie(t) : t \in UnmitigatedTies(best, NodeBudget, SliceOf(platform))}
  /\ pc' = "done"
  /\ UNCHANGED <<args, ranking, items, compressing, best>>

Place ==
  /\ pc = "place"
  /\ LET slice == SliceOf(platform)
         rr == RRNodes(best, NodeBudget, slice)
     IN  /\ tasks' = SortedBy(SetToSeq({TaskOf(m, rr) : m \in DOMAIN best}
                                         \cup DefaultTasks), TaskBefore)
         /\ warnings' = warnings \cup
              {Tie(t) : t \in UnmitigatedTies(best, NodeBudget, slice)}
  /\ pc' = "done"
  /\ UNCHANGED <<args, ranking, items, compressing, best>>

Rank == \/ Admit \/ Reject \/ OrderChains
        \/ EmitSegment \/ EmitBoundaryRun \/ NextChain \/ EmitRest

Realize == RefuseBand \/ AcceptBand \/ Compress \/ Project \/ Place

\* The call has returned.
Returned == pc \in {"done", "error"} /\ UNCHANGED vars

Next == Rank \/ Realize \/ Returned

Spec == Init /\ [][Next]_vars

-----------------------------------------------------------------------------
(***************************************************************************)
(* The ranking the design asks for, without the loops: everything that has *)
(* a claim to a rank, with the key that places it.                         *)
(***************************************************************************)
LinksOf(e) == IF IsBoundary(e) THEN <<e.link>> ELSE e.links

\* The element that closes the maximal run of boundaries e is part of.
RunEnd(elements, e) ==
  Max({g \in e .. Len(elements) :
         g = e \/ \A h \in e .. g : IsBoundary(elements[h])})

ChainClaim(c, e, k) ==
  LET chain == input.chains[c]
      elem == chain.elements[e]
      group == <<0, chain.criticality, chain.budget - SamplingCost(chain), chain.name,
                 c, 0 - RunEnd(chain.elements, e)>>
  IN  [link |-> LinksOf(elem)[k], chain |-> c, owner |-> <<chain.name>>, group |-> group,
       key |-> group \o (IF IsBoundary(elem) THEN <<elem.period, elem.link[1], e>>
                                              ELSE <<0 - k>>)]

ChainClaims ==
  {ChainClaim(w[1], w[2], w[3]) :
     w \in UNION {UNION {{<<c, e, k>> :
                            k \in DOMAIN LinksOf(input.chains[c].elements[e])} :
                         e \in DOMAIN input.chains[c].elements} :
                  c \in {d \in DOMAIN input.chains : Feasible(input.chains[d])}}}

PathClaim(a, b) ==
  LET node == input.nodes[a]
      group == <<1, node.criticality, PathBudget(node.paths[b])>>
  IN  [link |-> <<node.name, node.paths[b].name>>, chain |-> 0, owner |-> group, group |-> group,
       key |-> group \o <<node.name, b>>]

PathClaims ==
  {PathClaim(w[1], w[2]) :
     w \in {v \in UNION {{<<a, b>> : b \in DOMAIN input.nodes[a].paths} :
                         a \in DOMAIN input.nodes} :
              LET node == input.nodes[v[1]]
                  path == node.paths[v[2]]
              IN  /\ PathBudget(path) # NoPeriod
                  /\ \A x \in ChainClaims : x.link # <<node.name, path.name>>}}

Claims == ChainClaims \cup PathClaims

\* The rank of every claim, 1 for the first.
RankOf ==
  LET claims == Claims
  IN  [x \in claims |-> 1 + Cardinality({y \in claims : LexLess(y.key, x.key)})]

(***************************************************************************)
(* Properties.                                                             *)
(***************************************************************************)

\* The loops rank every path that has a claim, once, in the order the design
\* states, groups are what the design calls a segment, a run or a bucket, and
\* the answer has the shape that band compression relies on.
RankedAsDesigned ==
  pc = "realize" =>
    LET rank == RankOf
    IN  /\ IsRankedPlan(items)
        /\ Len(items) = Cardinality(DOMAIN rank)
        /\ \A x \in DOMAIN rank :
             /\ items[rank[x]].link = x.link
             /\ \A y \in DOMAIN rank :
                  items[rank[x]].fine = items[rank[y]].fine <=> x.group = y.group

\* Chains of different names, chains and buckets, and buckets of different facts
\* share a priority only when the caller is told that the band is too narrow.
ForeignTiesAreReported ==
  pc = "done" =>
    LET rank == RankOf
    IN  \A x, y \in DOMAIN rank :
          prio[rank[x]] = prio[rank[y]] /\ x.owner # y.owner =>
            \E w \in warnings : w.kind = "narrow"

\* Every node ends in exactly one task, at the priority of the best-ranked of its
\* paths, inside the band; a node without a rank ends in the default task.
BestPathDecides ==
  pc = "done" =>
    LET rank == RankOf
    IN  \A m \in {nd.name : nd \in Range(input.nodes)} :
          \E t \in Range(tasks) :
            /\ m \in t.members
            /\ \A u \in Range(tasks) \ {t} : m \notin u.members
            /\ LET mine == {x \in DOMAIN rank : x.link[1] = m}
               IN  IF mine = {} THEN t.name = DefaultTask /\ t.priority = 0
                   ELSE /\ t.priority = prio[Min({rank[x] : x \in mine})]
                        /\ t.priority \in platform.band.min .. platform.band.max

\* Nodes that share a real-time priority either rotate, by a slice shorter than
\* every period known of them, or are reported; a node alone keeps SCHED_FIFO.
TiesAreMitigated ==
  pc = "done" =>
    \A t \in Range(tasks) :
      LET peers == {u \in Range(tasks) : u.priority = t.priority /\ u.policy # "other"}
          tied == UNION {u.members : u \in peers}
          known == {NodeBudget[m] : m \in tied} \ {NoPeriod}
      IN  CASE t.policy = "rr" -> /\ Cardinality(peers) > 1
                                  /\ \A u \in peers : u.policy = "rr"
                                  /\ SliceOf(platform) # NoSlice
                                  /\ known # {} /\ SliceOf(platform) < Min(known)
            [] t.policy = "fifo" -> Cardinality(peers) > 1 => Tie(tied) \in warnings
            [] OTHER -> peers = {}

\* Two chains, whatever their names, share a priority only when the caller is
\* told so.
ChainTiesAreReported ==
  pc = "done" =>
    LET rank == RankOf
    IN  \A x, y \in ChainClaims :
          x.chain # y.chain /\ prio[rank[x]] = prio[rank[y]] =>
            \E w \in warnings : w.kind = "narrow"
=============================================================================
