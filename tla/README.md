# Verification of ros-launch-manifest

TLA+ models of this workspace, from the text of a contract to the real-time
priority of every node: how a contract is migrated, read, evaluated, filtered and
checked, how requirement files are loaded, evaluated and proved, how a scheduling
plan is derived; what TLC checks of it, and what TLAPS proves.

## The system

ros-launch-manifest is a set of Rust libraries and two command line tools. It
reads contract files kept beside ROS 2 launch files, checks them, and derives a
scheduling plan. Every function is called with all it needs and returns its
answer; there are no threads, no messages and nothing that survives a call. What is
hard is therefore in the data: the order of loops and sorts, passes that each rely on
what the pass before established, two readers of one text that have to agree,
arithmetic at the edges, an answer that must not depend on the order of declaration,
and the promise to report what could not be done.

| part | state it keeps during a call | operations | what makes it correct |
|---|---|---|---|
| manifest types and parser (`types/src/types.rs`, `parse.rs`) | a parse with the refusals so far | read each section, resolve links | what is read is what was written, what contradicts itself is refused |
| values of the launch tree (`types/src/values.rs`) | entries of `let` so far, errors | read, evaluate in order, read again | a reference reads like the number it stands for, an unknown number is never one |
| arguments and conditions (`types/src/subst.rs`, `cond.rs`) | the contract under change | resolve, substitute, filter, clean up | conditions decide what they say, nothing goes that was not removed |
| migration (`types/src/migrate.rs`, `rule_names.rs`) | edits asked for, skips | sixteen rewrites, overlap, check of the result | nothing old is left unreported, the meaning stays |
| contract checks (`check/src`) | a graph, diagnostics | 22 rules | what passes keeps its budgets and rates, what is reported is there |
| requirement language (`rlx/src`) | typing environment, inputs, shapes of tables | load, type, evaluate, prove | what loads can be evaluated, what is proved evaluates so |
| dataflow route (`derive/src/graph.rs`, `view.rs`) | in-degrees and queue, latency and predecessor per vertex | topological order, longest route, walk back | the route is a longest one and its cost the sum of its parts |
| derivation (`derive/src/lib.rs`) | elements of a chain, merged groups | attribute costs, fold facts, split a route into segments and boundaries | nothing lost without a report |
| `chain_aware` mapper (`sched/src/chain_aware_mapper.rs`) | candidate chains, a walk position, group counter, the ranked plan, node priorities | judge, order, walk, append the rest, realize | the plan is the one the design describes, a node gets the best of its paths, ties are mitigated or reported |
| band compression (same file) | a vector of runs over the ranked plan | seed, merge within segments, merge within chains, clamp and report | no inversion, no tie without a cause or a report, the loops end |
| simple mappers (`sched/src/mapper.rs`) | ranks, their levels | rank by rate or deadline, collapse equal facts, spread | equal facts share, order is preserved, the band is used up |
| tie rule and band (`mapper.rs`, `platform.rs`) | none | require the band, decide FIFO or RR | RR only where it rotates |
| task binding (`sched/src/resolve.rs`) | node to task, the explicitly bound nodes | bind names, bind scopes, place | one task per node, rule order does not matter, refusal is justified |
| POSIX placement (`posix.rs`), plan checks (`validate.rs`) | none | validate, list violations and contradictions | nothing illegal passes |
| platform file (`platform.rs`) | none | parse and validate YAML | an illegal override is refused |
| system model (`model/src`) | maps keyed by name | read, upgrade old keys, merge parameters, overlay the system configuration, write | the more specific source of a parameter wins, references resolve |

The parts form a pipeline: types → check, types → model → derive → sched. The
consumer of types, which has the launch tree, calls values between the two readings
of a contract. rlx is called for the extensions of a contract and with the values it
writes for them. derive hands `MapperInput` to a mapper; a mapper hands
`ResolvedTaskTable` and warnings to the caller, who may check it with `validate.rs`.

## Modules

Names of actions and operators are those of the code where TLA+ allows it;
`PROJECT.json` maps each definition to its lines.

Scheduling and derivation:

- **RankedItems**: the data between the two halves of `chain_aware` and what
  the documentation promises of an assignment of priorities to it.
- **PriorityOrder**: the abstract specification: a plan goes in, a legal
  assignment comes out in one step.
- **BandLoop**: the loops of `assign_priorities_compressed`, one action per
  step. The vector of `(start, end)` runs is the set of their starts: the runs
  cover the plan without gaps, so a run ends where the next begins.
- **BandLoopProofs**: the inductive invariant of the loops and what holds when they
  have ended, for whoever calls them.
- **BandCompression**: the function on its own, called with any ranked plan and any
  band. **BandCompressionProofs**: the theorems about it.
- **ChainAware**: `chain_aware_rank` and `realize_posix` as one state machine. Its
  middle part is BandLoop, over the plan it has ranked; its properties compare the
  result with keys computed straight from the input (`Claims`, `RankOf`).
- **ChainAwareProofs**: the theorems about it.
- **PosixFacts**: the band and the tie rule, shared by all mappers.
- **RankedMappers**: the registry, `manual`, `rate_monotonic` and
  `deadline_monotonic`. **RankedMappersProofs**: the theorems about it.
- **PlanValidation**: `validate.rs` as operators; the mappers' modules use it to
  judge their plans.
- **TaskBinding**: `resolve` with its two binding passes and the placement of each
  task. **TaskBindingProofs**: the theorems about it.
- **StableSort**: `Vec::sort_by`, `Iterator::filter` and `then_with`, by the place every
  element takes and without recursion. **StableSortProofs**: what they do to every
  sequence, which the proofs about the mappers and the binding cite.
- **ModelView**: `view.rs`, which reads the facts of nodes, paths and topics off a
  contract, as operators.
- **TopologicalSort**: `topo_sort` (Kahn's algorithm), one action per vertex looked
  at, vertex taken and edge followed. The vector `indeg`, the `VecDeque` and the
  order are variables of the same meaning; `pending` is the rest of the inner loop.
- **TopologicalSortProofs**: the theorems about it.
- **LongestRoute**: `resolve_scope_path`: subtree (one action per scope looked at, and one
  per pass over the scopes), ends, graph of paths, sort, longest latency per vertex,
  worst sink, walk back. It takes the sort as an instance of TopologicalSort over the
  graph it has built, and compares the answer with the set of all routes (`Routes`),
  which it gets from the wiring without any of the steps.
- **ChainDerivation**: `derive_from_view`: the facts of each node and one turn of the
  loop over scope paths per chain. It extends LongestRoute and resolves the route of a
  turn with its actions, step by step: `phase` is the state of the loop, `pc` that of
  the route.
- **DerivationProofs**: the theorems about LongestRoute and ChainDerivation.

Contracts:

- **Contracts**: what a contract holds, and the facts that every reader of it
  derives the same way. A contract is a function from paths of inline includes to
  scopes, an optional value a set of at most one element, a text a sequence of words
  and references.
- **ContractValues**: `values.rs`: expressions over parameters and launch
  configurations, their dimensions, evaluation in order, the range of a result.
- **ContractReader**: what the parser refuses although every key and every value is
  well formed, section by section, and what it makes of what it accepts.
- **Conditions**: arguments and their place in the texts of a contract; the language of
  `if:` and `unless:`, the filter, and the clean-up of what then dangles.
- **ContractRules**: one operator per rule of `check/src/rules`, which gives the
  diagnostics of a scope; before them, the dataflow graph of a scope and what the rules
  ask of it: what is reachable, and whether there is a cycle.
- **Satisfiability**: the rule that reads undecided conditions with a translator of
  its own and asks a solver; the solver is a quantifier over the assignments.
- **Migration**: the sixteen rewrites, the edits they ask for, the overlap of edits.
  Of the text, only what decides whether an edit can be made is left (the layout).
- **ContractMeaning**: what a contract says, whatever the spelling; the reference
  that migrations are held against.
- **ContractCheck**: the state machine over all of these: a contract is migrated, or
  read, evaluated and read again, given its arguments, filtered, checked.

Requirement language:

- **Quantities**: exact rationals and dimensions (also the numbers of ContractValues).
- **Requirements**: syntax trees, as the parser hands them over.
- **RequirementTypes**: what is refused at load: names, cycles, reads, types, dimensions.
- **RequirementEval**: what a contract writes for the keys of an extension, and the
  evaluator, with "panic" wherever the code relies on the types.
- **RequirementProof**: the encoding of a claim for the solver, its shapes, how a
  counterexample is made readable and a domain suggested.
- **RequirementCheck**: the state machine: refuse or load, supply, then evaluate an
  item or decide a claim shape by shape. What the load-time check found (the declared
  names, the keys each item reads, the refusals) is kept in `checked`, as the code keeps
  its `Checked`. The solver is external and may give up.

- **MC…**: the instances TLC checks.

How they compose:

    ContractCheck -- Migration -- ContractReader -- ContractValues -- Quantities
       |                                                  |               |
       +-- Conditions, ContractMeaning -------- Contracts-+               |
       +-- Satisfiability -- ContractRules -------------+                 |
                                                                          |
    RequirementCheck -- RequirementProof -- RequirementEval               |
                              -- RequirementTypes -- Requirements --------+

    ChainDerivation -- LongestRoute --INSTANCE--> TopologicalSort
                            |
                            +-- ModelView, StableSort

    ChainAware -- BandLoop -- RankedItems -- PriorityOrder
       |             |                            |
       |             +-- BandCompression --refines+
       +-- StableSort, PosixFacts -- RankedMappers -- PlanValidation -- TaskBinding

    BandCompressionProofs -- BandLoopProofs -- ChainAwareProofs
    RankedMappersProofs, TaskBindingProofs -- StableSortProofs -- ChainAwareProofs
    DerivationProofs -- StableSortProofs, --INSTANCE--> TopologicalSortProofs

Lines without a word are EXTENDS. The modules of proofs extend those they are about. Where a
loop is proved about and used by another component, it is a module that both extend;
of an instance the proof system knows no assumption by name, so LongestRoute takes
from TopologicalSortProofs the lemmas of its invariant, which need none. A call is one behaviour: `Init` chooses the arguments,
every action is one turn of a loop or one straight piece of code between two loops, and a
last action (`Returned`, `Done`) repeats the answer for ever, so that a deadlock of a
model is a panic or a missing case of the code. Deadlock is checked in every run. In
ContractCheck and RequirementCheck the functions of the code are pure and large, so an
action is one public function, and the state is what the caller holds between two of them.
Where a definition has a comment that begins "A bug:", it is a mistake the code could
have and does not: the mutant of a property, used by no specification.

## What is checked

| run | instance | what it shows |
|---|---|---|
| `contract_check` | families of small contracts (see *Bounds*), one per question | conditions decide by their text and values (`ConditionsDecide`); only ends of what was removed go (`OnlyRemovedEndsGo`); satisfiability foretells the filter on every assignment (`SatisfiabilityForetells`); a loop is reported exactly if there is one (`LoopsAreReported`); a budget no rule complains about has room for every route (`BudgetCoversEveryRoute`); without an error every subscriber gets its rate after the losses (`RatesAddUp`); a loose topic is reported exactly on the way of an event chain, in either spelling of its ends (`LooserPartsAreReported`); a contract with references is read as the one with their numbers written out (`ReferencesReadLikeNumbers`); a migration leaves nothing old that it does not report and needs no second run (`NothingOldIsLeft`), and keeps the meaning (`MigrationPreservesMeaning`) |
| `conditional_includes` | includes whose condition refers to an argument | **violated**: see *Findings* |
| `requirements` | files over one or two keys or a table, and whole declarations | an item of a loaded file evaluates to its kind and dimension or fails in a listed way and never panics, and a key it misses is one the file says it reads (`AcceptedFilesEvaluate`; the exceptions below); a proved claim holds of every two points the evaluator accepts, a suggested domain makes the claim hold, a violation is one of the evaluator (`VerdictsHold`) |
| `compression` | every ranked plan of up to 5 items over two chain names and the nodes outside chains, bands of 1 to 4 levels | no priority is inverted or leaves the band; a tie has a cause; no tie is made while a level is free; the loop ends, and implements the one-step `PriorityOrder` |
| `chain_aware` | two chains over 5 nodes with a timer, reactions and an unranked node, each order of declaration and launch, 8 hosts | the plan has ranks without gaps and is the plan that keys computed from the input give, a node gets the best of its paths, a tie between chains or nodes outside them is reported, RR is given exactly where it rotates |
| `same_name_chains` | the same input, two chains of one name | **violated**: see *Findings* |
| `ranked_mappers` | every system of 4 nodes over the fact sets, two launch orders, 7 hosts, each rounding of a half | equal facts share one task, unequal ones keep their order and are apart while the band allows it, the plan passes `validate.rs`, RR exactly where it rotates |
| `task_binding` | up to 3 rules by name and by nested scope, legal and illegal definitions, three targets | the table is the one the rules denote in whatever order they come; a refusal names something that is wrong; what is accepted can be applied |
| `topological_sort` | every graph of up to 3 vertices and 4 edges (loops and parallel edges), 512 of 5 vertices | an order respects the edges, a cycle is one, each step lowers a natural number |
| `longest_route` | 3 nodes wired in every way with paths of 6 kinds; forks and joins over 5 nodes in nested scopes | a failure is the one documented; no route is longer than the answer; the answer is a route and its two sums are its own |
| `timers_on_the_way` | the same | **violated**: see *Findings* |
| `chain_derivation` | pipelines of 4 nodes in 2 scopes with 6 scope paths; single nodes with every pair and triple of small exclusion sets | each scope path is in the answer or in the report, not in both; a chain follows its route; the most critical member counts; nodes are concurrent exactly when nothing forbids it |

### Bounds

All bounds are in the MC modules; the specifications have none, except that
`RankedMappers` counts time in whole ticks (`TicksPerSecond`).

Contracts. One family for each question, since the questions do not interact:

- conditions of up to three atoms with `and`, `or`, `==`, `!=` and parentheses on two
  arguments of two values, on two nodes, a topic, a chain and an include, so that an atom stands
  on each side of each connective and what goes has ends in topics, services and
  chains; an end that never was is among them;
- two nodes and an include wired by two topics in every way and a third in two: self
  loops, loops of two, a loop through the include, an end that keeps state, parallel topics;
  budgets below and above the longest route;
- rates and losses from three values each on publisher, topic and subscriber, so that
  equality, the edge of each comparison, happens; a second subscriber, so that the most
  demanding is not the first or only as demanding as it;
- an event chain that writes each of its two topics with or without the leading `/`,
  beside every choice of topics of either name, none or both, where the two spellings
  lead to different routes;
- contracts with one thing wrong in each section;
- two entries of `let` and pairs of keys in every small expression, launch trees in
  which x is absent, 0 or 20 and y 0 or 10, and no tree at all: division by nothing, a
  negative difference and a wrong dimension happen;
- for each kind of old spelling, a contract at the root and in an include, alone and
  with the spelling that interferes with it, with every layout that an edit cannot handle.

Requirements. Predicates and values of one and two operators over two keys of a time,
tables of small shapes; the values of a key are -1, 0, 1, 2, those of a table 0 and 1 at
0, 1, 2. Two base dimensions tell
everything apart that the language does with seven. The solver's reals are those of the
grids, so a claim may be "proved" here by the model's solver and not by the real one,
never the other way: each proof of the real solver is one on the grids. A quotient by
zero and a root of a negative number are any of `Junk` in the encoding.

Scheduling and derivation:

- Five items and four levels are enough for the compression: a merge looks at two
  neighbouring runs, and five items give runs of several items on each side, three
  classes more than levels, a second pass that begins where the first stopped, and
  clamping after both passes.
- Two chains suffice for every question about the order of chains (a comparison has
  two sides) and about one node on two paths; five nodes put a boundary first, in
  the middle, last and twice in a row.
- Three nodes give cycles of each length up to three, a route around a node, and a
  node that is source and sink; the larger systems are there for joins, for scopes
  whose names are against their nesting, and for two topics between the same nodes.
- Three rules show each order of a name, a scope and a default; three sets show
  the one that bridges two groups.
- Times and rates are small whole numbers chosen so that equality, which is the edge of
  each comparison, happens.

### Fairness

The program is sequential, and a call that has a step to take takes it: the fairness
the code justifies is `WF_vars(Step)`. BandCompression assumes it, since
termination is in question there: nothing counts the turns of its merge loop.
TopologicalSort needs none: its termination is stated as a variant (`AlwaysCloser`: each
step that changes anything lowers a natural number), which can be proved as well
as checked. All other loops of the modelled code run over a fixed vector, and those
modules assume no fairness and claim no liveness. In ContractCheck
and RequirementCheck each action advances the stage, and the only loop, over shapes,
shortens a fixed sequence.

## Findings

Disagreements between the code and a document or a comment, each shown by a run that
TLC finds violated.

- `same_name_chains`: compression compares the bare names of chains, so two chains
  that two scopes gave the same name can be merged with each other, across
  criticality, and without a warning (`chain_aware_mapper.rs:749`,
  `docs/scheduling.md:389`).
- `timers_on_the_way`: a message into a node that only timers drive reaches no path, so
  a scope path whose only way leads through a timer has no route
  (`derive/src/graph.rs:237`, `docs/contract-theory.md:611`).
- `conditional_includes`: substitution never enters includes nor their conditions, so
  an include with `if: $(var x)` is decided by the text of the reference
  (`types/src/subst.rs:125`, `docs/launch-manifest.md:1293` and `:1666`).

Observations made while modelling, which a property states as an exception of its
own or the model shows in passing, and for which there is no run:

- A reference as `max_interval` or `timeout` of `sync`, or as one of `budget` and
  `budget_period`, refuses the contract at the first reading, where the key is still
  absent (`parse.rs:2187`, `:3600`), although `docs/format-reference.md` lets a quantity
  read a number. `ReferencesReadLikeNumbers` excuses `sync.max_interval`, `budget` and
  `budget_period`, the keys of this kind that the instances write.
- Satisfiability splits a condition at `and` first, the filter at `or` first
  (`satisfiability.rs:260`, `cond.rs:240`); they disagree on conditions with both and
  without parentheses. `SatisfiabilityForetells` is about the others.
- In a sum over nothing, the evaluator finds the unit by evaluating the body on a
  made-up element (`rlx/src/eval.rs:826`); a body that fails there gives the wrong unit, and a
  square root around it stops the program (`eval.rs:916`). `AcceptedFilesEvaluate` leaves out
  values of such a guessed unit. It also leaves out what only a function called in a
  domain reads, which is not among the reads of the item.
- A migration that moves a transport bound onto a subscriber with a `link:` writes a
  file that the reader then refuses (`migrate.rs:1364`), and is not checked against that, since the
  file was unreadable before (`:1958`).
- A `reaction` that names a mode and an `exit.on` are rewritten at the root only; an
  acknowledgement may then name a key that has moved (`hazards.<h>.reaction`).
- `type: string` beside `choices` drops the choices (`parse.rs:3253`).

## What is proved

TLC checks small instances; the theorems hold for every value of the constants.

Each component has one inductive invariant (theorem `Invariance`) and the properties
follow from it in the states that they look at. The assumptions are named in the
module they belong to, and TLC checks them on each instance.

### BandLoopProofs and BandCompressionProofs

Assumed: bands are nonempty ranges of integers, and plans are sequences of items whose
groups are numbered as the mapper numbers them (`BandsAssumption`, `PlansAssumption`,
`ItemsAssumption`). ChainAwareProofs shows that the mapper calls it with nothing else.

The loop decides on a merge by the two items at a joint. That is right only if
each run is homogeneous in what the comparison reads, which no property says. The
inductive invariant `LoopInv` adds it, in terms of where runs start: a
run starts only where the seeding put one; wherever a class begins (a chain, a bucket
outside chains) a run starts, in both passes, and during the first pass also wherever a
group begins; merging stops at the width, so that either nothing was merged or the
runs left fill the band; the second pass begins only when the first has no joint left or
nothing needs to be merged. From it and
counting lemmas on run starts (`RunOf...`) follow

- `TypeCorrect`, `NeverInverts`: a later item never gets a higher priority, and none
  leaves the band;
- `TiesExplained`: tied items have equal facts, or are of one class, or an overflow
  has been reported;
- `NoTieWithoutNeed`: different facts share a priority only if the band is used up;
- `Refinement`: the loop implements `PriorityOrder`, in which the whole
  assignment is one step: every step of the loop is a stutter but the last.

### ChainAwareProofs

Assumed: `InputsAssumption`, the types of chains and nodes and that a node is listed
once (the plan and the maps behind it go by its name; two chains may have one name, and
a chain may name nodes that are not listed); `AbsenceAssumption`, the marks for "no
chain" and "no tie" are not numbers; `DefaultTaskAssumption`.

The theorem that everything rests on is that the walk ranks as the design says. The
design is a set of claims with keys and has no loops; the code is a sort, a walk backwards
over chains that swallows runs of boundaries, and a sort with buckets. The argument goes
over *places* (a chain, an element of it, a link of that): there is one order on them
(`PlaceBefore`: first the chain by criticality, slack, name and position, then the maximal
run or segment by its end, then the place in that), and

1. what has been emitted is, at every turn of the walk, the list of all places of the chains
   done and of the elements above `pos`, in that order, and their groups are counted in the
   order in which they come (`Walking`, kept by `WalkOverSegment`, `WalkOverRun`,
   `WalkGoesOn`). It needs more than the lists: that `pos` never stands inside a run of
   boundaries, or else the run would be cut in two and sorted in parts;
2. the paths outside chains follow, sorted, in buckets of equal facts
   (`RestIsListed`, `BucketFacts`);
3. a place comes before another exactly if the key of its claim does, and places are of one
   group exactly if their claims are (`PlacesByKey`, `GroupsOfPlaces`, `PathsByKey`,
   `ChainsLead`), so that the plan is the designed one (`PlanIsDesigned`);
4. then the number of keys below that of a claim is its position (`RanksArePositions`).

The invariant has `Walking` during the walk, and from then on that the plan is
designed, together with `LoopInv` of the loop that runs over it: `IsRankedPlan`, which the
loop takes for granted, is part of "designed". From it follow

- `RankingIsDesigned`: each claim has its rank, and groups are those of the design;
- `ForeignTiesAreTold`: claims of different owners are of different classes, so a tie
  between them is one that the loop reports, and the report becomes a warning;
- `BestPathsDecide`: priorities descend along the plan, so the maximum over a node's items
  is the priority of its first; it lies in the band, hence above 0, and every node is in one task;
- `TiesRotateOrAreReported`: nodes of one priority rotate by a slice shorter than all periods
  known of them, or are reported.

### StableSortProofs

No assumption. For every order that `sort_by` accepts (`Orders`: strict and weak), the
places of the elements are a permutation (`PlacesAreTaken`); the result has the
same elements, none ahead of one that precedes it, and equal ones as they came
(`SortedFacts`); a filter keeps elements in their order (`KeptFacts`); `SetToSeq` lists a
finite set without repetition (`SetToSeqFacts`).

### RankedMappersProofs

Assumed: `TicksAssumption` (ticks per second are a positive number), `InputsAssumption` (the
types of nodes, and that a node is listed once).

The inductive invariant says that the ranks made so far hold one fact each, in the order
of the facts, that the nodes not yet ranked come after them, and that no node with a fact
is lost; once levels are given, that they descend, begin at the top of the band, end at its
foot, and are distinct while there are enough of them. Both directions of rounding a half
are covered. From it follow `FactsDecideTasks`, `PlansAreValid` (no contradiction
that `validate.rs` would list), `BandsAreSpent` and `TiesRotateOrAreReported`.

### TaskBindingProofs

Assumed: `RulesAssumption` (lists of rules with lists of names), `NodesAssumption` (finitely
many nodes, whose name determines the scope), `TasksAssumption` (priorities are integers).

The inductive invariant says that what the passes have bound so far is what the rules
looked at so far denote, names before scopes and the longer scope before the shorter, and
that each task already placed has one legal entry. From it follow `RulesAreFollowed`,
`RefusalsAreJustified` (an error exactly if the rules are at fault) and
`TablesAreApplicable`.

### TopologicalSortProofs

Assumed: `GraphsAreWellFormed`, that is finitely many vertices and edges, and no edge
that leaves the vertices, which `build_path_graph` establishes.

The inductive invariant says that an in-degree is exactly the number of edges into a
vertex that are not yet followed; that a vertex is queued or placed exactly when it has
been looked at and that number is zero; that nothing is queued or placed twice; and
that what is placed comes after its predecessors. The exact count is what makes it
inductive: without it, nothing stops a vertex from being queued a second time, or the
`usize` of the code from wrapping. From it follow `TypeCorrect`, `SortsTopologically`,
`CyclesAreReal` (the vertices left over are closed under some predecessor) and
`EveryStepIsCloser`, so that the sort ends on every finite graph.

### DerivationProofs: the route of a scope path

Assumed: `RequestsAreWellFormed`. A model is what `IsView` says: lists are sequences, the
keys of a map are there once, a path has a name, and no time is negative. The maps of
`SystemModel` have their keys once by type, and a negative time does not pass the reading of
the values (`types/src/values.rs:996`). Nothing is assumed of scopes: a parent may be missing,
come after its child, or be its own ancestor. Names are numbers, so that tuples of them have an order, as the
strings of the code do.

`Routes(Wires)` is defined from the model alone; the code never computes a wire, a
subtree by closure, or a walk. The invariant `Inv` carries each of its steps over to
that definition, and each part is what the next one needs:

1. *subtree* (`ScopesInv`): what was found lies below the scope, and if a pass has not
   added anything yet, no scope it has looked at is a child left out. A pass that ends
   without an addition has closed the set (`EndPassFinds`);
2. *ends* (`EndsInv`): the ends are those of the model, and both are there;
3. *graph* (`LoweredInv`, `IsLowered`): its vertices are those of the model, each once, and
   its edges are its transports, each at least once (`HopsAreWires`, `BuildLowers`);
   this is where a hop that no path claims lands on the fallback vertex on both sides;
4. *order* (`OrderInv`): first the invariant of the sort, by its lemmas `StartInv`, `StepInv` and
   `StutterInv`, then an order of all vertices that follows the edges. A graph has one exactly
   if the wires have no cycle (`CycleIsFound`, `OrderedIsAcyclic`), which gives "Cycle";
5. *latencies* (`RelaxedInv`, `Settled`): a vertex of the order that has been looked at
   is unreached, or has the cost of a route to it that is the longest, whose last hop is `prev`;
   the strict comparison at a source is what makes it hold for sources with an input from
   upstream. So no route costs more than its last vertex (`RoutesAreBounded`);
6. *walk* (`WalkInv`, `IsWalk`): the vertices walked over, read backwards, are a stretch
   of a route along `prev`; the place of the next one in the order bounds how many there
   can be, so that the walk ends before it has more than all vertices; at
   its end it is a route of the answered cost (`WalkIsRoute`).

From it follow `FailuresAreJustified`, `RoutesAreLongest` and `RoutesAreHonest`. That a
cost is a sum of its parts is a recursive function over the places of a sequence;
`RecursionExists` shows once that such functions exist and what they are.

### DerivationProofs: chains, report and nodes

Assumed: `ViewsAreWellFormed`, which adds to `IsView` that ranks of criticality are among
the four and that scope paths and declared sets are in a list.

`DerivationInv` has the invariant of the route in it (`RouteInv`), while a turn is
in its route or in its splitting: `StartRoute` establishes it for the next scope path
(`StartInv`), and the steps of the route keep it (`StepInv`). Besides

- `SplitInv`: at each vertex, the elements made so far hold exactly the links before it,
  in their order; no two segments meet; their periods add up to the sampling term
  of the stretch; the urgency is the least rank of those links, or low (`IsSplit`);
- `ReportInv`: of the turns that are over, each scope path is in one of the two lists,
  once, and the resolved ones in their order (`IsReport`);
- `OutcomeInv`: after a turn, whether a chain was made tells what its route came to, and
  the chain is the whole route;
- `NodesInv`: the claims of the nodes described so far.

From it follow `ReportsAreComplete`, `ChainsFollowRoutes` (where the sampling term of
the route, from `RouteIsHonest`, meets that of the split), `MostCriticalMembersDecide`
and `ConcurrencyClaimsAreRight`. For the last, adding a declared set to groups that are
disjoint and closed gives such groups again, however many it joins (`GroupingGrows`),
so the groups are the classes that the sets make (`GroupsMean`), and one of them has
all paths exactly if no two are apart (`ClaimsMean`), whatever names the sets hold.

### Not proved

- Liveness under fairness (`Terminates`) and anything with ENABLED are out of the
  prover's reach; they are model-checked.
- What a fold or a recursive definition computes on every input would need
  induction with a formula as a parameter, which the provers at hand cannot do. Where
  a proof needs induction it is by a least counterexample (`LeastNatural`, `LeastNumber`), and a
  recursive function is known by its steps (`SumsExist`, `RecursionExists`). The operators of
  the community modules that hide such a function behind another operator (`FoldLeft`,
  `SelectSeq`) cannot be unfolded; where a proof needs one, the model says it with a
  function of its own (`AddSet`, `Groups`) or with `Kept`.
- Modules that reach a RECURSIVE operator hold no theorem: expressions are trees, so
  ContractValues, Requirements and all that extends them, ContractCheck and
  RequirementCheck among them, read them recursively.
  Contracts, Conditions, Satisfiability and the rules reach none.

## What is left out

- Wording: provenance strings, details, the texts of warnings and diagnostics, spans
  and their order. Their kind, severity, place and subject are modelled.
- Text: YAML syntax, the grammar header, closed sets of words, the documentation table
  of fields (`field_table.rs`), the lexers and parsers of expressions and requirements,
  formatting, serialisation, the command line tools. A model starts at the tree a
  parser hands over; of a text under migration the layout is left.
- Empty collections: `input: []` and an empty `external_topics` are taken as absent.
- Rounding of doubles. The one place where it decides, a spread that is exactly half
  way, is a choice of both outcomes; times are whole milliseconds, rates whole Hertz,
  and quantities of values and requirements exact rationals.
- Single values of extensions read from the launch tree (`evaluate_text`), their
  qualified keys, and the versions of extensions.
- The lemmas of bindings in `rlx`, and reproduction of a counterexample as text.
- The instances of migration have no contract with an endpoint listed by two topics, a topic in both spellings `t` and
  `/t`, a topic named like a generated group, or an inline group of one member: the
  rewrites treat them in ways of their own that no document describes.
- The rules about quality of service, services and dangling entities run on an instance with something
  of everything for them to report, but no property is about what they report: each compares declarations one by one.
- The claims of the requirement instances are decided with the keys they read written in the
  contract; a key that is left to its default is covered for the evaluator, not for a claim.
- Namespaces of nodes (a name is a value, or a sequence of segments where scopes
  matter), the jitter and miss facts that derive copies through, endpoint references
  that do not parse in derive, and the branch of `critical_path` for a graph without
  vertices, which its callers never reach.
- SCHED_DEADLINE parameters, clamps and CPU masks, which no caller in scope builds.
- Durations and scales of integrity (`duration.rs`, the scales of `types.rs`): one pass over a text each, with nothing
  to relate the result to; unit tests cover them case by case.
- The system model (`model/src`): mostly types and serialisation. Its merge of parameter
  files, the overlay of `system.toml` and the upgrades of old keys are pure functions
  that nothing modelled depends on; what derive reads of the model is ModelView.
- Platform files as text: the facts read from them are constants of the mappers.

## Plan

Done, in this order: compression, the mappers, binding, the route and the derivation,
since a mistake there is a wrong priority on a robot; then contracts from text to
findings, their migration and values; then the requirement language.

Proved, in this order: the compression and the sort, on which the others rest; task binding
and the simple mappers; the whole `chain_aware` mapper; the route of a scope path, and the
derivation of chains, report and nodes. With these, each property that a run checks
of the scheduling half is a theorem, except for liveness.

Theorems worth proving next are those of Contracts and Conditions: filtering twice is
filtering once, and what is left refers to nothing that was removed; of ContractRules:
what the rules about rates imply together (`RatesAddUp`), which is arithmetic on two or
three numbers.

Modelling that is left: which source of a parameter wins (`resolved_params`,
`SystemConfigToml::apply_to`), the upgrades of the system model, and the validation of
platform overrides.
