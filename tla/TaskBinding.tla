---------------------------- MODULE TaskBinding -----------------------------
(***************************************************************************)
(* sched/src/resolve.rs: the manual way to a task table.  The rules of a   *)
(* scheduling file bind nodes to tasks, by name in a first pass and by     *)
(* scope in a second, and every task that got a member is given the        *)
(* placement its definition states for the target.                         *)
(*                                                                         *)
(* A name is a sequence of segments.  A rule is a record [task, nodes,     *)
(* scope]: nodes a sequence of selectors [full, segs], scope a sequence of *)
(* segments or NoScope.  A definition is a function from targets to        *)
(* placements [priority, class] or NoSpec.                                 *)
(***************************************************************************)
EXTENDS PlanValidation, StableSort, SequencesExt

CONSTANTS
  RuleLists,   \* the sequences of rules a file may hold
  NodeSets,    \* the systems they may meet: sets of records [name, scope]
  TaskTables,  \* the definitions: functions from names to definitions
  Targets,     \* the targets to resolve for
  NoScope, NoSpec

VARIABLES
  pc,
  rules, nodes, defs, target,   \* the arguments
  r, s,                         \* the rule and the selector the passes look at
  bound,                        \* the task of every node bound so far
  explicit,                     \* the nodes bound by name
  todo,                         \* the tasks left to place
  placed,                       \* the tasks placed, then the sorted table
  error                         \* why there is no table, or "none"

\* A file is read into lists; names are numbers in the order of the strings they
\* stand for.
ASSUME RulesAssumption ==
  \A list \in RuleLists :
    /\ list \in Seq(Range(list))
    /\ \A rule \in Range(list) :
         rule.task \in Int /\ rule.nodes \in Seq(Range(rule.nodes))

\* SchedNode: the name is fully qualified and the scope is its namespace, so nodes
\* of one name have one scope.
ASSUME NodesAssumption ==
  \A ns \in NodeSets :
    /\ IsFiniteSet(ns)
    /\ \A x, y \in ns : x.name = y.name => x.scope = y.scope

\* Priorities are i64.
ASSUME TasksAssumption ==
  /\ DefaultTask \in Int
  /\ \A table \in TaskTables, on \in Targets :
       \A t \in DOMAIN table :
         table[t][on] # NoSpec => table[t][on].priority \in Int

args == <<rules, nodes, defs, target>>
vars == <<pc, args, r, s, bound, explicit, todo, placed, error>>

-----------------------------------------------------------------------------
(***************************************************************************)
(* Selectors.                                                              *)
(***************************************************************************)
\* node_selector_matches: the full name, or the last segment alone.
NodeMatches(sel, nd) ==
  IF sel.full THEN nd.name = sel.segs
  ELSE sel.segs = <<nd.name[Len(nd.name)]>>

\* Mutant of ScopeMatches: a scope matches only the nodes directly in it.
ScopeMatchesExactly(scope, nd) == scope = nd.scope

\* scope_selector_matches: the scope itself or one below it.
ScopeMatches(scope, nd) == IsPrefix(scope, nd.scope)

Init ==
  /\ pc = "check"
  /\ rules \in RuleLists /\ nodes \in NodeSets
  /\ defs \in TaskTables /\ target \in Targets
  /\ r = 1 /\ s = 1
  /\ bound = <<>> /\ explicit = {}
  /\ todo = {} /\ placed = <<>>
  /\ error = "none"

KnownTask(task) == task = DefaultTask \/ task \in DOMAIN defs

Fail(reason) ==
  /\ pc' = "done" /\ error' = reason
  /\ UNCHANGED <<args, r, s, bound, explicit, todo, placed>>

RefuseRules ==
  /\ pc = "check"
  /\ \E rule \in Range(rules) : ~ KnownTask(rule.task)
  /\ Fail("unknown_task")

AcceptRules ==
  /\ pc = "check"
  /\ \A rule \in Range(rules) : KnownTask(rule.task)
  /\ pc' = "names"
  /\ UNCHANGED <<args, r, s, bound, explicit, todo, placed, error>>

-----------------------------------------------------------------------------
(***************************************************************************)
(* bind_nodes.                                                             *)
(***************************************************************************)
\* assign_one refuses a node that another task already has.
Conflicts(hits, task) == \E m \in hits \cap DOMAIN bound : bound[m] # task

Bind(hits, task) ==
  bound' = [m \in DOMAIN bound \cup hits |-> IF m \in hits THEN task ELSE bound[m]]

NameHits == {nd.name : nd \in {x \in nodes : NodeMatches(rules[r].nodes[s], x)}}

\* Mutant of BindNames: nodes bound by name are not remembered as such.
BindNamesForgotten ==
  /\ pc = "names" /\ r <= Len(rules) /\ s <= Len(rules[r].nodes)
  /\ NameHits # {} /\ ~ Conflicts(NameHits, rules[r].task)
  /\ Bind(NameHits, rules[r].task)
  /\ s' = s + 1
  /\ UNCHANGED <<pc, args, r, explicit, todo, placed, error>>

\* Pass 1: explicit node selectors.
BindNames ==
  /\ pc = "names" /\ r <= Len(rules) /\ s <= Len(rules[r].nodes)
  /\ NameHits # {} /\ ~ Conflicts(NameHits, rules[r].task)
  /\ Bind(NameHits, rules[r].task)
  /\ explicit' = explicit \cup NameHits
  /\ s' = s + 1
  /\ UNCHANGED <<pc, args, r, todo, placed, error>>

NoSuchNode ==
  /\ pc = "names" /\ r <= Len(rules) /\ s <= Len(rules[r].nodes)
  /\ NameHits = {}
  /\ Fail("unknown_node")

NameConflict ==
  /\ pc = "names" /\ r <= Len(rules) /\ s <= Len(rules[r].nodes)
  /\ Conflicts(NameHits, rules[r].task)
  /\ Fail("conflict")

NextRule ==
  /\ pc = "names" /\ r <= Len(rules) /\ s > Len(rules[r].nodes)
  /\ r' = r + 1 /\ s' = 1
  /\ UNCHANGED <<pc, args, bound, explicit, todo, placed, error>>

EndNames ==
  /\ pc = "names" /\ r > Len(rules)
  /\ pc' = "scopes" /\ r' = 1
  /\ UNCHANGED <<args, s, bound, explicit, todo, placed, error>>

ScopeHits == {nd.name : nd \in {x \in nodes : ScopeMatches(rules[r].scope, x)}}

\* Pass 2: scope selectors, which leave alone what pass 1 has bound.
BindScope ==
  /\ pc = "scopes" /\ r <= Len(rules) /\ rules[r].scope # NoScope
  /\ ScopeHits # {} /\ ~ Conflicts(ScopeHits \ explicit, rules[r].task)
  /\ Bind(ScopeHits \ explicit, rules[r].task)
  /\ r' = r + 1
  /\ UNCHANGED <<pc, args, s, explicit, todo, placed, error>>

NoSuchScope ==
  /\ pc = "scopes" /\ r <= Len(rules) /\ rules[r].scope # NoScope
  /\ ScopeHits = {}
  /\ Fail("unknown_scope")

ScopeConflict ==
  /\ pc = "scopes" /\ r <= Len(rules) /\ rules[r].scope # NoScope
  /\ Conflicts(ScopeHits \ explicit, rules[r].task)
  /\ Fail("conflict")

SkipScope ==
  /\ pc = "scopes" /\ r <= Len(rules) /\ rules[r].scope = NoScope
  /\ r' = r + 1
  /\ UNCHANGED <<pc, args, s, bound, explicit, todo, placed, error>>

TaskOf(m) == IF m \in DOMAIN bound THEN bound[m] ELSE DefaultTask

\* Unmatched nodes default; only tasks with members are placed.
Collect ==
  /\ pc = "scopes" /\ r > Len(rules)
  /\ todo' = {TaskOf(nd.name) : nd \in nodes}
  /\ pc' = "place"
  /\ UNCHANGED <<args, r, s, bound, explicit, placed, error>>

-----------------------------------------------------------------------------
(***************************************************************************)
(* resolve: placements, task by task in the order of their names.          *)
(***************************************************************************)
Members(task) == {nd.name : nd \in {x \in nodes : TaskOf(x.name) = task}}

NextTask == CHOOSE t \in todo : \A u \in todo : t <= u

\* The default task needs no definition.
IsBareDefault(t) == t = DefaultTask /\ DefaultTask \notin DOMAIN defs

\* posix_placement_from_spec and PosixPlacement::validate: the class has to be one
\* of Linux's, not SCHED_DEADLINE, and a real-time priority has to be legal.
PosixLegal(spec) ==
  /\ spec.class \in {"none", "other", "batch", "idle", "fifo", "rr"}
  /\ spec.class \in {"fifo", "rr"} => spec.priority \in 1 .. 99

\* Mutant of Placeable: the typed placement is not asked for on "native".
PlaceableOnPosixOnly(spec) == target = "posix" => PosixLegal(spec)

Placeable(spec) == target \in {"posix", "native"} => PosixLegal(spec)

\* A task without a class is SCHED_OTHER on Linux; elsewhere nothing is typed.
PolicyOf(spec) ==
  IF target \notin {"posix", "native"} THEN "untyped"
  ELSE IF spec.class = "none" THEN "other" ELSE spec.class

PlaceDefault ==
  /\ pc = "place" /\ todo # {} /\ IsBareDefault(NextTask)
  /\ placed' = Append(placed, [name |-> NextTask, priority |-> 0, policy |-> "other",
                               members |-> Members(NextTask)])
  /\ todo' = todo \ {NextTask}
  /\ UNCHANGED <<pc, args, r, s, bound, explicit, error>>

PlaceTask ==
  /\ pc = "place" /\ todo # {} /\ ~ IsBareDefault(NextTask)
  /\ LET spec == defs[NextTask][target]
     IN  /\ spec # NoSpec /\ Placeable(spec)
         /\ placed' = Append(placed, [name |-> NextTask, priority |-> spec.priority,
                                      policy |-> PolicyOf(spec),
                                      members |-> Members(NextTask)])
  /\ todo' = todo \ {NextTask}
  /\ UNCHANGED <<pc, args, r, s, bound, explicit, error>>

LacksSpec ==
  /\ pc = "place" /\ todo # {} /\ ~ IsBareDefault(NextTask)
  /\ defs[NextTask][target] = NoSpec
  /\ Fail("missing_spec")

IllegalPlacement ==
  /\ pc = "place" /\ todo # {} /\ ~ IsBareDefault(NextTask)
  /\ defs[NextTask][target] # NoSpec /\ ~ Placeable(defs[NextTask][target])
  /\ Fail("posix")

TaskBefore(a, b) ==
  a.priority > b.priority \/ (a.priority = b.priority /\ a.name < b.name)

Finish ==
  /\ pc = "place" /\ todo = {}
  /\ placed' = SortedBy(placed, TaskBefore)
  /\ pc' = "done"
  /\ UNCHANGED <<args, r, s, bound, explicit, todo, error>>

Step == \/ RefuseRules \/ AcceptRules
        \/ BindNames \/ NoSuchNode \/ NameConflict \/ NextRule \/ EndNames
        \/ BindScope \/ NoSuchScope \/ ScopeConflict \/ SkipScope \/ Collect
        \/ PlaceDefault \/ PlaceTask \/ LacksSpec \/ IllegalPlacement \/ Finish

Returned == pc = "done" /\ UNCHANGED vars

Next == Step \/ Returned

Spec == Init /\ [][Next]_vars

-----------------------------------------------------------------------------
(***************************************************************************)
(* What the rules say, whatever order they are written in.                 *)
(***************************************************************************)
\* The tasks that name the node, and those whose scope holds it.
Naming(nd) ==
  {rule.task : rule \in {x \in Range(rules) :
                           \E sel \in Range(x.nodes) : NodeMatches(sel, nd)}}

Holding(nd) ==
  {rule.task : rule \in {x \in Range(rules) :
                           x.scope # NoScope /\ IsPrefix(x.scope, nd.scope)}}

\* The tasks with a claim to the node: by name, else by scope, else the default.
Claims(nd) ==
  IF Naming(nd) # {} THEN Naming(nd)
  ELSE IF Holding(nd) # {} THEN Holding(nd) ELSE {DefaultTask}

DeadSelector ==
  \E rule \in Range(rules) :
    \/ \E sel \in Range(rule.nodes) : \A nd \in nodes : ~ NodeMatches(sel, nd)
    \/ rule.scope # NoScope /\ \A nd \in nodes : ~ IsPrefix(rule.scope, nd.scope)

\* A task that would get a member and that the target cannot place.
Unplaceable(task) ==
  /\ ~ IsBareDefault(task)
  /\ LET spec == defs[task][target]
     IN  spec = NoSpec \/
         (target \in {"posix", "native"} /\
            ~ (/\ spec.class \in {"none", "other", "batch", "idle", "fifo", "rr"}
               /\ spec.class \in {"fifo", "rr"} => spec.priority \in 1 .. 99))

Flawed ==
  \/ \E rule \in Range(rules) : ~ KnownTask(rule.task)
  \/ DeadSelector
  \/ \E nd \in nodes : Cardinality(Claims(nd)) > 1
  \/ \E nd \in nodes : \E task \in Claims(nd) : Unplaceable(task)

(***************************************************************************)
(* Properties.                                                             *)
(***************************************************************************)
Done == pc = "done" /\ error = "none"

\* A node named by a rule goes to that rule's task even when scopes claim it too,
\* a node in a scope goes to the scope's task, all others to the default: one task
\* each, none lost, in whichever order the rules stand.
BindingFollowsRules ==
  Done =>
    \A nd \in nodes :
      LET holders == {k \in DOMAIN placed : nd.name \in placed[k].members}
      IN  /\ Cardinality(holders) = 1
          /\ \A k \in holders : Claims(nd) = {placed[k].name}

\* A table is refused exactly when some rule is at fault: one without an effect, two
\* that claim a node with equal right, or a claim the target cannot place.
RefusalIsJustified == pc = "done" => (error # "none" <=> Flawed)

\* What resolve hands over passes the check before it is applied, for the whole
\* range Linux allows, and the highest priority comes first.
TableIsApplicable ==
  Done =>
    /\ target \in {"posix", "native"} =>
         BandViolations(placed, [min |-> 1, max |-> 99]) \subseteq
           {t \in Range(placed) : t.name = DefaultTask}
    /\ \A j, k \in DOMAIN placed : j < k => placed[j].priority >= placed[k].priority
    /\ \A t \in Range(placed) : t.members # {}
=============================================================================
