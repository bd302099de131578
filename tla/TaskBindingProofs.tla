------------------------- MODULE TaskBindingProofs --------------------------
(***************************************************************************)
(* Proofs about TaskBinding, for every list of rules, every system and     *)
(* every table of definitions.                                             *)
(***************************************************************************)
EXTENDS TaskBinding, StableSortProofs

Names == {nd.name : nd \in nodes}

\* Selector q of rule p, and the scope of rule p, have been dealt with.
SelectorSeen(p, q) == pc # "names" \/ p < r \/ (p = r /\ q < s)
ScopeSeen(p) == pc # "names" /\ (pc # "scopes" \/ p < r)

Holds(p, nd) == rules[p].scope # NoScope /\ ScopeMatches(rules[p].scope, nd)

Policies == {"untyped", "other", "batch", "idle", "fifo", "rr"}

Entries == [name : Int, priority : Int, policy : Policies, members : SUBSET Names]

TypeOK ==
  /\ pc \in {"check", "names", "scopes", "place", "done"}
  /\ rules \in RuleLists /\ nodes \in NodeSets
  /\ defs \in TaskTables /\ target \in Targets
  /\ r \in Nat \ {0} /\ s \in Nat \ {0}
  /\ DOMAIN bound \subseteq Names /\ explicit \subseteq DOMAIN bound
  /\ bound \in [DOMAIN bound -> Int]
  /\ placed \in Seq(Entries)
  /\ pc # "done" => error = "none"

RulesKnown == \A p \in DOMAIN rules : KnownTask(rules[p].task)

\* Every selector dealt with hit a node, and what it hit is its rule's by name.
SelectorsBind ==
  \A p \in DOMAIN rules : \A q \in DOMAIN rules[p].nodes :
    SelectorSeen(p, q) =>
      /\ \E nd \in nodes : NodeMatches(rules[p].nodes[q], nd)
      /\ \A nd \in nodes : NodeMatches(rules[p].nodes[q], nd) =>
           nd.name \in explicit /\ bound[nd.name] = rules[p].task

\* What is bound by name is bound to a task that names it.
ExplicitIsNamed ==
  \A m \in explicit : \E p \in DOMAIN rules : \E q \in DOMAIN rules[p].nodes :
    /\ bound[m] = rules[p].task
    /\ \E nd \in nodes : nd.name = m /\ NodeMatches(rules[p].nodes[q], nd)

ScopesBind ==
  \A p \in DOMAIN rules :
    ScopeSeen(p) /\ rules[p].scope # NoScope =>
      /\ \E nd \in nodes : Holds(p, nd)
      /\ \A nd \in nodes : Holds(p, nd) /\ nd.name \notin explicit =>
           nd.name \in DOMAIN bound /\ bound[nd.name] = rules[p].task

\* What else is bound is bound to a task whose scope holds it.
BoundIsHeld ==
  \A m \in DOMAIN bound \ explicit :
    /\ pc # "names"
    /\ \E p \in DOMAIN rules :
         bound[m] = rules[p].task /\ \E nd \in nodes : nd.name = m /\ Holds(p, nd)

Binding == RulesKnown /\ SelectorsBind /\ ExplicitIsNamed /\ ScopesBind /\ BoundIsHeld

TasksInUse == {TaskOf(nd.name) : nd \in nodes}

Legal(t) ==
  target \in {"posix", "native"} /\ t.name # DefaultTask /\ t.policy \notin WithoutPriority
    => t.priority \in 1 .. 99

\* The table so far: one entry for every task in use that is not left to place, with
\* the nodes that the task has.
Placing ==
  /\ todo \subseteq TasksInUse
  /\ \A t \in TasksInUse : t \in todo \/ \E k \in DOMAIN placed : placed[k].name = t
  /\ \A k \in DOMAIN placed :
       /\ placed[k].name \in TasksInUse \ todo
       /\ placed[k].members = Members(placed[k].name)
       /\ ~ Unplaceable(placed[k].name)
       /\ Legal(placed[k])
  /\ \A j, k \in DOMAIN placed : placed[j].name = placed[k].name => j = k

IInv ==
  /\ TypeOK
  /\ pc \in {"check", "names", "scopes"} => placed = <<>>
  /\ pc = "check" => bound = <<>> /\ r = 1 /\ s = 1
  /\ pc \in {"names", "scopes", "place"} \/ Done => Binding
  /\ pc = "place" \/ Done => Placing
  /\ Done => /\ todo = {}
             /\ \A j, k \in DOMAIN placed : j < k => placed[j].priority >= placed[k].priority
  /\ pc = "done" /\ error # "none" => Flawed

-----------------------------------------------------------------------------
(***************************************************************************)
(* Lemmas about the arguments and about binding.                           *)
(***************************************************************************)
LEMMA Arguments ==
  ASSUME TypeOK
  PROVE  /\ Len(rules) \in Nat /\ DOMAIN rules = 1 .. Len(rules)
         /\ \A p \in DOMAIN rules :
              /\ rules[p] \in Range(rules) /\ rules[p].task \in Int
              /\ Len(rules[p].nodes) \in Nat
              /\ DOMAIN rules[p].nodes = 1 .. Len(rules[p].nodes)
         /\ IsFiniteSet(nodes)
         /\ \A x, y \in nodes : x.name = y.name => x.scope = y.scope
         /\ DefaultTask \in Int
<1>1. rules \in Seq(Range(rules))
  BY RulesAssumption DEF TypeOK
<1>2. Len(rules) \in Nat /\ DOMAIN rules = 1 .. Len(rules)
  BY <1>1
<1>3. ASSUME NEW p \in DOMAIN rules
      PROVE  /\ rules[p] \in Range(rules) /\ rules[p].task \in Int
             /\ rules[p].nodes \in Seq(Range(rules[p].nodes))
  <2>1. rules[p] \in Range(rules)
    BY DEF Range
  <2> QED
    BY <2>1, RulesAssumption DEF TypeOK
<1>4. \A p \in DOMAIN rules : /\ Len(rules[p].nodes) \in Nat
                              /\ DOMAIN rules[p].nodes = 1 .. Len(rules[p].nodes)
  BY <1>3
<1> QED
  BY <1>2, <1>3, <1>4, NodesAssumption, TasksAssumption DEF TypeOK

\* Without a conflict, binding adds the hits and changes nothing that was bound.
LEMMA BindFacts ==
  ASSUME NEW hits, NEW task, ~ Conflicts(hits, task), Bind(hits, task)
  PROVE  /\ DOMAIN bound' = DOMAIN bound \cup hits
         /\ \A m \in DOMAIN bound : bound'[m] = bound[m]
         /\ \A m \in hits : bound'[m] = task
BY DEF Conflicts, Bind

\* A name matches by the name of the node alone.
LEMMA NamesDecide ==
  ASSUME NEW sel, NEW x, NEW y, x.name = y.name
  PROVE  NodeMatches(sel, x) <=> NodeMatches(sel, y)
BY DEF NodeMatches

\* The claims on a node are those of finitely many rules, so two of them count.
LEMMA ClaimsCount ==
  ASSUME TypeOK, NEW nd \in nodes, NEW t \in Claims(nd), NEW u \in Claims(nd), t # u
  PROVE  Cardinality(Claims(nd)) > 1
<1> DEFINE task == [p \in DOMAIN rules |-> rules[p].task]
           all == {rules[p].task : p \in DOMAIN rules}
<1>1. IsFiniteSet(DOMAIN rules)
  BY Arguments, FS_Interval
<1>2. task \in Surjection(DOMAIN rules, all)
  BY DEF Surjection
<1>3. IsFiniteSet(all)
  BY <1>1, <1>2, FS_Surjection
<1>4. Claims(nd) \subseteq all \/ Claims(nd) = {DefaultTask}
  BY DEF Claims, Naming, Holding, Range
<1>5. Claims(nd) \subseteq all
  BY <1>4
<1>6. IsFiniteSet(Claims(nd)) /\ Cardinality(Claims(nd)) \in Nat
  BY <1>3, <1>5, FS_Subset, FS_CardinalityType
<1>7. Cardinality(Claims(nd)) # 0 /\ Cardinality(Claims(nd)) # 1
  BY <1>6, FS_EmptySet, FS_Singleton
<1> QED
  BY <1>6, <1>7

-----------------------------------------------------------------------------
(***************************************************************************)
(* The inductive invariant, one lemma per action or group of actions.      *)
(***************************************************************************)
\* While the rules are read, only the binding is at stake.
LEMMA ReadingInv ==
  ASSUME TypeOK', Binding', pc' \in {"names", "scopes"}, placed' = <<>>
  PROVE  IInv'
BY DEF IInv, Done

LEMMA InitInv == Init => IInv
<1> SUFFICES ASSUME Init
             PROVE  IInv
  OBVIOUS
<1>1. TypeOK
  BY DEF Init, TypeOK
<1> QED
  BY <1>1 DEF Init, IInv, Done

LEMMA AcceptInv ==
  ASSUME IInv, AcceptRules
  PROVE  IInv'
<1>1. /\ TypeOK /\ bound = <<>> /\ r = 1 /\ s = 1 /\ placed = <<>>
      /\ pc' = "names" /\ UNCHANGED <<args, r, s, bound, explicit, todo, placed, error>>
  BY DEF IInv, AcceptRules
<1>2. TypeOK'
  BY <1>1 DEF TypeOK, args, Names, AcceptRules
<1>3. RulesKnown'
  BY <1>1, Arguments DEF AcceptRules, RulesKnown, KnownTask, args
<1>4. explicit = {} /\ DOMAIN bound = {}
  BY <1>1 DEF TypeOK
<1>5. \A p \in DOMAIN rules : \A q \in DOMAIN rules[p].nodes : ~ SelectorSeen(p, q)'
  BY <1>1, Arguments DEF SelectorSeen
<1>6. SelectorsBind' /\ ExplicitIsNamed' /\ ScopesBind' /\ BoundIsHeld'
  BY <1>1, <1>4, <1>5 DEF SelectorsBind, ExplicitIsNamed, ScopesBind, BoundIsHeld, ScopeSeen,
     args
<1> QED
  BY <1>1, <1>2, <1>3, <1>6, ReadingInv DEF Binding

LEMMA BindNamesInv ==
  ASSUME IInv, BindNames
  PROVE  IInv'
<1> DEFINE task == rules[r].task
           sel == rules[r].nodes[s]
<1>1. /\ TypeOK /\ Binding /\ placed = <<>> /\ pc = "names" /\ pc' = "names"
      /\ r \in DOMAIN rules /\ s \in DOMAIN rules[r].nodes
      /\ NameHits # {} /\ ~ Conflicts(NameHits, task) /\ Bind(NameHits, task)
      /\ explicit' = explicit \cup NameHits /\ s' = s + 1 /\ r' = r
      /\ UNCHANGED <<rules, nodes, defs, target, todo, placed, error>>
  BY Arguments DEF IInv, BindNames, TypeOK, args
<1>2. /\ DOMAIN bound' = DOMAIN bound \cup NameHits
      /\ \A m \in DOMAIN bound : bound'[m] = bound[m]
      /\ \A m \in NameHits : bound'[m] = task
  BY <1>1, BindFacts
<1>3. NameHits \subseteq Names
  BY DEF NameHits, Names
<1>4. TypeOK'
  <2>1. bound' \in [DOMAIN bound' -> Int]
    <3>1. \A m \in DOMAIN bound' : bound'[m] \in Int
      BY <1>1, <1>2, Arguments DEF TypeOK
    <3>2. bound' = [m \in DOMAIN bound' |-> bound'[m]]
      BY <1>1 DEF Bind
    <3> QED
      BY <3>1, <3>2
  <2>2. r' \in Nat \ {0} /\ s' \in Nat \ {0}
    BY <1>1 DEF TypeOK
  <2>3. Names' = Names /\ DOMAIN bound' \subseteq Names /\ explicit' \subseteq DOMAIN bound'
    BY <1>1, <1>2, <1>3 DEF TypeOK, Names
  <2>4. Entries' = Entries
    BY <2>3 DEF Entries
  <2> QED
    BY <1>1, <2>1, <2>2, <2>3, <2>4 DEF TypeOK
<1>5. \A nd \in nodes : NodeMatches(sel, nd) <=> nd.name \in NameHits
  <2>1. \A nd \in nodes : NodeMatches(sel, nd) => nd.name \in NameHits
    BY DEF NameHits
  <2>2. ASSUME NEW nd \in nodes, nd.name \in NameHits
        PROVE  NodeMatches(sel, nd)
    <3>1. PICK x \in nodes : NodeMatches(sel, x) /\ nd.name = x.name
      BY <2>2 DEF NameHits
    <3> QED
      BY <3>1, NamesDecide
  <2> QED
    BY <2>1, <2>2
<1>6. SelectorsBind'
  <2> SUFFICES ASSUME NEW p \in DOMAIN rules, NEW q \in DOMAIN rules[p].nodes,
                      SelectorSeen(p, q)'
               PROVE  /\ \E nd \in nodes : NodeMatches(rules[p].nodes[q], nd)
                      /\ \A nd \in nodes : NodeMatches(rules[p].nodes[q], nd) =>
                           nd.name \in explicit' /\ bound'[nd.name] = rules[p].task
    BY <1>1 DEF SelectorsBind
  <2>1. CASE SelectorSeen(p, q)
    <3>1. /\ \E nd \in nodes : NodeMatches(rules[p].nodes[q], nd)
          /\ \A nd \in nodes : NodeMatches(rules[p].nodes[q], nd) =>
               nd.name \in explicit /\ bound[nd.name] = rules[p].task
      BY <1>1, <2>1 DEF Binding, SelectorsBind
    <3>2. explicit \subseteq DOMAIN bound
      BY <1>1 DEF TypeOK
    <3> QED
      BY <1>1, <1>2, <3>1, <3>2
  <2>2. CASE ~ SelectorSeen(p, q)
    <3>1. p = r /\ q = s
      BY <1>1, <2>2, Arguments DEF SelectorSeen, TypeOK
    <3>2. \E nd \in nodes : NodeMatches(sel, nd)
      BY <1>1 DEF NameHits
    <3> QED
      BY <1>1, <1>2, <1>5, <3>1, <3>2
  <2> QED
    BY <2>1, <2>2
<1>7. ExplicitIsNamed'
  <2> SUFFICES ASSUME NEW m \in explicit'
               PROVE  \E p \in DOMAIN rules : \E q \in DOMAIN rules[p].nodes :
                        /\ bound'[m] = rules[p].task
                        /\ \E nd \in nodes : nd.name = m /\ NodeMatches(rules[p].nodes[q], nd)
    BY <1>1 DEF ExplicitIsNamed
  <2>1. CASE m \in NameHits
    <3>1. \E nd \in nodes : nd.name = m /\ NodeMatches(sel, nd)
      BY <2>1 DEF NameHits
    <3> QED
      BY <1>1, <1>2, <2>1, <3>1
  <2>2. CASE m \in explicit
    BY <1>1, <1>2, <2>2 DEF Binding, ExplicitIsNamed, TypeOK
  <2> QED
    BY <1>1, <2>1, <2>2
<1>8. RulesKnown' /\ ScopesBind' /\ BoundIsHeld'
  <2>1. DOMAIN bound \subseteq explicit
    BY <1>1 DEF Binding, BoundIsHeld
  <2> QED
    BY <1>1, <1>2, <2>1 DEF Binding, RulesKnown, KnownTask, ScopesBind, ScopeSeen, BoundIsHeld
<1> QED
  BY <1>1, <1>4, <1>6, <1>7, <1>8, ReadingInv DEF Binding

\* The steps that only move on to the next rule or to the second pass.
LEMMA AdvanceInv ==
  ASSUME IInv, NextRule \/ EndNames \/ SkipScope
  PROVE  IInv'
<1>1. /\ TypeOK /\ Binding /\ placed = <<>> /\ pc \in {"names", "scopes"}
      /\ UNCHANGED <<rules, nodes, defs, target, bound, explicit, todo, placed, error>>
  BY DEF IInv, NextRule, EndNames, SkipScope, args
<1>2. /\ pc' \in {"names", "scopes"} /\ pc' \in {pc, "scopes"}
      /\ r' \in Nat \ {0} /\ s' \in Nat \ {0}
  BY <1>1 DEF NextRule, EndNames, SkipScope, TypeOK
<1>3. TypeOK'
  BY <1>1, <1>2 DEF TypeOK, Names, Entries
<1>4. ASSUME NEW p \in DOMAIN rules, NEW q \in DOMAIN rules[p].nodes, SelectorSeen(p, q)'
      PROVE  SelectorSeen(p, q)
  BY <1>1, <1>4, Arguments DEF SelectorSeen, NextRule, EndNames, SkipScope, TypeOK
<1>5. SelectorsBind' /\ ExplicitIsNamed' /\ RulesKnown'
  BY <1>1, <1>4 DEF Binding, SelectorsBind, ExplicitIsNamed, RulesKnown, KnownTask
<1>6. ASSUME NEW p \in DOMAIN rules, ScopeSeen(p)', rules[p].scope # NoScope
      PROVE  ScopeSeen(p)
  BY <1>1, <1>6, Arguments DEF ScopeSeen, NextRule, EndNames, SkipScope, TypeOK
<1>7. ScopesBind' /\ BoundIsHeld'
  BY <1>1, <1>2, <1>6 DEF Binding, ScopesBind, BoundIsHeld, Holds
<1> QED
  BY <1>1, <1>2, <1>3, <1>5, <1>7, ReadingInv DEF Binding

LEMMA BindScopeInv ==
  ASSUME IInv, BindScope
  PROVE  IInv'
<1> DEFINE task == rules[r].task
           hits == ScopeHits \ explicit
<1>1. /\ TypeOK /\ Binding /\ placed = <<>> /\ pc = "scopes" /\ pc' = "scopes"
      /\ r \in DOMAIN rules /\ rules[r].scope # NoScope
      /\ ScopeHits # {} /\ ~ Conflicts(hits, task) /\ Bind(hits, task)
      /\ r' = r + 1 /\ s' = s
      /\ UNCHANGED <<rules, nodes, defs, target, explicit, todo, placed, error>>
  BY Arguments DEF IInv, BindScope, TypeOK, args
<1>2. /\ DOMAIN bound' = DOMAIN bound \cup hits
      /\ \A m \in DOMAIN bound : bound'[m] = bound[m]
      /\ \A m \in hits : bound'[m] = task
  BY <1>1, BindFacts
<1>3. hits \subseteq Names
  BY DEF ScopeHits, Names
<1>4. TypeOK'
  <2>1. bound' \in [DOMAIN bound' -> Int]
    <3>1. \A m \in DOMAIN bound' : bound'[m] \in Int
      BY <1>1, <1>2, Arguments DEF TypeOK
    <3>2. bound' = [m \in DOMAIN bound' |-> bound'[m]]
      BY <1>1 DEF Bind
    <3> QED
      BY <3>1, <3>2
  <2>2. r' \in Nat \ {0} /\ s' \in Nat \ {0}
    BY <1>1 DEF TypeOK
  <2>3. Names' = Names /\ DOMAIN bound' \subseteq Names /\ explicit' \subseteq DOMAIN bound'
    BY <1>1, <1>2, <1>3 DEF TypeOK, Names
  <2>4. Entries' = Entries
    BY <2>3 DEF Entries
  <2> QED
    BY <1>1, <2>1, <2>2, <2>3, <2>4 DEF TypeOK
<1>5. \A nd \in nodes : Holds(r, nd) /\ nd.name \notin explicit <=> nd.name \in hits
  <2>1. \A nd \in nodes : Holds(r, nd) => nd.name \in ScopeHits
    BY DEF ScopeHits, Holds
  <2>2. ASSUME NEW nd \in nodes, nd.name \in ScopeHits
        PROVE  Holds(r, nd)
    <3>1. PICK x \in nodes : ScopeMatches(rules[r].scope, x) /\ nd.name = x.name
      BY <2>2 DEF ScopeHits
    <3>2. x.scope = nd.scope
      BY <1>1, <3>1, Arguments
    <3> QED
      BY <1>1, <3>1, <3>2 DEF Holds, ScopeMatches
  <2> QED
    BY <2>1, <2>2
<1>6. ScopesBind'
  <2> SUFFICES ASSUME NEW p \in DOMAIN rules, ScopeSeen(p)', rules[p].scope # NoScope
               PROVE  /\ \E nd \in nodes : Holds(p, nd)
                      /\ \A nd \in nodes : Holds(p, nd) /\ nd.name \notin explicit =>
                           nd.name \in DOMAIN bound' /\ bound'[nd.name] = rules[p].task
    BY <1>1 DEF ScopesBind, Holds
  <2>1. CASE ScopeSeen(p)
    <3>1. /\ \E nd \in nodes : Holds(p, nd)
          /\ \A nd \in nodes : Holds(p, nd) /\ nd.name \notin explicit =>
               nd.name \in DOMAIN bound /\ bound[nd.name] = rules[p].task
      BY <1>1, <2>1 DEF Binding, ScopesBind
    <3> QED
      BY <1>2, <3>1
  <2>2. CASE ~ ScopeSeen(p)
    <3>1. p = r
      BY <1>1, <2>2, Arguments DEF ScopeSeen, TypeOK
    <3>2. \E nd \in nodes : Holds(r, nd)
      BY <1>1 DEF ScopeHits, Holds
    <3> QED
      BY <1>2, <1>5, <3>1, <3>2
  <2> QED
    BY <2>1, <2>2
<1>7. BoundIsHeld'
  <2> SUFFICES ASSUME NEW m \in DOMAIN bound' \ explicit
               PROVE  \E p \in DOMAIN rules :
                        /\ bound'[m] = rules[p].task
                        /\ \E nd \in nodes : nd.name = m /\ Holds(p, nd)
    BY <1>1 DEF BoundIsHeld, Holds
  <2>1. CASE m \in hits
    <3>1. \E nd \in nodes : nd.name = m /\ Holds(r, nd)
      BY <1>1, <2>1 DEF ScopeHits, Holds
    <3> QED
      BY <1>1, <1>2, <2>1, <3>1
  <2>2. CASE m \in DOMAIN bound
    BY <1>1, <1>2, <2>2 DEF Binding, BoundIsHeld
  <2> QED
    BY <1>2, <2>1, <2>2
<1>8. SelectorsBind'
  BY <1>1, <1>2 DEF Binding, SelectorsBind, SelectorSeen, TypeOK
<1>9. ExplicitIsNamed' /\ RulesKnown'
  BY <1>1, <1>2 DEF Binding, ExplicitIsNamed, RulesKnown, KnownTask, TypeOK
<1> QED
  BY <1>1, <1>4, <1>6, <1>7, <1>8, <1>9, ReadingInv DEF Binding

-----------------------------------------------------------------------------
(***************************************************************************)
(* What the two passes leave behind, and what a failing step shows.        *)
(***************************************************************************)
\* A task that names a node, and one whose scope holds it, in terms of places.
LEMMA ClaimsByPlace ==
  ASSUME NEW nd, NEW t
  PROVE  /\ t \in Naming(nd) <=>
              \E p \in DOMAIN rules : \E q \in DOMAIN rules[p].nodes :
                t = rules[p].task /\ NodeMatches(rules[p].nodes[q], nd)
         /\ t \in Holding(nd) <=>
              \E p \in DOMAIN rules : t = rules[p].task /\ Holds(p, nd)
BY DEF Naming, Holding, Holds, ScopeMatches, Range

\* After both passes the one claim on a node is that of the task it is bound to.
LEMMA ClaimsDecided ==
  ASSUME TypeOK, Binding, NEW nd \in nodes,
         \A p \in DOMAIN rules : /\ ScopeSeen(p)
                                 /\ \A q \in DOMAIN rules[p].nodes : SelectorSeen(p, q)
  PROVE  Claims(nd) = {TaskOf(nd.name)}
<1> DEFINE m == nd.name
<1>1. \A t \in Naming(nd) : m \in explicit /\ bound[m] = t
  BY ClaimsByPlace DEF Binding, SelectorsBind
<1>2. m \in explicit => bound[m] \in Naming(nd)
  <2> SUFFICES ASSUME m \in explicit
               PROVE  bound[m] \in Naming(nd)
    OBVIOUS
  <2>1. PICK p \in DOMAIN rules : \E q \in DOMAIN rules[p].nodes :
          /\ bound[m] = rules[p].task
          /\ \E x \in nodes : x.name = m /\ NodeMatches(rules[p].nodes[q], x)
    BY DEF Binding, ExplicitIsNamed
  <2>2. \E q \in DOMAIN rules[p].nodes : NodeMatches(rules[p].nodes[q], nd)
    BY <2>1, NamesDecide
  <2> QED
    BY <2>1, <2>2, ClaimsByPlace
<1>3. m \notin explicit => \A t \in Holding(nd) : m \in DOMAIN bound /\ bound[m] = t
  BY ClaimsByPlace DEF Binding, ScopesBind, Holds
<1>4. m \in DOMAIN bound \ explicit => bound[m] \in Holding(nd)
  <2> SUFFICES ASSUME m \in DOMAIN bound \ explicit
               PROVE  bound[m] \in Holding(nd)
    OBVIOUS
  <2>1. PICK p \in DOMAIN rules :
          bound[m] = rules[p].task /\ \E x \in nodes : x.name = m /\ Holds(p, x)
    BY DEF Binding, BoundIsHeld
  <2>2. Holds(p, nd)
    BY <2>1, Arguments DEF Holds, ScopeMatches
  <2> QED
    BY <2>1, <2>2, ClaimsByPlace
<1>5. explicit \subseteq DOMAIN bound
  BY DEF TypeOK
<1>6. CASE m \in explicit
  <2>1. Naming(nd) = {bound[m]}
    BY <1>1, <1>2, <1>6
  <2> QED
    BY <1>5, <1>6, <2>1 DEF Claims, TaskOf
<1>7. CASE m \in DOMAIN bound \ explicit
  <2>1. Naming(nd) = {} /\ Holding(nd) = {bound[m]}
    BY <1>1, <1>3, <1>4, <1>7
  <2> QED
    BY <1>7, <2>1 DEF Claims, TaskOf
<1>8. CASE m \notin DOMAIN bound
  <2>1. Naming(nd) = {} /\ Holding(nd) = {}
    BY <1>1, <1>3, <1>5, <1>8
  <2> QED
    BY <1>8, <2>1 DEF Claims, TaskOf
<1> QED
  BY <1>5, <1>6, <1>7, <1>8

\* A failing step finds the rules at fault.
LEMMA NamesFault ==
  ASSUME IInv, NoSuchNode \/ NameConflict
  PROVE  Flawed
<1>1. /\ TypeOK /\ Binding /\ pc = "names"
      /\ r \in DOMAIN rules /\ s \in DOMAIN rules[r].nodes
  BY Arguments DEF IInv, NoSuchNode, NameConflict, TypeOK
<1>2. CASE NameHits = {}
  <2>1. \A nd \in nodes : ~ NodeMatches(rules[r].nodes[s], nd)
    BY <1>2 DEF NameHits
  <2>2. rules[r] \in Range(rules) /\ rules[r].nodes[s] \in Range(rules[r].nodes)
    BY <1>1 DEF Range
  <2> QED
    BY <2>1, <2>2 DEF Flawed, DeadSelector
<1>3. CASE Conflicts(NameHits, rules[r].task)
  <2>1. PICK m \in NameHits \cap DOMAIN bound : bound[m] # rules[r].task
    BY <1>3 DEF Conflicts
  <2>2. PICK nd \in nodes : nd.name = m /\ NodeMatches(rules[r].nodes[s], nd)
    BY DEF NameHits
  <2>3. rules[r].task \in Naming(nd)
    BY <1>1, <2>2, ClaimsByPlace
  <2>4. m \in explicit
    BY <1>1, <2>1 DEF Binding, BoundIsHeld
  <2>5. PICK p \in DOMAIN rules : \E q \in DOMAIN rules[p].nodes :
          /\ bound[m] = rules[p].task
          /\ \E x \in nodes : x.name = m /\ NodeMatches(rules[p].nodes[q], x)
    BY <1>1, <2>4 DEF Binding, ExplicitIsNamed
  <2>6. bound[m] \in Naming(nd)
    BY <2>2, <2>5, NamesDecide, ClaimsByPlace
  <2>7. rules[r].task \in Claims(nd) /\ bound[m] \in Claims(nd)
    BY <2>3, <2>6 DEF Claims
  <2> QED
    BY <1>1, <2>1, <2>7, ClaimsCount DEF Flawed
<1> QED
  BY <1>2, <1>3 DEF NoSuchNode, NameConflict

LEMMA ScopesFault ==
  ASSUME IInv, NoSuchScope \/ ScopeConflict
  PROVE  Flawed
<1>1. /\ TypeOK /\ Binding /\ pc = "scopes"
      /\ r \in DOMAIN rules /\ rules[r].scope # NoScope
  BY Arguments DEF IInv, NoSuchScope, ScopeConflict, TypeOK
<1>2. CASE ScopeHits = {}
  <2>1. \A nd \in nodes : ~ IsPrefix(rules[r].scope, nd.scope)
    BY <1>2 DEF ScopeHits, ScopeMatches
  <2>2. rules[r] \in Range(rules)
    BY <1>1, Arguments
  <2> QED
    BY <1>1, <2>1, <2>2 DEF Flawed, DeadSelector
<1>3. CASE Conflicts(ScopeHits \ explicit, rules[r].task)
  <2>1. PICK m \in (ScopeHits \ explicit) \cap DOMAIN bound : bound[m] # rules[r].task
    BY <1>3 DEF Conflicts
  <2>2. PICK nd \in nodes : nd.name = m /\ ScopeMatches(rules[r].scope, nd)
    BY DEF ScopeHits
  <2>3. rules[r].task \in Holding(nd)
    BY <1>1, <2>2, ClaimsByPlace DEF Holds
  <2>4. PICK p \in DOMAIN rules :
          bound[m] = rules[p].task /\ \E x \in nodes : x.name = m /\ Holds(p, x)
    BY <1>1, <2>1 DEF Binding, BoundIsHeld
  <2>5. Holds(p, nd)
    BY <1>1, <2>2, <2>4, Arguments DEF Holds, ScopeMatches
  <2>6. bound[m] \in Holding(nd)
    BY <2>4, <2>5, ClaimsByPlace
  <2>7. Naming(nd) = {}
    <3>1. \A p2 \in DOMAIN rules : \A q \in DOMAIN rules[p2].nodes :
            NodeMatches(rules[p2].nodes[q], nd) => m \in explicit
      BY <1>1, <2>2 DEF Binding, SelectorsBind, SelectorSeen
    <3> QED
      BY <2>1, <3>1, ClaimsByPlace
  <2>8. rules[r].task \in Claims(nd) /\ bound[m] \in Claims(nd)
    BY <2>3, <2>6, <2>7 DEF Claims
  <2> QED
    BY <1>1, <2>1, <2>8, ClaimsCount DEF Flawed
<1> QED
  BY <1>2, <1>3 DEF NoSuchScope, ScopeConflict

\* The next task is one of those left to place.
LEMMA NextTaskIsLeft ==
  ASSUME TypeOK, todo \subseteq TasksInUse, todo # {}
  PROVE  NextTask \in todo
<1> DEFINE taskOf == [nd \in nodes |-> TaskOf(nd.name)]
<1>1. IsFiniteSet(nodes) /\ DefaultTask \in Int
  BY Arguments
<1>2. taskOf \in Surjection(nodes, TasksInUse)
  BY DEF Surjection, TasksInUse
<1>3. IsFiniteSet(todo)
  BY <1>1, <1>2, FS_Surjection, FS_Subset
<1>4. todo \subseteq Int
  BY <1>1 DEF TasksInUse, TaskOf, TypeOK
<1>5. \E t \in todo : \A u \in todo : t <= u
  BY <1>3, <1>4, LeastElement
<1> QED
  BY <1>5 DEF NextTask

\* A task in use is the only claim on some node.
LEMMA InUseIsClaimed ==
  ASSUME TypeOK, Binding, pc = "place" \/ Done, NEW t \in TasksInUse
  PROVE  /\ \E nd \in nodes : t \in Claims(nd)
         /\ t = DefaultTask \/ t \in DOMAIN defs
<1>1. \A p \in DOMAIN rules : /\ ScopeSeen(p)
                              /\ \A q \in DOMAIN rules[p].nodes : SelectorSeen(p, q)
  BY DEF ScopeSeen, SelectorSeen, Done
<1>2. PICK nd \in nodes : t = TaskOf(nd.name)
  BY DEF TasksInUse
<1>3. Claims(nd) = {t}
  BY <1>1, <1>2, ClaimsDecided
<1>4. t = DefaultTask \/ \E p \in DOMAIN rules : t = rules[p].task
  BY <1>3, ClaimsByPlace DEF Claims
<1> QED
  BY <1>3, <1>4 DEF Binding, RulesKnown, KnownTask

LEMMA PlaceFault ==
  ASSUME IInv, LacksSpec \/ IllegalPlacement
  PROVE  Flawed
<1>1. /\ TypeOK /\ Binding /\ Placing /\ pc = "place" /\ todo # {}
      /\ ~ IsBareDefault(NextTask)
  BY DEF IInv, LacksSpec, IllegalPlacement
<1>2. NextTask \in TasksInUse
  BY <1>1, NextTaskIsLeft DEF Placing
<1>3. Unplaceable(NextTask)
  BY <1>1 DEF LacksSpec, IllegalPlacement, Unplaceable, Placeable, PosixLegal
<1> QED
  BY <1>1, <1>2, <1>3, InUseIsClaimed DEF Flawed

LEMMA FailInv ==
  ASSUME IInv, \/ RefuseRules
               \/ NoSuchNode \/ NameConflict
               \/ NoSuchScope \/ ScopeConflict
               \/ LacksSpec \/ IllegalPlacement
  PROVE  IInv'
<1>1. Flawed
  <2>1. CASE RefuseRules
    BY <2>1 DEF RefuseRules, Flawed
  <2> QED
    BY <2>1, NamesFault, ScopesFault, PlaceFault
<1>2. /\ pc' = "done" /\ error' # "none"
      /\ UNCHANGED <<args, r, s, bound, explicit, todo, placed>>
  BY DEF RefuseRules, NoSuchNode, NameConflict, NoSuchScope, ScopeConflict, LacksSpec,
         IllegalPlacement, Fail
<1>3. TypeOK'
  BY <1>2 DEF IInv, TypeOK, args, Names, Entries
<1>4. Flawed'
  BY <1>1, <1>2 DEF Flawed, KnownTask, DeadSelector, Claims, Naming, Holding, Unplaceable,
     IsBareDefault, args
<1> QED
  BY <1>2, <1>3, <1>4 DEF IInv, Done

LEMMA CollectInv ==
  ASSUME IInv, Collect
  PROVE  IInv'
<1>1. /\ TypeOK /\ Binding /\ placed = <<>> /\ pc = "scopes" /\ pc' = "place"
      /\ r > Len(rules) /\ todo' = TasksInUse
      /\ UNCHANGED <<rules, nodes, defs, target, r, s, bound, explicit, placed, error>>
  BY DEF IInv, Collect, args, TasksInUse
<1>2. TypeOK'
  BY <1>1 DEF TypeOK, Names, Entries
<1>3. \A p \in DOMAIN rules : /\ ScopeSeen(p)
                              /\ \A q \in DOMAIN rules[p].nodes : SelectorSeen(p, q)
  BY <1>1, Arguments DEF ScopeSeen, SelectorSeen, TypeOK
<1>4. Binding'
  BY <1>1, <1>3 DEF Binding, RulesKnown, KnownTask, SelectorsBind, ExplicitIsNamed, ScopesBind,
     BoundIsHeld, Holds
<1>5. Placing'
  BY <1>1 DEF Placing, TasksInUse, TaskOf
<1> QED
  BY <1>1, <1>2, <1>4, <1>5 DEF IInv, Done

\* Both ways to place a task append one entry for it.
LEMMA EntryInv ==
  ASSUME IInv, pc = "place", todo # {}, NEW e \in Entries,
         e.name = NextTask, e.members = Members(NextTask), Legal(e),
         ~ Unplaceable(NextTask),
         placed' = Append(placed, e), todo' = todo \ {NextTask},
         UNCHANGED <<pc, args, r, s, bound, explicit, error>>
  PROVE  IInv'
<1>1. TypeOK /\ Binding /\ Placing /\ placed \in Seq(Entries)
  BY DEF IInv, TypeOK
<1>2. NextTask \in todo /\ NextTask \in TasksInUse
  BY <1>1, NextTaskIsLeft DEF Placing
<1>3. /\ placed' \in Seq(Entries) /\ DOMAIN placed = 1 .. Len(placed)
      /\ DOMAIN placed' = 1 .. Len(placed) + 1 /\ Len(placed) \in Nat
      /\ \A k \in DOMAIN placed : placed'[k] = placed[k]
      /\ placed'[Len(placed) + 1] = e
  BY <1>1
<1>4. /\ TasksInUse' = TasksInUse /\ Entries' = Entries
      /\ \A t : Members(t)' = Members(t) /\ Unplaceable(t)' = Unplaceable(t)
      /\ \A t : Legal(t)' = Legal(t)
  BY DEF args, TasksInUse, TaskOf, Entries, Names, Members, Unplaceable, IsBareDefault, Legal
<1>5. TypeOK'
  BY <1>1, <1>3, <1>4 DEF TypeOK, args, Names
<1>6. Binding'
  BY <1>1 DEF Binding, RulesKnown, KnownTask, SelectorsBind, SelectorSeen, ExplicitIsNamed,
     ScopesBind, ScopeSeen, BoundIsHeld, Holds, args
<1>7. Placing'
  <2>1. todo' \subseteq TasksInUse
    BY <1>1 DEF Placing
  <2>2. \A t \in TasksInUse : t \in todo' \/ \E k \in DOMAIN placed' : placed'[k].name = t
    <3> SUFFICES ASSUME NEW t \in TasksInUse, t \notin todo'
                 PROVE  \E k \in DOMAIN placed' : placed'[k].name = t
      OBVIOUS
    <3>1. CASE t = NextTask
      BY <1>3, <3>1
    <3>2. CASE t # NextTask
      <4>1. PICK k \in DOMAIN placed : placed[k].name = t
        BY <1>1, <3>2 DEF Placing
      <4> QED
        BY <1>3, <4>1
    <3> QED
      BY <3>1, <3>2
  <2>3. ASSUME NEW k \in DOMAIN placed'
        PROVE  /\ placed'[k].name \in TasksInUse \ todo'
               /\ placed'[k].members = Members(placed'[k].name)
               /\ ~ Unplaceable(placed'[k].name)
               /\ Legal(placed'[k])
    <3>1. CASE k \in DOMAIN placed
      BY <1>1, <1>3, <3>1 DEF Placing
    <3>2. CASE k = Len(placed) + 1
      BY <1>2, <1>3, <3>2
    <3> QED
      BY <1>3, <3>1, <3>2
  <2>4. ASSUME NEW j \in DOMAIN placed', NEW k \in DOMAIN placed',
               placed'[j].name = placed'[k].name
        PROVE  j = k
    <3>1. \A i \in DOMAIN placed : placed[i].name # NextTask
      BY <1>1, <1>2 DEF Placing
    <3>2. \A i \in DOMAIN placed' : i \in DOMAIN placed \/ i = Len(placed) + 1
      BY <1>3
    <3> QED
      BY <1>1, <1>3, <2>4, <3>1, <3>2 DEF Placing
  <2> QED
    BY <1>4, <2>1, <2>2, <2>3, <2>4 DEF Placing
<1> QED
  BY <1>1, <1>5, <1>6, <1>7 DEF IInv, Done

LEMMA PlaceInv ==
  ASSUME IInv, PlaceDefault \/ PlaceTask
  PROVE  IInv'
<1>1. /\ TypeOK /\ Binding /\ Placing /\ pc = "place" /\ todo # {}
      /\ todo' = todo \ {NextTask}
      /\ UNCHANGED <<pc, args, r, s, bound, explicit, error>>
  BY DEF IInv, PlaceDefault, PlaceTask
<1>2. NextTask \in TasksInUse
  BY <1>1, NextTaskIsLeft DEF Placing
<1>3. NextTask \in Int /\ Members(NextTask) \in SUBSET Names
  BY <1>1, <1>2, Arguments DEF TasksInUse, TaskOf, TypeOK, Members, Names
<1>4. CASE PlaceDefault
  <2> DEFINE e == [name |-> NextTask, priority |-> 0, policy |-> "other",
                   members |-> Members(NextTask)]
  <2>1. IsBareDefault(NextTask) /\ placed' = Append(placed, e)
    BY <1>4 DEF PlaceDefault
  <2>2. e \in Entries
    BY <1>3 DEF Entries, Policies
  <2>3. Legal(e) /\ ~ Unplaceable(NextTask)
    BY <2>1 DEF Legal, Unplaceable, IsBareDefault
  <2>4. e.name = NextTask /\ e.members = Members(NextTask)
    OBVIOUS
  <2> HIDE DEF e
  <2> QED
    BY <1>1, <2>1, <2>2, <2>3, <2>4, EntryInv
<1>5. CASE PlaceTask
  <2> DEFINE spec == defs[NextTask][target]
             e == [name |-> NextTask, priority |-> spec.priority, policy |-> PolicyOf(spec),
                   members |-> Members(NextTask)]
  <2>1. /\ ~ IsBareDefault(NextTask) /\ spec # NoSpec /\ Placeable(spec)
        /\ placed' = Append(placed, e)
    BY <1>5 DEF PlaceTask
  <2>2. NextTask \in DOMAIN defs
    BY <1>1, <1>2, <2>1, InUseIsClaimed DEF IsBareDefault
  <2>3. spec.priority \in Int
    BY <1>1, <2>1, <2>2, TasksAssumption DEF TypeOK
  <2>4. PolicyOf(spec) \in Policies
    BY <2>1 DEF PolicyOf, Policies, Placeable, PosixLegal
  <2>5. e \in Entries
    BY <1>3, <2>3, <2>4 DEF Entries
  <2>6. ~ Unplaceable(NextTask)
    BY <2>1 DEF Unplaceable, Placeable, PosixLegal
  <2>7. e.name = NextTask /\ e.members = Members(NextTask)
    OBVIOUS
  <2>8. Legal(e)
    BY <2>1 DEF Legal, Placeable, PosixLegal, PolicyOf, WithoutPriority
  <2> HIDE DEF e
  <2> QED
    BY <1>1, <2>1, <2>5, <2>6, <2>7, <2>8, EntryInv
<1> QED
  BY <1>4, <1>5

\* Sorting moves the entries and sets them in descending order.
LEMMA FinishInv ==
  ASSUME IInv, Finish
  PROVE  IInv'
<1> DEFINE before == {ij \in (DOMAIN placed) \X (DOMAIN placed) :
                        TaskBefore(placed[ij[1]], placed[ij[2]])}
<1>1. /\ TypeOK /\ Binding /\ Placing /\ pc = "place" /\ todo = {}
      /\ placed' = Arranged(placed, DOMAIN placed, before) /\ pc' = "done" /\ error = "none"
      /\ UNCHANGED <<args, r, s, bound, explicit, todo, error>>
  BY DEF IInv, TypeOK, Finish, SortedBy
<1>2. placed \in Seq(Entries) /\ DOMAIN placed = 1 .. Len(placed) /\ Len(placed) \in Nat
  BY <1>1 DEF TypeOK
<1>3. \A i, j \in DOMAIN placed : <<i, j>> \in before <=> TaskBefore(placed[i], placed[j])
  OBVIOUS
<1> HIDE DEF before
<1>4. \A k \in DOMAIN placed : placed[k].priority \in Int /\ placed[k].name \in Int
  <2>1. \A k \in DOMAIN placed : placed[k] \in Entries
    BY <1>2
  <2>2. \A e \in Entries : e.priority \in Int /\ e.name \in Int
    BY DEF Entries
  <2> QED
    BY <2>1, <2>2
<1>5. Orders(before, DOMAIN placed)
  <2> SUFFICES ASSUME NEW i \in DOMAIN placed, NEW j \in DOMAIN placed, NEW k \in DOMAIN placed
               PROVE  /\ TaskBefore(placed[i], placed[j]) => ~ TaskBefore(placed[j], placed[i])
                      /\ ~ TaskBefore(placed[i], placed[j]) /\ ~ TaskBefore(placed[j], placed[k])
                           => ~ TaskBefore(placed[i], placed[k])
    BY <1>3 DEF Orders
  <2>1. /\ placed[i].priority \in Int /\ placed[i].name \in Int
        /\ placed[j].priority \in Int /\ placed[j].name \in Int
        /\ placed[k].priority \in Int /\ placed[k].name \in Int
    BY <1>4
  <2> QED
    BY <2>1 DEF TaskBefore
<1>6. IsStablySorted(placed', Entries, placed, before)
  <2>1. placed \in Seq(Entries)
    BY <1>2
  <2>2. IsStablySorted(Arranged(placed, DOMAIN placed, before), Entries, placed, before)
    BY <1>5, <2>1, SortedFacts
  <2> QED
    BY <1>1, <2>2
<1>7. PICK p \in Bijection(DOMAIN placed, DOMAIN placed) :
        \A k \in DOMAIN placed :
          /\ placed'[k] = placed[p[k]]
          /\ \A j \in DOMAIN placed : j < k => <<p[k], p[j]>> \notin before
  BY <1>6 DEF IsStablySorted
<1>8. /\ \A k \in DOMAIN placed : p[k] \in DOMAIN placed
      /\ \A j, k \in DOMAIN placed : p[j] = p[k] => j = k
      /\ \A i \in DOMAIN placed : \E k \in DOMAIN placed : p[k] = i
  BY <1>7 DEF Bijection, Injection, Surjection, IsInjective
<1>9. /\ TasksInUse' = TasksInUse /\ Entries' = Entries
      /\ \A t : Members(t)' = Members(t) /\ Unplaceable(t)' = Unplaceable(t)
      /\ \A t : Legal(t)' = Legal(t)
  BY <1>1 DEF args, TasksInUse, TaskOf, Entries, Names, Members, Unplaceable, IsBareDefault,
              Legal
<1>10. TypeOK'
  BY <1>1, <1>6, <1>9 DEF IsStablySorted, TypeOK, args, Names
<1>11. Binding'
  BY <1>1 DEF Binding, RulesKnown, KnownTask, SelectorsBind, SelectorSeen, ExplicitIsNamed,
     ScopesBind, ScopeSeen, BoundIsHeld, Holds, args
<1>12. Placing'
  <2>1. \A t \in TasksInUse : \E k \in DOMAIN placed : placed[p[k]].name = t
    <3> SUFFICES ASSUME NEW t \in TasksInUse
                 PROVE  \E k \in DOMAIN placed : placed[p[k]].name = t
      OBVIOUS
    <3>1. PICK i \in DOMAIN placed : placed[i].name = t
      BY <1>1 DEF Placing
    <3>2. PICK k \in DOMAIN placed : p[k] = i
      BY <1>8
    <3> QED
      BY <3>1, <3>2
  <2>2. \A k \in DOMAIN placed :
          /\ placed[p[k]].name \in TasksInUse \ todo
          /\ placed[p[k]].members = Members(placed[p[k]].name)
          /\ ~ Unplaceable(placed[p[k]].name)
          /\ Legal(placed[p[k]])
    BY <1>1, <1>8 DEF Placing
  <2>3. \A j, k \in DOMAIN placed : placed[p[j]].name = placed[p[k]].name => j = k
    BY <1>1, <1>8 DEF Placing
  <2> QED
    BY <1>1, <1>6, <1>7, <1>9, <2>1, <2>2, <2>3 DEF Placing, IsStablySorted
<1>13. \A j, k \in DOMAIN placed' : j < k => placed'[j].priority >= placed'[k].priority
  <2> SUFFICES ASSUME NEW j \in DOMAIN placed, NEW k \in DOMAIN placed, j < k
               PROVE  placed[p[j]].priority >= placed[p[k]].priority
    BY <1>6, <1>7 DEF IsStablySorted
  <2>1. <<p[k], p[j]>> \notin before
    BY <1>7
  <2>2. ~ TaskBefore(placed[p[k]], placed[p[j]])
    BY <1>3, <1>8, <2>1
  <2>3. placed[p[j]].priority \in Int /\ placed[p[k]].priority \in Int
    BY <1>4, <1>8
  <2> QED
    BY <2>2, <2>3 DEF TaskBefore
<1> QED
  BY <1>1, <1>10, <1>11, <1>12, <1>13 DEF IInv, Done

LEMMA StutterInv ==
  ASSUME IInv, UNCHANGED vars
  PROVE  IInv'
<1>1. UNCHANGED <<pc, rules, nodes, defs, target, r, s, bound, explicit, todo, placed, error>>
  BY DEF vars, args
<1>2. TypeOK' <=> TypeOK
  BY <1>1 DEF TypeOK, Names, Entries
<1>3. Binding' <=> Binding
  BY <1>1 DEF Binding, RulesKnown, KnownTask, SelectorsBind, SelectorSeen, ExplicitIsNamed,
     ScopesBind, ScopeSeen, BoundIsHeld, Holds
<1>4. Placing' <=> Placing
  BY <1>1 DEF Placing, TasksInUse, TaskOf, Members, Unplaceable, IsBareDefault, Legal
<1>5. Flawed' <=> Flawed
  BY <1>1 DEF Flawed, KnownTask, DeadSelector, Claims, Naming, Holding, Unplaceable,
     IsBareDefault
<1> QED
  BY <1>1, <1>2, <1>3, <1>4, <1>5 DEF IInv, Done

-----------------------------------------------------------------------------
(***************************************************************************)
(* Theorems.                                                               *)
(***************************************************************************)
\* The invariant: what the passes have dealt with is bound as the rules say, and what
\* is placed has one legal entry.
THEOREM Invariance == Spec => []IInv
<1>1. IInv /\ [Next]_vars => IInv'
  <2> SUFFICES ASSUME IInv, [Next]_vars
               PROVE  IInv'
    OBVIOUS
  <2>1. CASE AcceptRules
    BY <2>1, AcceptInv
  <2>2. CASE BindNames
    BY <2>2, BindNamesInv
  <2>3. CASE NextRule \/ EndNames \/ SkipScope
    BY <2>3, AdvanceInv
  <2>4. CASE BindScope
    BY <2>4, BindScopeInv
  <2>5. CASE Collect
    BY <2>5, CollectInv
  <2>6. CASE PlaceDefault \/ PlaceTask
    BY <2>6, PlaceInv
  <2>7. CASE Finish
    BY <2>7, FinishInv
  <2>8. CASE \/ RefuseRules
             \/ NoSuchNode \/ NameConflict
             \/ NoSuchScope \/ ScopeConflict
             \/ LacksSpec \/ IllegalPlacement
    BY <2>8, FailInv
  <2>9. CASE Returned \/ UNCHANGED vars
    BY <2>9, StutterInv DEF Returned
  <2> QED
    BY <2>1, <2>2, <2>3, <2>4, <2>5, <2>6, <2>7, <2>8, <2>9 DEF Next, Step
<1> QED
  BY <1>1, InitInv, PTL DEF Spec

\* A table holds every node once, in the task that the rules give it.
LEMMA DoneBinding == IInv => BindingFollowsRules
<1> SUFFICES ASSUME IInv, Done, NEW nd \in nodes
             PROVE  LET holders == {k \in DOMAIN placed : nd.name \in placed[k].members}
                    IN  /\ Cardinality(holders) = 1
                        /\ \A k \in holders : Claims(nd) = {placed[k].name}
  BY DEF BindingFollowsRules
<1> DEFINE holders == {k \in DOMAIN placed : nd.name \in placed[k].members}
           task == TaskOf(nd.name)
<1>1. TypeOK /\ Binding /\ Placing /\ todo = {}
  BY DEF IInv
<1>2. Claims(nd) = {task}
  BY <1>1, ClaimsDecided DEF ScopeSeen, SelectorSeen, Done
<1>3. PICK k \in DOMAIN placed : placed[k].name = task
  BY <1>1 DEF Placing, TasksInUse
<1>4. \A j \in DOMAIN placed : nd.name \in placed[j].members <=> placed[j].name = task
  BY <1>1 DEF Placing, Members
<1>5. holders = {k}
  BY <1>1, <1>3, <1>4 DEF Placing
<1>6. Cardinality(holders) = 1
  BY <1>5, FS_Singleton
<1> QED
  BY <1>2, <1>3, <1>5, <1>6

\* What is refused is at fault (the invariant), and what is at fault is refused: the
\* rules behind a finished table have no flaw left.
LEMMA DoneRefusal == IInv => RefusalIsJustified
<1> SUFFICES ASSUME IInv, Done
             PROVE  ~ Flawed
  BY DEF RefusalIsJustified, Done, IInv
<1>1. TypeOK /\ Binding /\ Placing /\ todo = {}
  BY DEF IInv
<1>2. \A p \in DOMAIN rules : /\ ScopeSeen(p)
                              /\ \A q \in DOMAIN rules[p].nodes : SelectorSeen(p, q)
  BY DEF ScopeSeen, SelectorSeen, Done
<1>3. \A rule \in Range(rules) : KnownTask(rule.task)
  BY <1>1 DEF Binding, RulesKnown, Range
<1>4. ~ DeadSelector
  <2>1. ASSUME NEW p \in DOMAIN rules, NEW q \in DOMAIN rules[p].nodes
        PROVE  \E nd \in nodes : NodeMatches(rules[p].nodes[q], nd)
    BY <1>1, <1>2 DEF Binding, SelectorsBind
  <2>2. ASSUME NEW p \in DOMAIN rules, rules[p].scope # NoScope
        PROVE  \E nd \in nodes : IsPrefix(rules[p].scope, nd.scope)
    BY <1>1, <1>2, <2>2 DEF Binding, ScopesBind, Holds, ScopeMatches
  <2> QED
    BY <2>1, <2>2 DEF DeadSelector, Range
<1>5. ASSUME NEW nd \in nodes
      PROVE  Cardinality(Claims(nd)) = 1 /\ \A task \in Claims(nd) : ~ Unplaceable(task)
  <2>1. Claims(nd) = {TaskOf(nd.name)}
    BY <1>1, <1>2, ClaimsDecided
  <2>2. \E k \in DOMAIN placed : placed[k].name = TaskOf(nd.name)
    BY <1>1 DEF Placing, TasksInUse
  <2>3. ~ Unplaceable(TaskOf(nd.name))
    BY <1>1, <2>2 DEF Placing
  <2> QED
    BY <2>1, <2>3, FS_Singleton
<1> QED
  BY <1>3, <1>4, <1>5 DEF Flawed

LEMMA DoneApplicable == IInv => TableIsApplicable
<1> SUFFICES ASSUME IInv, Done
             PROVE  TableIsApplicable
  BY DEF TableIsApplicable
<1>1. TypeOK /\ Placing /\ todo = {}
  BY DEF IInv
<1>2. \A k \in DOMAIN placed : Legal(placed[k])
  BY <1>1 DEF Placing
<1>3. target \in {"posix", "native"} => BandViolations(placed, [min |-> 1, max |-> 99]) = {}
  BY <1>2 DEF BandViolations, Legal
<1>4. \A k \in DOMAIN placed : placed[k].members # {}
  <2> SUFFICES ASSUME NEW k \in DOMAIN placed
               PROVE  placed[k].members # {}
    OBVIOUS
  <2>1. PICK nd \in nodes : placed[k].name = TaskOf(nd.name)
    BY <1>1 DEF Placing, TasksInUse
  <2>2. nd.name \in Members(placed[k].name)
    BY <2>1 DEF Members
  <2> QED
    BY <1>1, <2>2 DEF Placing
<1>5. \A j, k \in DOMAIN placed : j < k => placed[j].priority >= placed[k].priority
  BY DEF IInv
<1> QED
  BY <1>3, <1>4, <1>5 DEF TableIsApplicable, Range

\* For every file and every system: a node belongs to exactly one task, that of the
\* rule naming it, else of the scope holding it, else the default task.
THEOREM RulesAreFollowed == Spec => []BindingFollowsRules
BY Invariance, DoneBinding, PTL

\* There is no table exactly when the rules or the definitions are at fault.
THEOREM RefusalsAreJustified == Spec => []RefusalIsJustified
BY Invariance, DoneRefusal, PTL

\* A table passes the check made before it is applied.
THEOREM TablesAreApplicable == Spec => []TableIsApplicable
BY Invariance, DoneApplicable, PTL
=============================================================================
