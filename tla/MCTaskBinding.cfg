\* Binding rules and placements.
SPECIFICATION Spec
CONSTANTS
  a = a
  b = b
  x = x
  y = y
  z = z
  NoScope = NoScope
  NoSpec = NoSpec
  DefaultTask = 9
  RuleLists <- MCRuleLists
  NodeSets <- MCNodeSets
  TaskTables <- MCTaskTables
  Targets <- MCTargets
INVARIANTS
  BindingFollowsRules
  RefusalIsJustified
  TableIsApplicable
