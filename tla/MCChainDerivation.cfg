\* The mapper's input from a model.
SPECIFICATION Spec
CONSTANTS
  NoExclusive = NoExclusive
  NoTrigger = NoTrigger
  NoLatency = NoLatency
  NoTransport = NoTransport
  NoScope = NoScope
  NoBudget = NoBudget
  NoScopePath = NoScopePath
  Requests = {}
  NoExec = NoExec
  NoValue = NoValue
  Views <- MCViews
  Costs <- MCCosts
INVARIANTS
  ReportIsComplete
  ChainFollowsRoute
  MostCriticalMemberDecides
  ConcurrencyIsClaimed
