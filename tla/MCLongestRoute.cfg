\* The route of one scope path.
SPECIFICATION RouteSpec
CONSTANTS
  NoExclusive = NoExclusive
  NoTrigger = NoTrigger
  NoLatency = NoLatency
  NoTransport = NoTransport
  NoScope = NoScope
  Requests <- MCRequests
INVARIANTS
  FailureIsJustified
  RouteIsLongest
  RouteIsHonest
