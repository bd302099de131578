\* A route that would have to cross a timer.
SPECIFICATION RouteSpec
CONSTANTS
  NoExclusive = NoExclusive
  NoTrigger = NoTrigger
  NoLatency = NoLatency
  NoTransport = NoTransport
  NoScope = NoScope
  Requests <- MCRequests
INVARIANT
  TimersAreCrossed
