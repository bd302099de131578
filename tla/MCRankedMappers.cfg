\* The registry and the simple mappers.
SPECIFICATION Spec
CONSTANTS
  NoBand = NoBand
  NoSlice = NoSlice
  NoPeriod = NoPeriod
  NoRate = NoRate
  NoDeadline = NoDeadline
  DefaultTask = DefaultTask
  TicksPerSecond = 60
  Inputs <- MCInputs
  Platforms <- MCPlatforms
INVARIANTS
  EqualFactsShareOneTask
  PassesItsOwnValidation
  BandIsSpentOnFacts
  TiesAreMitigated
