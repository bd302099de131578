\* The whole mapper, from declared chains to tasks.
SPECIFICATION Spec
CONSTANTS
  NoChain = NoChain
  NoTie = NoTie
  NoBand = NoBand
  NoSlice = NoSlice
  NoPeriod = NoPeriod
  NoExec = NoExec
  DefaultTask = 99
  Inputs <- MCInputs
  Platforms <- MCPlatforms
INVARIANT ChainTiesAreReported
