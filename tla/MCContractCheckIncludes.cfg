\* Includes whose condition refers to an argument.
SPECIFICATION Spec
CONSTANTS
  NameOrder <- MCNameOrder
  Bare <- MCBare
  Contracts <- MCIncluded
  Contract <- MCContract
INVARIANTS
  ConditionalIncludesFollowArgs
