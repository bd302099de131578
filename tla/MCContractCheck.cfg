\* Contracts from their text to the findings of the rules.
SPECIFICATION Spec
CONSTANTS
  NameOrder <- MCNameOrder
  Bare <- MCBare
  Contracts <- MCContracts
  Contract <- MCContract
INVARIANTS
  ConditionsDecide
  OnlyRemovedEndsGo
  SatisfiabilityForetells
  LoopsAreReported
  BudgetCoversEveryRoute
  RatesAddUp
  LooserPartsAreReported
  ReferencesReadLikeNumbers
  NothingOldIsLeft
  MigrationPreservesMeaning
