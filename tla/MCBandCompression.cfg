\* Plans of up to five items against bands of one to four levels.
SPECIFICATION Spec
CONSTANTS
  c1 = c1
  c2 = c2
  NoChain = NoChain
  NoTie = NoTie
  MaxItems = 5
  MaxWidth = 4
  Items <- MCItems
  Plans <- MCPlans
  Bands <- MCBands
INVARIANTS
  TypeOK
  NoInversion
  TiesAreExplained
  NoNeedlessTie
PROPERTIES
  ImplementsOrder
  Terminates
