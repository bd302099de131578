\* Files of the requirement language from their text to a value or a verdict.
SPECIFICATION Spec
CONSTANTS
  UnitNames <- MCUnitNames
  Grid <- MCGrid
  KeyGrid <- MCKeyGrid
  RowGrid <- MCRowGrid
  Junk <- MCJunk
  Files <- MCFiles
  File <- MCFile
  Contracts <- MCContracts
INVARIANTS
  AcceptedFilesEvaluate
  VerdictsHold
