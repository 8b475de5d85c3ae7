SPECIFICATION Spec
CONSTANTS
  RowCodes = {0}
  Severities = {16}
  ErrNumbers = {16}
  MaxDepth = 3
  MaxGo = 2
  MaxFiles = 1
  Starts <- MCStarts
INVARIANTS
  TypeOK
  NestingRestores
  SeparatorCounted
  NoSilentReplay
  ReadOnlyHolds
  
  ErrorLevelSet
PROPERTY
  NonzeroExitKept
