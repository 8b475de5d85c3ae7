SPECIFICATION Spec
CONSTANTS
  RowCodes = {0}
  Severities = {16}
  ErrNumbers = {16}
  MaxDepth = 2
  MaxGo = 2
  MaxFiles = 2
  Starts <- MCStarts
INVARIANT ErrorLevelAlwaysSet
