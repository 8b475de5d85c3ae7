SPECIFICATION TextsSpec
CONSTANTS
  Queries <- MCQueries
  Lines <- MCLines
  Scripts <- MCScripts
  Value <- MCValue
  Defined <- MCDefined
  MaxText = 6
  Settings <- MCSettings
  Tables <- MCTables
  Rows <- MCRows
  Classes = {3, 7}
  Lengths = {10}
  MaxPad = 5
  MaxRows = 2
  Infinite = 1000
  Exports <- MCExports
INVARIANT StatementsParsed
CHECK_DEADLOCK FALSE
