SPECIFICATION Spec
CONSTANTS
  RowCodes = {5}
  Severities = {10, 16}
  ErrNumbers = {50000}
  Levels = {0, 10, 16}
  Plans = {"off", "actual", "estimated"}
INVARIANTS
  TypeOK
  ExitReported
  PlanModeEnds
PROPERTY
  KeepsContract
