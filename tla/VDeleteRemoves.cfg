SPECIFICATION Spec
CONSTANTS
  p1 = p1
  p2 = p2
  c1 = c1
  c2 = c2
  c3 = c3
  NoName = NoName
  NoContainer = NoContainer
  Torn = Torn
  Procs = {p1}
  Ids = {c1}
  Bases <- MCBases
  Asked <- MCAsked
  OsUser <- MCOsUser
  MaxPostfix = 5
  MaxCommands = 3
INVARIANTS
  DeleteRemoves
CHECK_DEADLOCK FALSE
