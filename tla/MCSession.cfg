SPECIFICATION Spec
CONSTANTS
  h1 = h1
  h2 = h2
  h3 = h3
  Unset = Unset
  None = None
  CommandLines <- MCCommandLines
  Arguments <- MCArguments
  ProcessEnvironments <- MCProcessEnvironments
  Contexts <- MCContexts
  SetvarLines <- MCSetvarLines
  Connects <- MCConnects
  Environments <- MCEnvironments
  Handles <- MCHandles
  Labels <- MCLabels
  ServerNames <- MCServerNames
  Overrides <- MCOverrides
  Exclusions <- MCExclusions
  IPs <- MCIPs
  Routes <- MCRoutes
  DatabaseNames <- MCDatabaseNames
  OSUsers <- MCOSUsers
  Backups <- MCBackups
CONSTRAINT YFirst
INVARIANTS
  ArgumentsMeant SourcesInOrder PairsTogether
  DefaultsPresent ValueAsWritten SettingsOfConnection
  WritersOpen
  ProxyKept InitialDialAtServer RedirectsFollowed
  AdministratorRemains
PROPERTY RestrictionsKept
CHECK_DEADLOCK FALSE
