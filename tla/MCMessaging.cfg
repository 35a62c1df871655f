SPECIFICATION Spec
CHECK_DEADLOCK FALSE
CONSTANTS
  r1 = r1
  r2 = r2
  r3 = r3
  c1 = c1
  c2 = c2
  c3 = c3
  tel1 = tel1
  tel2 = tel2
  none = none
  Req <- MCReq
  OldCustomers <- MCOldCustomers
  Phones <- MCPhones
  None = none
  MaxSelected = 2
  MaxReports = 2
  KnownIds <- MCKnownIds
  Reported = {"delivered", "read", "deleted"}
  Providers = {"dev", "meta", "unconfigured"}
  Asks <- MCAsks
  Databases <- MCDatabases
  Loads <- MCLoads
INVARIANTS
  TypeOK
  OneOutcomeEach
  RowsMatchMessages
  StatusesArePosted
  ReportsAreShown
  AuditLogIsTrue
PROPERTIES
  HistoryOutlivesRecipients
