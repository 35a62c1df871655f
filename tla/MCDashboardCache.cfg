SPECIFICATION Spec
CONSTANTS
  r1 = r1
  r2 = r2
  r3 = r3
  r4 = r4
  e1 = e1
  x1 = x1
  c1 = c1
  none = none
  Req <- MCReq
  OldRows <- MCOldRows
  LastMonth = 2
  DaysPerMonth = 2
  Amounts <- MCAmounts
  None = none
  Bodies <- MCBodies
  Databases <- MCDatabases
  Loads <- MCLoads
INVARIANTS
  TypeOK
  CleanFiguresAreRight
