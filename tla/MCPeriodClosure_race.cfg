SPECIFICATION Spec
CONSTANTS
  r1 = r1
  r2 = r2
  r3 = r3
  ann = ann
  i1 = i1
  i2 = i2
  i3 = i3
  u = u
  v = v
  None = None
  Req <- MCReq
  Staff = {ann}
  OldRows = {i1, i2, i3}
  Months <- MCMonths
  Days <- MCDays
  Values = {u, v}
  Bodies <- MCBodies
  Databases <- MCDatabases
  Loads <- RaceLoads
PROPERTY ClosedMonthsFrozen
