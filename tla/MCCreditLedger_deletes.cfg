SPECIFICATION Spec
CONSTANTS
  r1 = r1
  r2 = r2
  e1 = e1
  e2 = e2
  c1 = c1
  c2 = c2
  w1 = w1
  day = day
  shift3 = shift3
  k1 = k1
  k2 = k2
  k3 = k3
  before = before
  none = none
  None = none
  Req <- MCReq
  OldEntries <- MCOldEntries
  Before = before
  OldKeys = {k1, k2, k3}
  OldCustomers = {c1, c2}
  Workers = {w1}
  Scopes <- MCScopes
  NewScopes = {day}
  MaxLines = 3
  Forms <- MCForms
  Databases <- MCDatabases
  Loads <- MCDeletes
  Unit = 4
  Stale = {}
  Removable = {}
  Avoid = {"attach", "customer", "forms"}
PROPERTIES
  CheckpointsFollowEntries
CHECK_DEADLOCK FALSE
