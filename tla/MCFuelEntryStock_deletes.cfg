SPECIFICATION Spec
CONSTANTS
  r1 = r1
  r2 = r2
  r3 = r3
  petrolOil = petrolOil
  gearOil = gearOil
  e1 = e1
  b1 = b1
  b2 = b2
  s1 = s1
  s2 = s2
  s3 = s3
  day = day
  c1 = c1
  c2 = c2
  None = None
  Req <- MCReq
  Catalog <- MCCatalog
  OldEntries = {e1}
  OldBatches = {b1, b2}
  Slots <- MCSlots
  Pump2 <- MCPump2
  Dates = {day}
  Costs = {c1, c2}
  EntryWrites <- MCEntryWrites
  BatchWrites <- MCBatchWrites
  Databases <- MCDatabases
  Loads <- DeleteLoads
INVARIANT StockConserved
