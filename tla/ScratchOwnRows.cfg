CONSTANTS
  q1 = q1
  q2 = q2
  q3 = q3
  a = a
  b = b
  x = x
  y = y
  r1 = r1
  r2 = r2
  r3 = r3
  r4 = r4
  r5 = r5
  Queries <- Three
  Catalogs = {a, b}
  Versions = {1, 2, 3}
  Snapshots = {1, 2, 3}
  Rows = {r1, r2, r3, r4, r5}
  CatalogOf <- TwoCatalogs
  ScratchDir <- TwoDirs
  Live <- TwoTables
  TemporalColumns <- Temporal
  MaxInlineRows = 3
  MaxInlineValues = 7
  MaxInlineSchemas = 2
SPECIFICATION Spec
INVARIANTS OwnRows BudgetExact
CHECK_DEADLOCK FALSE
