SPECIFICATION Spec
CONSTANTS
  Workers = {w1, w2}
  Items <- ThreeItems
  MaxPrice = 1
  Unstorable = {3}
  PerPage = 2
  Shops <- SomeShops
  MaxRows = 3
  MaxChanges = 1
  Readers = {r1, r2}
  Menus <- SomeMenus
  Lifetime <- Lives
  MaxWork = 2
SYMMETRY Identities
CHECK_DEADLOCK FALSE
INVARIANTS
  SyncBringsUpToDate
  OneRowUnlessRaced
  
