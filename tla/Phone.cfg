SPECIFICATION InventorySpec
CONSTANTS
  None = None
  Meters = {}
  Sims = {s1}
  NewSims = {}
  Users = {u1, u2}
  SimRequests = {j1, j2, w1}
  Me = u1
  Jobs = {j1, j2}
  MaxItems = 1
INVARIANTS
  PhoneTypeOK
  StockHasOwner
PROPERTY ListCatchesUp
