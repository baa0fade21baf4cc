SPECIFICATION OverrideSpec
CONSTANTS
  m1 = m1  m2 = m2  s1 = s1  s2 = s2  s3 = s3  u1 = u1  u2 = u2
  d1 = d1  d2 = d2  i1 = i1  i2 = i2  k1 = k1  k2 = k2
  r1 = r1  r2 = r2  q1 = q1  q2 = q2  p1 = p1  p2 = p2  h1 = h1  h2 = h2  w1 = w1  w2 = w2
  None = None
  Meters = {m1, m2}
  Sims = {s1, s2}
  NewSims = {s2}
  Users = {u1}
  DemountIds = {d1}
  DemountRequests = {r1}
  InstallIds = {}
  InstallRequests = {}
  SimRequests = {}
  Keys = {}
  MaxRecords = 0
  Shipments = {h1}
  PostedStatus = {"AVAILABLE"}
  ShipmentRequests = {w1, w2}
  Deletions = {}
  Orderly = FALSE
  EditedStatus = {"ACTIVE"}
  EditedSimStatus = {"AVAILABLE", "DEACTIVATED"}
  Outcomes <- SwapAndFull
SYMMETRY FieldSymmetry
INVARIANTS
  FieldTypeOK
  OneMeterPerSim
  DemountLockHasTask
  CardsHaveShipment
\* every task id may be used up
CHECK_DEADLOCK FALSE
