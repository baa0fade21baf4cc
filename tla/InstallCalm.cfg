SPECIFICATION CalmInstallSpec
CONSTANTS
  None = None
  Meters = {m1, m2}
  Sims = {s1, s2}
  NewSims = {}
  Users = {u1}
  InstallRequests = {r1, r2}
  InstallIds = {i1, i2}
  Keys = {}
  MaxRecords = 2
  SimRequests = {}
SYMMETRY InstallSymmetry
INVARIANTS
  InstallLockHasTask
  SimMeterAgreement
PROPERTY ImplementsInstallOrder
\* ids, keys and record numbers may be used up
CHECK_DEADLOCK FALSE
