SPECIFICATION InstallSpec
CONSTANTS
  None = None
  Meters = {m1}
  Sims = {s1}
  NewSims = {}
  Users = {u1}
  InstallRequests = {r1, r2}
  InstallIds = {i1}
  Keys = {k1}
  MaxRecords = 2
  SimRequests = {}
SYMMETRY InstallSymmetry
INVARIANTS
  InstallTypeOK
  RecordNumbersUnique
  OneRecordPerKey
\* ids, keys and record numbers may be used up
CHECK_DEADLOCK FALSE
