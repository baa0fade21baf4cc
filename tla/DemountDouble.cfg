SPECIFICATION SerialDemountSpec
CONSTANTS
  m1 = m1  m2 = m2  s1 = s1  s2 = s2  s3 = s3  u1 = u1  u2 = u2
  d1 = d1  d2 = d2  d3 = d3  r1 = r1  r2 = r2
  None = None
  Meters = {m1}
  Sims = {s1}
  NewSims = {}
  Users = {u1}
  DemountIds = {d1, d2, d3}
  DemountRequests = {r1, r2}
  Outcomes <- SwapAndPause
INVARIANT AtMostOneOpenDemount
\* every task id may be used up and closed
CHECK_DEADLOCK FALSE
