SPECIFICATION FairCampaignSpec
CONSTANTS
  c1 = c1  t1 = t1  t2 = t2  t3 = t3  v1 = v1  v2 = v2
  w1 = w1  w2 = w2  p1 = p1  p2 = p2
  Nobody = Nobody
  Campaigns = {c1}
  Tokens = {t1, t2, t3}
  WellFormed = {t1, t2}
  People = {v1}
  Audiences = {{}, {v1}}
  Shared = {}
  Switched = {"push"}
  Senders = {w1, w2}
  Polls = {p1}
  ChunkSize = 1
  PollMax = 1
PROPERTIES
  SendingEnds
  ReceiptsArrive
\* every campaign may be sent
CHECK_DEADLOCK FALSE
