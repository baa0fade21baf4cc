SPECIFICATION ApartCampaignSpec
CONSTANTS
  c1 = c1  t1 = t1  t2 = t2  t3 = t3  v1 = v1  v2 = v2
  w1 = w1  w2 = w2  p1 = p1  p2 = p2
  Nobody = Nobody
  Campaigns = {c1}
  Tokens = {t1, t2, t3}
  WellFormed = {t1, t2}
  People = {v1, v2}
  Audiences = {{}, {v1}}
  Shared = {t1}
  Switched = {"push"}
  Senders = {w1, w2}
  Polls = {p1, p2}
  ChunkSize = 1
  PollMax = 1
SYMMETRY CampaignSymmetry
INVARIANTS
  CampaignTypeOK
  NoFalseDelivery
  PushedOnce
  FinalStatusFits
PROPERTIES
  DeliveryMoves
  InUseUntilRefused
\* every campaign may be sent
CHECK_DEADLOCK FALSE
