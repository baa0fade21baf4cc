SPECIFICATION AloneSpec
CONSTANTS
  Items = {i1, i2, i3}
  Idempotent = {i1}
  Syncs = {s1}
  MaxItems = 2
INVARIANTS
  OutboxTypeOK
  NothingLost
PROPERTIES
  InOrder
  EventuallyAnswered
