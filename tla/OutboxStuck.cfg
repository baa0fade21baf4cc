SPECIFICATION FairApartSpec
CONSTANTS
  Items = {i1}
  Idempotent = {i1}
  Syncs = {s1}
  MaxItems = 2
PROPERTY EventuallyAnswered
