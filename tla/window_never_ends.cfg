SPECIFICATION FairSpec
CONSTANTS
  Keys = {k1}
  Requests = {r1, r2, r3, r4}
  MaxRequests = 2
  None = None
  MayFail = TRUE
PROPERTIES
  EveryWindowEnds
