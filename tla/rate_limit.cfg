SPECIFICATION FairSpec
CONSTANTS
  Keys = {k1, k2}
  Requests = {r1, r2, r3, r4}
  MaxRequests = 2
  None = None
  MayFail = TRUE
INVARIANTS
  TypeOK
  WindowLimit
  ExpiryComing
PROPERTIES
  WindowsEnd
