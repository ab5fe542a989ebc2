SPECIFICATION Spec
CONSTANTS
  Jobs = {j1}
  Workers = {w1, w2}
  Requests = {r1, r2}
  Payloads <- FlakyOnly
  AttemptLimits = {1, 2}
  None = None
  FaultKinds = {}
  MaxFaults = 0
  SlowHolders = FALSE
SYMMETRY Symmetry
INVARIANTS
  NoStrandedJob
