SPECIFICATION Spec
CONSTANTS
  Jobs = {j1}
  Workers = {w1, w2}
  Requests = {r1, r2, r3}
  Payloads <- NeverOrTwice
  AttemptLimits = {1, 2}
  None = None
  FaultKinds = {"crash", "error", "abort", "resend", "lost"}
  MaxFaults = 1
  SlowHolders = TRUE
SYMMETRY Symmetry
INVARIANTS
  WorkConserved
  EscalationConserved
  RowsTruthful
  WithinLimit
  AttemptOwnership
  OwnAttempt
PROPERTIES
  AttemptFinal
  ImplementsLifecycle
