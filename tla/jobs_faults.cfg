SPECIFICATION FairSpec
CONSTANTS
  Jobs = {j1}
  Workers = {w1, w2}
  Requests = {r1, r2}
  Payloads <- FlakyOnly
  AttemptLimits = {1, 2}
  None = None
  FaultKinds = {"crash", "error", "abort", "detach", "lost"}
  MaxFaults = 1
  SlowHolders = FALSE
INVARIANTS
  TypeOK
  MutualExclusion
  HolderKeepsLock
  ExecutionAudited
  EventsFollowCommits
  OutcomesOnRecord
PROPERTIES
  LockFreed
  WorkDecided
