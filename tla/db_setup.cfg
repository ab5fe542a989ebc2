SPECIFICATION FairSpec
CONSTANTS
  Runs = {r1, r2}
  MaxRetries = 2
  MaxOutages = 2
  MaxKills = 1
  None = None
INVARIANTS
  TypeOK
  NothingDangles
  FailuresExplained
  SeededOnce
  BaselineThere
PROPERTIES
  ScriptsEnd
CHECK_DEADLOCK FALSE
