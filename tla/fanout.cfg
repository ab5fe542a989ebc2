SPECIFICATION FairSpec
CONSTANTS
  Sockets = {s1, s2}
  Families = {"job", "system"}
  Names = {"jobs", "toString", "unknown"}
  MaxEvents = 2
  MaxFaults = 2
INVARIANTS
  TypeOK
  EventsKept
  ConnectedMissNothing
  InOrder
PROPERTIES
  EventsShown
