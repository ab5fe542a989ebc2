SPECIFICATION Spec
CONSTANTS
  Alerts = {a1}
  Commands = {c1, c2, c3, c4}
  None = None
  MayAbort = TRUE
SYMMETRY Symmetry
INVARIANTS
  TypeOK
  EscalationComplete
  AlertFollowsIncident
  NamedOperatorsOnRecord
  BroadcastsAudited
  AlertInStep
PROPERTIES
  ImplementsIncidentLifecycle
