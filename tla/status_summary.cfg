SPECIFICATION Spec
CONSTANTS
  Jobs = {j1}
  Alerts = {a1, a2}
  Incidents = {i1}
INVARIANTS
  TypeOK
  CountsWithin
SYMMETRY Symmetry
