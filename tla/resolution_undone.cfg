SPECIFICATION Spec
CONSTANTS
  Alerts = {a1}
  Commands = {c1, c2, c3}
  None = None
  MayAbort = FALSE
SYMMETRY Symmetry
PROPERTIES
  ResolutionSticks
