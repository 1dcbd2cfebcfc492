SPECIFICATION Spec
CONSTANTS
  Apps = {a}
  Workers = {w1, w2}
  Transports = {x, y}
  None = None
  Observed = TRUE
  Reentrant = {"notify"}
  DirectCloses = {"installed"}
  MaxDepth = 3
INVARIANTS
  TypeOK
  RunningIsActive
PROPERTIES
  StopCloses
SYMMETRY Symmetry
