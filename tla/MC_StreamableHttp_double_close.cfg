CONSTANTS
  c1 = c1
  c2 = c2
  a1 = a1
  None = None
  Conns = {c1, c2}
  Apps = {a1}
  Fds <- ThreeFds
  MaxListens = 1
  MaxSends = 1
  Kinds = {"json"}
  HandlerSends = {1}
  HandlerCloses = FALSE
  Rebinds = FALSE
  Stalls = FALSE
  CloseWakesAccept = FALSE
  AcceptErrorCloses = FALSE
SPECIFICATION Spec
INVARIANTS
  JsonAnswered
CHECK_DEADLOCK FALSE
