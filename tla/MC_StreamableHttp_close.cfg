CONSTANTS
  c1 = c1
  a1 = a1
  a2 = a2
  None = None
  Conns = {c1}
  Apps = {a1, a2}
  Fds <- TwoFds
  MaxListens = 2
  MaxSends = 0
  Kinds = {"reject", "json", "stream"}
  HandlerSends = {0, 2}
  HandlerCloses = TRUE
  Rebinds = TRUE
  Stalls = FALSE
  CloseWakesAccept = FALSE
  AcceptErrorCloses = FALSE
SPECIFICATION Spec
INVARIANTS
  LoopsOwned
  CloseReleasesListener
PROPERTIES
  AcceptOnlyWhileOpen
  KeepsContract
SYMMETRY Symmetry
CHECK_DEADLOCK FALSE
