CONSTANTS
  c1 = c1
  a1 = a1
  None = None
  Conns = {c1}
  Apps = {a1}
  Fds <- TwoFds
  MaxListens = 2
  MaxSends = 1
  Kinds = {"json", "stream"}
  HandlerSends = {0, 1}
  HandlerCloses = TRUE
  Rebinds = FALSE
  Stalls = TRUE
  CloseWakesAccept = TRUE
  AcceptErrorCloses = FALSE
SPECIFICATION FairSpec
PROPERTIES
  RequestsFinish
  CloseReturns
CHECK_DEADLOCK FALSE
