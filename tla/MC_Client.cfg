SPECIFICATION Spec
CONSTANTS
  Apps = {a}
  Readers = {r1, r2}
  Transports = {x, y}
  None = None
  AutoInitialize = TRUE
  Reentrant = {"request"}
  Synchronous = FALSE
  Reopens = FALSE
  DirectCloses = {"installed"}
  MaxDepth = 4
  MaxSent = 1
INVARIANTS
  TypeOK
  ReadyIsOpen
  HandshakeFirst
PROPERTIES
  DisconnectCloses
SYMMETRY Symmetry
