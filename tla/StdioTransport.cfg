SPECIFICATION Spec
CONSTANTS
  Apps = {a1, a2}
  Readers = {r1, r2}
  MaxLines = 3
  MaxSends = 2
INVARIANTS
  TypeOK
  InOrder
  HandlerAlone
  OneLateMessage
PROPERTIES
  KeepsContract
CHECK_DEADLOCK FALSE
