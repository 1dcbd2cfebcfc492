SPECIFICATION Spec
CONSTANTS
  Threads = {t1, t2}
  None = None
  MaxSends = 2
  MaxMessages = 2
  MaxDepth = 4
INVARIANTS
  TypeOK
  HandlesFreed
PROPERTIES
  KeepsContract
