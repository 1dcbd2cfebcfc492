SPECIFICATION FairSpec
CONSTANTS
  ClientSends = 1
  CallbackSends = 1
  ServerSends = 1
  Capacity = 9
INVARIANTS
  TypeOK
  RepliesInOrder
  ServerSurvives
  InitializeArrivesFirst
PROPERTIES
  TransportsKeep
  RequestsReturn
CHECK_DEADLOCK FALSE
