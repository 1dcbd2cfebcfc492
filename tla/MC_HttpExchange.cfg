SPECIFICATION FairSpec
CONSTANTS
  Clients = {c1}
  MaxPosts = 2
  Bodies <- MCBodies
  MaxReplies = 2
INVARIANTS
  TypeOK
  WholeBody
  OwnReply
PROPERTIES
  SendsEnd
CHECK_DEADLOCK FALSE
