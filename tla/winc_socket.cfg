SPECIFICATION FairSpec
CONSTANTS
  TcpSocks = 2
  Sessions = 4
  MaxReplies = 1
INVARIANTS
  TypeOK
  ConnectedIsUsed
  DataIsOurs
  NoLeak
  PresentedIsCounted
PROPERTIES
  NotLockedOut
