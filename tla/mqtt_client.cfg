SPECIFICATION FairSpec
CONSTANTS
  Requests <- MCAll
  MaxSegment = 1
INVARIANTS
  TypeOK
  OneOutstanding
  AwaitedIsWatched
  KeepAliveGoes
  OnlineIsAccepted
  UnknownIsClosed
PROPERTIES
  SilenceIsNoticed
