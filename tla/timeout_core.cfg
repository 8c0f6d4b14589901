SPECIFICATION FairSpec
CONSTANTS
  A = A
  B = B
  C = C
  Dummy = Dummy
  Boot = Boot
  NoTimer = NoTimer
  Timers <- MCTimers2
  Timeouts <- MCTimeouts
  MaxCount = 3
  AbsMod = 14
  MaxCalls = 3
INVARIANTS
  TypeOK
  OneHome
  SortedUntilRebase
  LoadedForHead
  ListIsServed
PROPERTIES
  ImplementsTimerService
  EveryTimerIsServed
