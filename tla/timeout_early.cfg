SPECIFICATION Spec
CONSTANTS
  A = A
  B = B
  C = C
  Dummy = Dummy
  Boot = Boot
  NoTimer = NoTimer
  Timers <- MCTimers2
  Timeouts <- MCTimeouts
  MaxCount = 15
  AbsMod = 1024
  MaxCalls = 3
PROPERTIES
  NeverEarly
