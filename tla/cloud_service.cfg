SPECIFICATION FairServiceSpec
CONSTANTS
  Requests <- MCSubscribe
  MaxSegment = 1
INVARIANTS
  Supervised
  OneWatchdog
PROPERTIES
  ImplementsMqttClient
  WatchdogBites
