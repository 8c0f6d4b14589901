SPECIFICATION ServiceSpec
CONSTANTS
  Requests <- MCSubscribe
  MaxSegment = 1
PROPERTIES
  RetryWithoutAp
