SPECIFICATION FairSpec
CONSTANTS
  Calls <- MCCalls
  MaxLen = 3
  SizeMax = 7
INVARIANTS
  TypeOK
  HeardInOrder
  WholeUnlessRefused
PROPERTIES
  CallsReturn
