SPECIFICATION FairSpec
CONSTANTS
  a = a
  Letters <- MCLetters
  CR = CR
  LF = LF
  RxSize = 4
  TxSize = 2
  MaxCommand = 1
  ReplyLength = 3
  MaxTyped = 5
INVARIANTS
  TypeOK
  CommandsAreLines
  OutputInOrder
PROPERTIES
  AllGoesOut
