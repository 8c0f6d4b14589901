SPECIFICATION Spec
CONSTANTS
  ClientId <- MCClientId
  Credentials <- MCCredentials
  Topics <- MCTopics
  Texts <- MCTexts
  Publications <- MCPublications
  Segments <- MCSegments
  TxSize = 400
  RxSize = 400
  TopicSize = 100
  PayloadSize = 200
  LenWidth = 256
INVARIANTS
  TypeOK
  SentIsAsked
  HeardIsPublished
CHECK_DEADLOCK FALSE
