SPECIFICATION Spec
CONSTANTS
  Bytes <- MCBytes
  Foreign = 0
  BufferLength = 3
  MaxLength = 4
  PeekLengths <- MCPeek
PROPERTIES
  ImplementsByteQueue
