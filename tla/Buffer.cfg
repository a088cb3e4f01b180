SPECIFICATION BufferSpec
CONSTANTS
  Bytes = {0, 1}
  Garbage <- MCGarbage
  Chunks <- MCChunks
  MaxLen = 4
  MaxPos = 5
CHECK_DEADLOCK FALSE
INVARIANTS AppendsAtEnd NoForeignBytes
PROPERTY ImplementsLog
