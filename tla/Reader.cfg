SPECIFICATION FairSpec
CONSTANTS
  Pairs <- MCPairs
  Later <- MCLater
  Texts <- MCTexts
  buffer_size = 3
  max_size = 100
  MaxRecv = 2
CHECK_DEADLOCK FALSE
INVARIANTS OneReplyPerCall OutcomesRight
PROPERTY CallEnds
