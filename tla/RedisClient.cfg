SPECIFICATION FairSpec
CONSTANTS
  Socks = {1, 2}
  Home <- MCHome
  Loads <- MCLoads
CHECK_DEADLOCK FALSE
INVARIANTS TellsTruth InStep OwnReplies GatherRight RecordedDatabase
PROPERTY CallReturns
