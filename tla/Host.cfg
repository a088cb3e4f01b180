SPECIFICATION FairAllSpec
CONSTANTS
  c1 = c1
  c2 = c2
  NoMutex = NoMutex
  Free = Free
  Clients <- TwoThreads
  CONNECTNUM = 3
  MAXIP = 3
  IniLines = {2, 4}
  Up = {0, 1}
  Flaky = {}
  SocketFails = FALSE
  MaxDials = 2
  TREADNUM = 2
  Last = c2
  MAXSTOCK = 2
  RowCounts = {0, 1, 2, 3}
  Trading = {1, 2}
  HourLen = 2
  MaxMin = 2
  MaxMisses = 1
  Cuts = TRUE
  RedisFails = TRUE
CHECK_DEADLOCK FALSE
INVARIANTS RoundFresh IdleTriggerServed NoCallBeforeInit FaultCauses
PROPERTIES DroppedThreadIsSilent RoundEnds
