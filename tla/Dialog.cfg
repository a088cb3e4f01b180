SPECIFICATION DialogSpec
CONSTANTS
  TREADNUM = 4
  TABLESIZE = 15
  SLICESIZE = 6
  RowCounts = {0, 1, 3, 4, 7, 15, 16}
  Starts <- MCStarts
  Gaps = {1, 28}
  MaxDay = 9
INVARIANTS EveryStockOnce OnlyLoadOverruns EveryMinute SessionsClosed
CHECK_DEADLOCK FALSE
