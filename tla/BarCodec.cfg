SPECIFICATION Spec
CONSTANTS
  Histories <- MCHistories
  Categories = {0,2,4,8}
  Starts = {0, 1}
  Counts = {1,2,3}
  Zqdm <- MCZqdm
CHECK_DEADLOCK FALSE
INVARIANTS RowsAsked CompleteAnswer StaysInside
