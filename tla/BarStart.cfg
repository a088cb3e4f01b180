SPECIFICATION Spec
CONSTANTS
  Histories <- MCHistories
  Categories = {0, 4}
  Starts = {0, 1}
  Counts = {1}
  Zqdm <- MCZqdm
CHECK_DEADLOCK FALSE
INVARIANT StartHonoured
