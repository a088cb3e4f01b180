SPECIFICATION Spec
CONSTANTS
  HeadLen = 2
  Sizes = {1, 3}
  GarbageSizes = {0, 2, 5}
  MaxReq = 3
  CallerClears = TRUE
CHECK_DEADLOCK FALSE
INVARIANTS ResultMatchesRequest
