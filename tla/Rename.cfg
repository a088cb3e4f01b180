SPECIFICATION Spec
CONSTANTS
  Keys = {1, 2, 3}
  Home <- MCHome
  Elements = {"a", "b", "foreign", "missing_value"}
  Contents <- MCContents
  MaxWrites = 3
INVARIANT NeverLost
PROPERTIES Moved RefusedIntact NxReplacesOnlyRaced
