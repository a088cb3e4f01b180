SPECIFICATION Spec
CONSTANTS
  c1 = c1
  c2 = c2
  c3 = c3
  Clients <- ThreeClients
  CONNECTNUM = 4
  MAXIP = 4
  IniLines = {0, 1, 2, 3, 4, 5}
  Up = {2}
  Flaky = {0, 1}
  SocketFails = TRUE
  NoMutex = NoMutex
  Free = Free
  MaxDials = 3
SYMMETRY Symmetry
CHECK_DEADLOCK FALSE
INVARIANTS HeldIffEstablished EvenRotation
PROPERTIES ExhaustionIsFinal ImplementsLease
