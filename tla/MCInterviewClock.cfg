SPECIFICATION Spec
CONSTANTS
  Suspects = {s1, s2}
  Detectives = {1, 2, 3}
  NoSuspect = NoSuspect
  Budget = 3
  Share = 2
  Lease = 2
  Extra = 2
  MaxTime = 8
  MaxClock = 5
SYMMETRY Symmetry
INVARIANTS
  AnchorIsLease
PROPERTIES
  ImplementsCountdown
CHECK_DEADLOCK FALSE
