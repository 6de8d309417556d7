SPECIFICATION Spec
CONSTANTS
  Browsers = {b1, b2}
  Devices = {d1, d2, d3, d4}
  NoDevice = NoDevice
  Nobody = Nobody
  Controls = {c1}
  Capacity = 2
  Retention = 1
  MaxTime = 3
  MaxRevision = 3
SYMMETRY Symmetry
INVARIANTS
  RosterAgrees
  Playable
  ToldSeatHolds
  WayBack
PROPERTIES
  RosterClosed
  CookieIsKept
CHECK_DEADLOCK FALSE
