SPECIFICATION Spec
CONSTANTS
  Browsers = {b1, b2}
  Devices = {d1, d2, d3, d4}
  Controls = {c1}
  NoDevice = NoDevice
  Nobody = Nobody
  Capacity = 2
  Retention = 1
  MaxTime = 3
  MaxRevision = 3
SYMMETRY Symmetry
INVARIANTS
  OneSeatEach
CHECK_DEADLOCK FALSE
