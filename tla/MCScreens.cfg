SPECIFICATION ScreensSpec
CONSTANTS
  Screens = {tv}
  Calls = {c1, c2}
  Suspects = {s1, s2}
  MaxChanges = 3
INVARIANTS
  CaseIsCovered
PROPERTIES
  MovesForward
  ActionsShow
  Settles
CHECK_DEADLOCK FALSE
