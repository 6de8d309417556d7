SPECIFICATION Spec
CONSTANTS
  Hooks = {h1, h2}
  Lifetime = 8
  Margin = 4
  MinWait = 2
  Slack = 1
INVARIANTS
  NeverExpires
PROPERTIES
  TokenHeals
CHECK_DEADLOCK FALSE
