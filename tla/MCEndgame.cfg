SPECIFICATION Spec
CONSTANTS
  s1 = s1
  s2 = s2
  Detectives = {d1, d2}
  Suspects = {s1, s2}
  Triggers <- MCTriggers
  Ballots = {b1}
  Hosts = {h1, h2}
  NoVote = NoVote
  MaxTries = 2
  MaxRevision = 7
SYMMETRY Symmetry
INVARIANTS
  RevealFollowsVotes
  ConflictsAreReal
PROPERTIES
  ImplementsVerdict
CHECK_DEADLOCK FALSE
