SPECIFICATION Spec
CONSTANTS
  Detectives = {1, 2}
  Suspects = {s1, s2}
  Evidence = {e1}
  Questions = {q1}
  Requests = {r1, r2}
  Askers = {h1, h2}
  Editors = {c1}
  NoSuspect = NoSuspect
  NoRequest = NoRequest
  MaxRevision = 5
  MaxAttempts = 2
SYMMETRY Symmetry
INVARIANTS
  OneTurnAtATime
  LeasePinsRow
  AnsweredOnce
  CompletedIsPublished
  RepliesArePublished
PROPERTIES
  EvidenceKept
  OnlyTheHolderActs
  ImplementsLedger
CHECK_DEADLOCK FALSE
