SPECIFICATION Spec
CONSTANTS
  a = a
  b = b
  keepsake = keepsake
  NoSuspect = NoSuspect
  Nothing = Nothing
  Suspects = {a, b}
  Evidence = {1, 2, 3, 4, 5}
  Chapters <- MCChapters
  Requires <- MCRequires
  ReportOn <- MCReportOn
  Arriving = {1, 2, 3}
  Conditions = {keepsake}
  Speaker <- MCSpeaker
  Gives <- MCGives
  Threshold <- MCThreshold
  Taps = {t1}
  LastFile = 8
  MaxVisits = 3
  MaxPressure = 2
INVARIANTS
  DiscoveryOrder
  CanGoOn
  BriefingInOrder
PROPERTIES
  ReportsWait
  RecallDelivers
  ReturnResumes
CHECK_DEADLOCK FALSE
