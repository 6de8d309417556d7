SPECIFICATION Spec
CONSTANTS
  Evidence = {1, 2, 3}
  Requires <- MCRequires
  ReportOn <- MCReportOn
  Arriving = {1, 2}
  Related = {1, 2, 3}
  Suspect = Suspect
  NoSuspect = NoSuspect
  confession = confession
  memo = memo
  Conditions = {confession, memo}
  Tier <- MCTier
  Gate <- MCGate
  Gives <- MCGives
  Threshold <- MCThreshold
  Layers <- MCLayers
  Alibis <- MCAlibis
  Nothing = Nothing
  MaxPressure = 2
INVARIANTS HeardIsAdmitted
PROPERTIES AccountsMoveOn QuestionsAreAnswered AnswersOfTheStory
CHECK_DEADLOCK FALSE
