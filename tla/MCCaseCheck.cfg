SPECIFICATION CheckSpec
CONSTANTS
  ann = ann
  bob = bob
  nobody = nobody
  memo = memo
  call = call
  admits = admits
  denies = denies
  ghost = "ghost"
  None = None
  Names <- MCNames
  Things = {ann, bob, nobody, memo, call}
  Admissions = {admits, denies}
  Cases <- MCCases
INVARIANTS
  CyclesAreReported
CHECK_DEADLOCK FALSE
