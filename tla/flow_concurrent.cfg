CONSTANTS
  r1 = r1
  r2 = r2
  None = None
  Runs <- TwoRuns
  Contents <- FlowContents
  Grades <- FlowGrades
  Rendered <- FlowGrades
  Inputs <- NoInputs
  MaxAttempt = 2
  RunConfigs <- Defaults
SPECIFICATION FlowSpec
SYMMETRY RunSymmetry
INVARIANT FlowTypeOK
PROPERTY GradesMoveForward
