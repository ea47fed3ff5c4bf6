CONSTANTS
  r1 = r1
  r2 = r2
  zipA = zipA
  zipB = zipB
  None = None
  Runs <- TwoRuns
  Contents <- TwoFiles
  Grades <- TwoGrades
  Rendered <- SameText
  Inputs <- AllKinds
SPECIFICATION Spec
SYMMETRY RunSymmetry
INVARIANTS
  TypeOK
  FeedbackDelivered
  GradeReportHonest
  AtMostOneCopy
PROPERTY WritesAllowed
