CONSTANTS
  r1 = r1
  r2 = r2
  Runs <- TwoRuns
  Faults = {"start", "remove", "crash"}
SPECIFICATION FairSpec
CHECK_DEADLOCK FALSE
INVARIANTS
  TypeOK
  VerdictIsTheGraders
  NoContainerLeft
PROPERTY ExecuteEnds
