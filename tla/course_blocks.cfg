CONSTANTS
  s1 = s1
  s2 = s2
  r1 = r1
  None = None
  Invalid = Invalid
  Missing = Missing
  Setups <- TwoSetups
  Flows <- OneFlow
  Assignments <- Numbers
  Extends <- PrefixOf
  Roots <- TwoRoots
  Files <- TwoFiles
  Given <- GivenMappings
  Contents <- OnDisk
  Anonymous = Anonymous
  Own = 2
  Documents <- Blocks
  PageSize = 2
SPECIFICATION ListingSpec
CHECK_DEADLOCK FALSE
SYMMETRY SetupSymmetry
CONSTRAINT Followed
ACTION_CONSTRAINT NotListed
INVARIANTS
  TypeOK
  CourseIsRunnable
  CorrectPackage
  ListingTypeOK
  EveryCourseListed
PROPERTIES
  NeverEmptied
  MutatedOnlyUnblocked
