CONSTANTS
  p1 = p1
  p2 = p2
  a1 = a1
  a2 = a2
  a3 = a3
  a4 = a4
  None = None
  Word = Word
  Slash = Slash
  NoScore = NoScore
  Processes <- OneProcess
  Users <- ThreeUsers
  SubOf <- RecordOf
  Order <- ByName
  PerPage = 2
  Attachments <- NoFile
  Attached <- Nothing
  Labels <- NoNames
  FallbackName <- NoNames
  Names <- ResultFiles
  PointsSuffixed <- NoFile
  OtherText <- Comments
  UserDirs <- NoFile
  PointsFilesToRead <- OneFile
  Shared = FALSE
SPECIFICATION ReadOrRunSpec
CHECK_DEADLOCK FALSE
INVARIANT AllProcessed
