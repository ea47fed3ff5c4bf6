CONSTANTS
  p1 = p1
  p2 = p2
  a1 = a1
  a2 = a2
  a3 = a3
  a4 = a4
  None = None
  Word = Word
  Slash = Slash
  NoScore = NoScore
  Processes <- TwoProcesses
  Users <- FiveUsers
  SubOf <- RecordOf
  Order <- ByName
  PerPage = 2
  Attachments <- FourAttachments
  Attached <- HandedIn
  Labels <- CanvasNames
  FallbackName <- Numbered
  Names <- Files
  PointsSuffixed <- Suffixed
  OtherText <- Texts
  UserDirs <- UserDir
  PointsFilesToRead <- ShortFiles
  Shared = FALSE
SPECIFICATION SteadyOrChanging
CHECK_DEADLOCK FALSE
INVARIANT NotRefusedForExisting
