CONSTANTS
  q1 = q1
  q2 = q2
  kNew = kNew
  kEc = kEc
  None = None
  NoRecord = NoRecord
  Requests <- TwoRequests
  Keys <- TwoKeys
  Rsa <- RsaKeys
  Setups <- SomeSetups
  Posts <- SomePosts
  Contexts <- CourseContexts
  Lifespan = 1
  CourseId = 3
  Shard = 10
  Users <- FourUsers
  SubOf <- RecordOf
  Order <- ByName
  PerPage = 2
  Asked <- AskedIds
SPECIFICATION Spec
SYMMETRY RequestSymmetry
INVARIANTS
  AuthTypeOK
  UnsignedNeedsFallback
  LookupTypeOK
  FoundIsAsked
  MissingIsGone
PROPERTIES
  GenuineGetsThrough
  KeysExpire
