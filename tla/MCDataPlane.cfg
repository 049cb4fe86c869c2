CONSTANTS
  CertKeys = {1, 2, 3, 4}
  ProviderFamily <- MCProviderFamily
  Domains = {d1}
  MaxEntries = 2
  MaxEntriesPerProvider = 1
  MaxNow = 2
  TTLs = {0, 2}
  SessionIds = {1, 2, 3}
  Providers = {p1, p2}
  Hosts = {h1}
  MaxSessions = 2
  MaxSeen = 2
  Tags = {t1, t2}
  MaxPacketSize = 2
  OutLen = 2
  MaxQueued = 2
  MaxRefs = 2
  Sessions = {1, 2, 3}
  SessionLimits = {0, 2}
  IdleTtls = {0}
  PayloadLimits = {1}
  PayloadLens = {1, 2}
  MaxClock = 2
  MaxSeq = 1
  U64Max = 1000
SYMMETRY MCSymmetry
SPECIFICATION DataSpec
INVARIANTS
  InsertLeavesBounded
  OneProviderPerSession
  TypeOK
  SessionCap
  RepliesHonest
PROPERTIES
  RebindOnlyAfterEviction
  SendBatchFaithful
  NoNeedlessEviction
  SweepsLeaveNoIdleSession
  SessionsInOrder
CHECK_DEADLOCK FALSE
