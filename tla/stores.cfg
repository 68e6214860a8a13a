SPECIFICATION Spec
CONSTANTS
  a1 = a1
  a2 = a2
  n1 = n1
  n2 = n2
  f1 = f1
  f2 = f2
  m1 = m1
  m2 = m2
  x1 = x1
  x2 = x2
  t1 = t1
  t2 = t2
  r1 = r1
  r2 = r2
  h1 = h1
  h2 = h2
  u1 = u1
  b1 = b1
  b2 = b2
  k1 = k1
  k2 = k2
  Agent <- MCAgent
  Stem <- MCStem
  Fact <- MCFact
  NoStem = NoStem
  Missing = Missing
  Torn = Torn
  Found <- MCFound
  MaxDay = 1
  MaxWrites = 3
  Message <- MCMessage
  Hash <- MCHash
  Other = Other
  MaxAppends = 3
  Title <- MCTitle
  Ref <- MCRef
  NoRef = NoRef
  MaxBlocks = 2
  MaxClears = 2
  Host <- MCHost
  User <- MCUser
  Configs <- MCConfigs
  Disabled = Disabled
  NoSecret = NoSecret
  MaxSecrets = 3
  MaxNow = 3
  MaxTokens = 3
  SessionTtl = 1
  AttachTtl = 3
  MaxPrs = 5
  BranchOf <- MCBranchOf
  Forked = {4}
  PerPage = 2
  MaxPages = 2
  Kid <- MCKid
  Roles = {"developer"}
  RequiredRole = {"developer"}
  CacheTtl = 2
  Leeway = 1
  MaxClock = 3
CHECK_DEADLOCK FALSE
INVARIANTS
  KnowledgeAsMeant
  LedgerTells
  LoginsLastAsGiven
  ReadsAreTrue
  KeysFollowProvider
PROPERTIES
  BlocksAreReached
