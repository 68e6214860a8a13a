SPECIFICATION Spec
CONSTANTS
  s1 = s1
  s2 = s2
  good = good
  lost = lost
  web = web
  hostA = hostA
  hostB = hostB
  hostC = hostC
  key1 = key1
  key2 = key2
  p1 = p1
  p2 = p2
  Session <- MCSession
  Conn <- MCConn
  SSH_TYPES <- MCSshTypes
  Keyed = {}
  Alias <- MCAlias
  SshRef <- MCSshRef
  Key <- MCKey
  SshConfig <- MCSshConfig
  Program <- MCProgram
  ProgramOf <- MCProgramOf
  MaxChecks = 2
  None = None
CHECK_DEADLOCK FALSE
INVARIANTS
  RegistryIsTrue
  StoreIsTrue
