SPECIFICATION GiveSpec
CONSTANTS
  Messages <- MCMessages
  KnownAgents <- MCKnownAgents
  Platforms <- MCPlatforms
  Routed <- MCRouted
  Paths <- MCPaths
  Places <- MCPlaces
  Sends <- MCSends
  Frontmatters <- MCFrontmatters
  Senders <- MCSenders
  Recipients <- MCRecipients
  Slugs <- MCSlugs
  KnownNames <- MCKnownNames
  Addresses <- MCAddresses
  Locals <- MCLocals
  Envelopes <- MCEnvelopes
  ClassRegistry <- MCClassRegistry
  Floor <- MCFloor
  Trees <- MCTrees
  Envs <- MCEnvs
  Cwds <- MCCwds
  Machines <- MCMachines
  Requests <- MCRequests
  Tmp <- MCTmp
  OrgOrder <- MCOrgOrder
  Target = {"t1", "t2"}
CHECK_DEADLOCK FALSE
INVARIANTS
  DeliveryIsTotal
  LongestPatternOwns
  CopiesAreSound
  NamesReadBack
  EnvelopeIsUnion
  EnvComesLast
  WorktreeIsHome
  ProgramsAgree
