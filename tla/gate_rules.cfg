SPECIFICATION AskSpec
CONSTANTS
  Hooks <- MCHooks
  Contexts <- MCContexts
  Ladders <- MCLadders
  Detected <- MCDetected
  Reports <- MCReports
  Payloads <- MCPayloads
  ReviewBlocks <- MCReviewBlocks
  MessageTypes <- MCMessageTypes
  Requests <- MCRequests
  Openspecs <- MCOpenspecs
  PlatformRepos <- MCPlatformRepos
  Outcomes <- MCOutcomes
  RepoSlugs <- MCRepoSlugs
  OutcomeIds <- MCOutcomeIds
  PolicyFolders <- MCPolicyFolders
  Selections <- MCSelections
  ChangedPaths <- MCChangedPaths
  PrNumbers <- MCPrNumbers
  Piles <- MCPiles
  Routers <- MCRouters
  AgentLists <- MCAgentLists
  Classes <- MCClasses
  Rosters <- MCRosters
  AccountLists <- MCAccountLists
  SlugOf <- MCSlugOf
  LocalOf <- MCLocalOf
  Categories = {"fix", "feature"}
CHECK_DEADLOCK FALSE
INVARIANTS
  GatesAgree
  LayersOnlyTighten
  SelectionIsSound
  ReviewerSeesAll
  FragmentsAreKept
  GuardKeepsLocal
  FormsAgree
