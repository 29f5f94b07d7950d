SPECIFICATION ToolsSpec
CONSTANTS
  p = p
  q = q
  Caller = {p, q}
  MaxCalls = 3
  MaxRetries = 2
  MaxWaits = 2
  Threshold = 2
  WindowSize = 3
  MinSamples = 3
  Limit = 2
  HasFallback = TRUE
  Routed = {"full", "cheap"}
  Exceptions <- BadDay
  PoolSize = 4
  LayerFile = {1, 2}
  MaxRounds = 2
  BatchSize = 2
  Blocking = {"critical", "high"}
  RiskyFile = {"f"}
  LastDispute = 1
  RatedFiles <- SomeRated
  MaxLines = 2
  RoutingCases <- Worklists
  RoundSize = 2
  RoundFiles = 3
  BisectDepth = 1
  BreakerAt = 2
  Layer = {1, 2, 3}
  LayerPlans <- LayerGraphs
  PlanFile = {1, 2}
  Segments <- TwoSegments
  MaxRevisions = 1
  PlanCases <- Drafts
  DraftFile <- DraftFiles
  ModuleNeeds <- Needs
  ImportGraphs <- Graphs3
  ReplayFile = {1, 2, 3}
  Upstreams = {1, 2}
  History <- MixedHistory
  Bail = 1
  MaxDeaths = 1
  AskedFile = {1, 2}
  MaxGates = 1
  MaxCost = 2
  MaxTokens = 3
  MaxSpent = 4
  MaxRuns = 3
  Lessons <- SomeLessons
  MemoryFile = {1}
  HumanFile = {2}
  ConsolidateAbove = 3
  MaxEntries = 3
  MaxContents = 3
  MaxPaths = 1
  MaxTags = 2
  MinFails = 1
  MaxAdds = 4
  Outputs <- SomeOutputs
  SourceFiles <- SomeFiles
  DiffRanges <- SomeRanges
  Texts <- SomeTexts

INVARIANTS ProviderIsRight RequestsBounded
INVARIANTS NoDefectSlipsThrough FormsInOrder NothingForgotten LayersSkippedForCause
INVARIANTS ApprovedMeansRead PickedIsUpstream
INVARIANTS TreeIssuesFail RouteSound RiskSound RulesKeepBothSides ChunkVetoHolds NoHalfMerge
INVARIANTS UpstreamCovered  EndsKept BatchesKeepOrder PlanKeepsOrder FormSound GatesSound AnsweredGateWakes SpendIsCounted
PROPERTIES DisputeEnds RotationSound PassIsEarned CancelEndsLoop LessonsKept
CHECK_DEADLOCK FALSE
