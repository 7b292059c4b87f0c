SPECIFICATION MCSpec
CONSTANTS
  d1 = d1
  d2 = d2
  la = la
  lb = lb
  e1 = e1
  e2 = e2
  NoGoalItem = NoGoalItem
  Dispatcher <- Dispatchers
  LoopOrder <- Loops
  Kind <- Kinds
  Requested <- Requests
  Preferred = {la}
  Period <- Periods
  Lease = 2
  Horizon = 3
  LoopCalls = {"list", "reserve", "create", "renew", "record", "finish", "mark", "crash"}
  MaxLoopFaults = 1
  GoalProc = {"p1"}
  Exclusive = TRUE
  Evidence <- Items
  Policy <- Policies
  Attached = {e1, e2}
  Needs <- Arguments
  GoalResult <- Results
  MaxHops = 4
  MaxTicks = 3
  OperatorActs = {"abandon", "trust"}
  MaxGoalFaults = 1
  LoopTargets <- Targets
  LastDay = 3
  IdsPerDay = 2
  MaxLoopTicks = 3
  MaxSaveFaults = 1
  Profiles = {"run", "capability-delivery"}
  CoverageRules = FALSE
  PushAttempts = 2
  Chained = FALSE
  PeopleActs = {"push", "merge"}
  DeliveryFaults = {"push", "fetch", "conflict", "lookup", "create", "patch", "ready", "phantom", "save", "agent", "killed"}
  MaxRuns = 2
  MaxPeople = 1
  MaxDeliveryFaults = 2
  AgentTools = {"edit", "shell", "read", "submit", "output"}
  Stateful = TRUE
  Contracted = TRUE
  Deadlined = TRUE
  MaxRetries = 2
  MaxToolUses = 2
  MaxTurnEnds = 2
  j1 = j1
  j2 = j2
  Children <- Stages
  ChildResults <- StageResults
  Mirrors = TRUE
  ContainerMaxIterations = 6
  ContainerFaults = {"throw", "killed"}
  MaxContainerStarts = 3
  MaxContainerFaults = 2
  PlannedJobs <- Plan
  JobResults <- JobEnds
  MaxChainHops = 2
  Overlap = FALSE
  JobFaults = {"read", "write", "killed"}
  MaxTriggers = 3
  MaxJobFaults = 1
  MaxHandOffs = 3
  Preflights <- Entries
  Postflights <- PostEntries
  StageKinds = {"agent", "container"}
  StageFaults = {"hydrate", "prepare", "script", "model", "index", "killed"}
  MaxStageFaults = 2
  ToolAgents = {"a1", "a2"}
  TrackersOverlap = FALSE
  TrackKeys = {"k1", "k2"}
  Recommendations <- Asks
  ListLimit = 2
  Dispatchable <- Capabilities
  TodoItems = {"finding", "i1", "i2"}
  Texts = {"t1"}
  TodoExists = TRUE
  TodoTries = 2
  ToolFaults = {"read", "refused", "lost"}
  MaxToolCalls = 3
  MaxToolFaults = 1
  CiStarts <- Starts
  DefaultFor = {"issue"}
  MembersOnly = TRUE
  OnPullRequest = TRUE
  Watches <- Schedules
  WakeMinute = 5
  WindowMinutes = 5
  JobExits = {0, 1, 3, 4, 124, 300}
  CiFaults = {"config", "install", "github", "crash"}
  MaxCiFaults = 2
  Documents <- DocumentSet
  MaxDocSteps = 4
  MaxNext = 2
  MaxLoop = 2
  AskedEvidence = {"none", "e1"}
  MaxDocStarts = 2
  Hydrators = {"h1"}
  HydrationsOverlap = FALSE
  Namespaces = {"capability", "workflow"}
  EngineCapabilities = {"init", "run"}
  ProjectSlugs = {"bad_slug", "fix", "run"}
  SafeSlugs = {"fix", "run"}
  FolderOrder <- ListedOrder
  CapabilityDocs <- FolderDocs
  ConfigFiles <- KodyConfigs
  DefinitionFaults = {"list", "killed"}
  MaxEdits = 1
  MaxHydrations = 2
  MaxDefinitionFaults = 1
  ProfileCandidates <- Lookups
  RecordGoals <- ResultGoals
  GoalTargetLoops = {"g1"}
  Reportable = {"g1"}
  RecordStarts = {"nothing", "actor", "schedule", "workflow_dispatch"}
  RecordFaults = {"goal", "log", "index", "report", "killed"}
  MaxRecordFaults = 1
  Schedulers = {"s1", "s2"}
  FileOrder <- GoalFiles
  DirectLoops = {"daily"}
  ActiveGoals = {"daily"}
  InstanceNames <- BucketInstances
  ScheduledTemplate = "t"
  OnlyGoals = {}
  DailyGoals = {"daily"}
  Interval = 2
  DayLength = 3
  PreferredHour = 1
  LeaseTime = 3
  RunTime = 2
  SchedulerFaults = {"call", "lost reply", "killed"}
  LastMoment = 4
  MaxSchedulerRuns = 2
  MaxSchedulerFaults = 1
  MaxPeopleEdits = 1
  QaProcesses = {"q1"}
  QaFocus = {"qa"}
  NamedGoals = {"own"}
  QaReports <- WrittenReports
  DashboardRaces = FALSE
  QaFaults = {"list", "edit", "ticket", "store", "lost reply", "killed"}
  MaxQaRuns = 3
  MaxQaFaults = 1
  MaxQaEdits = 1
  ProxyUsers = {"u1", "u2", "u3"}
  UserModels <- AskedModels
  ProxyPorts = 2
  ProxyFaults = {"install", "crash", "hang", "timeout", "killed"}
  MaxProxies = 4
  MaxProxyFaults = 1
  CodexSessions = {"s1", "s2"}
  CodexFaults = {"child", "resume", "start", "reject", "error", "restart"}
  MaxCodexTurns = 2
  MaxThreads = 4
  MaxCodexFaults = 2
  Builds = {1, 2}
  PreviewFaults = {"context", "app", "image", "list", "destroy", "create", "lost machine",
                   "lookup", "comment", "comment refused", "killed"}
  CreateTries = 2
  MaxPreviewFaults = 2
  TickKinds = {{"agent"}, {"script"}, {"live"}}
  TokenLife = 3
  TokenMargin = 2
  CallTime = 1
  TickFaults = {"identity", "refused", "lost request", "lost reply"}
  LastTime = 4
  MaxTickRuns = 2
  MaxTickFaults = 1
INVARIANTS
  BackendTypeOK
  LoopsRunOnce
  EvidenceDecides
  OneActiveInstance
  GreenMeansReviewable
  
  AttemptsAreHonest
  IssueWorkIsDoneOnce
  StageEndsCleanly
  
  
  DocumentsHold
  DefinitionsHold
  
  RecordsAgree
  
  
  
  PreviewHolds
  TickStatesHold
PROPERTIES
  NewDayIsFree
  
  OthersItemsStay
CHECK_DEADLOCK FALSE
