SPECIFICATION MCSpec
CONSTANTS
  m1 = m1
  m2 = m2
  m3 = m3
  m4 = m4
  c1 = c1
  c2 = c2
  None = None
  NoMachine = NoMachine
  Machine = {m1, m2, m3, m4}
  Claim = {c1, c2}
  Reconcile = {"start"}
  Tick = {"tick"}
  Resize = {"resize"}
  Mins = {1, 2}
  MaxAttempts = 3
  FailingFlyCalls = {"start", "health", "post", "create", "suspend", "list", "destroy", "vanish"}
  MaxPoolFaults = 2
  Statuses = {"pending", "committed"}
  PostsInTurn = TRUE
  OpenAI = TRUE
  FailingCalls = {"top", "poll", "turn", "agent", "append", "lost", "emit", "mark"}
  Broken = {"agent"}
  MaxPosts = 3
  MaxHandoffs = 1
  MaxStarts = 2
  MaxFaults = 2
  MaxMessages = 2
  MaxTexts = 2
  Overlap = FALSE
  SameDir = TRUE
  MaxDrops = 2
  MaxServerDeaths = 1
SYMMETRY Symmetry
INVARIANTS
  ServicesTypeOK
  RepliesInOrder
  SteadyHolds
  
PROPERTIES
  SweptPool
CHECK_DEADLOCK FALSE
