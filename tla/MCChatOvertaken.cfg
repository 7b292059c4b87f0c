SPECIFICATION Spec
CONSTANTS
  None = None
  Statuses = {"committed"}
  PostsInTurn = TRUE
  OpenAI = FALSE
  FailingCalls = {}
  Broken = {}
  MaxPosts = 2
  MaxHandoffs = 0
  MaxStarts = 1
  MaxFaults = 0
INVARIANT IdleMeansAnswered
CHECK_DEADLOCK FALSE
