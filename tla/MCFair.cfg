SPECIFICATION MCSpec
CONSTANTS
  a = a
  b = b
  NoOne = NoOne
  Runner = {a, b}
  Step <- ReleaseSteps
  End = "$end"
  StartAt = "check"
  Edges <- ReleaseEdges
  RunWhen <- ReleaseRunWhen
  Gated = {"ship"}
  Outcome <- ReleaseOutcome
  Tolerated <- ReleaseTolerated
  Invalid = {}
  MaxDefinitions = 1
  MaxExecutedSteps = 10
  MaxDispatches = 2
  MaxFaults = 1
  MaxGrants = 1
  NoMachine = NoMachine
  Machine = {m1, m2}
  Claim = {c1, c2}
  Reconcile = {}
  Tick = {"tick"}
  Resize = {}
  Mins = {1}
  MaxAttempts = 2
  FailingFlyCalls = {"start", "health", "post", "create", "list", "vanish"}
  MaxPoolFaults = 1
PROPERTIES
  ProcessesSettle
  PoolSettles
  
  GoalIsReached
  AgentReturns
CHECK_DEADLOCK FALSE
