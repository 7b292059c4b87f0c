SPECIFICATION Spec
CONSTANTS
  a = a
  b = b
  NoOne = NoOne
  Runner = {a, b}
  Step <- ReleaseSteps
  End = "$end"
  StartAt = "check"
  Edges <- ReleaseEdges
  RunWhen <- ReleaseRunWhen
  Gated = {"ship"}
  Outcome <- ReleaseOutcome
  Tolerated <- ReleaseTolerated
  Invalid = {}
  MaxDefinitions = 1
  MaxExecutedSteps = 10
  MaxDispatches = 1
  MaxFaults = 0
  MaxGrants = 2
SYMMETRY Symmetry
PROPERTIES
  ApprovalIsNotLost
CHECK_DEADLOCK FALSE
