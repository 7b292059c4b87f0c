SPECIFICATION Spec
CONSTANTS
  a = a
  b = b
  NoOne = NoOne
  Runner = {a, b}
  Step <- ReleaseSteps
  End = "$end"
  StartAt = "check"
  Edges <- ReleaseEdges
  RunWhen <- ReleaseRunWhen
  Gated = {"ship"}
  Outcome <- ReleaseOutcome
  Tolerated <- ReleaseTolerated
  Invalid = {}
  MaxDefinitions = 1
  MaxExecutedSteps = 10
  MaxDispatches = 3
  MaxFaults = 1
  MaxGrants = 2
SYMMETRY Symmetry
INVARIANTS
  Inv
PROPERTIES
  DoneIsFinal
  ProgressIsKept
  LaunchesAreApproved
CHECK_DEADLOCK FALSE
