SPECIFICATION Spec
CONSTANTS
  a = a
  b = b
  NoOne = NoOne
  Runner = {a, b}
  Step <- RepairSteps
  End = "$end"
  StartAt = "lint"
  Edges <- RepairEdges
  RunWhen <- RepairRunWhen
  Gated = {"pack"}
  Outcome <- RepairOutcome
  Tolerated <- RepairTolerated
  Invalid = {}
  MaxDefinitions = 2
  MaxExecutedSteps = 3
  MaxDispatches = 2
  MaxFaults = 1
  MaxGrants = 1
SYMMETRY Symmetry
INVARIANTS
  LoopsAreBounded
  ToldAsItRan
PROPERTIES
  WalksTheGraph
CHECK_DEADLOCK FALSE
