SPECIFICATION AgentSpec
CONSTANTS
  AgentTools = {"edit", "read", "dispatch"}
  Stateful = FALSE
  Contracted = FALSE
  Deadlined = FALSE
  MaxRetries = 2
  MaxToolUses = 2
  MaxTurnEnds = 1
INVARIANTS
  ReplaysNothing
CHECK_DEADLOCK FALSE
