CONSTANTS
  Runs = {r1, r2}
  AgentRunIds = {a1, a2}
  Verdicts <- MCVerdicts
  MaxAttempts = 3
  NULL = NULL
SPECIFICATION Spec
INVARIANT
  WarehouseNeverBlocksVerdict
CHECK_DEADLOCK FALSE
