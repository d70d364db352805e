CONSTANTS
  NONE = NONE
  NULL = NULL
  Order <- MCOrder
  Triples <- MCTriples
  FirstBronze <- MCFirstBronze
  Revisions <- MCRevisions
  MaxSweeps = 1
  MaxTries = 2
  Investigations <- MCRuns
  MaxCalls = 3
  Runs <- MCRuns
  AgentRunIds <- MCRuns
  Verdicts = {escalate}
  MaxAttempts = 1
  Scopes <- MCScopes
SPECIFICATION BaselineSpec
INVARIANTS
  PipelineTypeOK
  FinishedSweepIsStored
  AmendmentAnswerAgrees
  OnlyTheCallInFlightHasASpan
  CostsAreOfTheirScope
  EveryScopeIsAccountedFor
PROPERTIES
  ScriptEnds
CHECK_DEADLOCK FALSE
