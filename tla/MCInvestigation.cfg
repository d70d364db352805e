CONSTANTS
  MaxIterations = 3
  RecursionLimit = 10
  ConfidenceThreshold = 70
  FastPathConfidence = 90
  Confidences <- MCConfidences
  Engagements = {e1, e2}
  Attempts = 2
  NULL = NULL
SPECIFICATION InvestigationSpec
INVARIANTS
  TypeOK
  ConcludedOnlyThroughGate
  EdgeAgreesWithLog
  RecursionBackstopUnreached
  TraceAccountsForEveryVisit
  JudgeAskedAtMostOnce
  RowReflectsGate
  AgentsTypeOK
  LlmSpendBounded
  OnlyGroundedTextReachesTheRow
PROPERTIES
  OutputsAreWriteOnce
  Termination
  ImplementsContract
  ImplementsSupervisor
CHECK_DEADLOCK FALSE
