CONSTANTS
  MaxIterations = 3
  RecursionLimit = 10
  ConfidenceThreshold = 70
  FastPathConfidence = 90
  Confidences <- MCConfidences
  Engagements = {e1, e2}
  Attempts = 2
  NULL = NULL
SPECIFICATION InvestigationSpec
INVARIANTS
  NarrativeNeverRaises
CHECK_DEADLOCK FALSE
