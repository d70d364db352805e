CONSTANTS
  MaxIterations = 3
  RecursionLimit = 10
  ConfidenceThreshold = 70
  FastPathConfidence = 90
  Confidences <- MCConfidences
  Engagements = {e1, e2}
  NULL = NULL
SPECIFICATION Spec
INVARIANT
  PassMeansAuthorised
CHECK_DEADLOCK FALSE
