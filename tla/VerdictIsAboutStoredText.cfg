CONSTANTS
  Sweeps = {s1}
  Judgings = {}
  Rechecks = {r1}
  Order <- MCOrder
  TripleOf <- MCTripleOf
  MaxVersion = 2
  MaxRuns = 2
  MaxAttempts = 2
  HISTORICAL = HISTORICAL
  NULL = NULL
SPECIFICATION Layer2Spec
INVARIANT VerdictIsAboutStoredText
CHECK_DEADLOCK FALSE
