CONSTANTS
  Sweeps = {s1}
  Judgings = {j1}
  Rechecks = {r1}
  Order <- MCOrder
  TripleOf <- MCTripleOf
  MaxVersion = 2
  MaxRuns = 2
  MaxAttempts = 2
  HISTORICAL = HISTORICAL
  NULL = NULL
SPECIFICATION Layer2Spec
INVARIANTS
  Layer2TypeOK
  OneExtractionPerRun
  JoinFindsJudgedText
  CountedOutcomesAreStored
  CallsBounded
PROPERTIES
  TextsComeFromTheirSweep
  EveryRunEnds
  ImplementsNarrativesContract
CHECK_DEADLOCK FALSE
