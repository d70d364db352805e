CONSTANTS
  j1 = j1
  Jobs <- MCJobs
  Pods = {p1, p2}
  MaxDelivery = 3
  Scenarios <- MCScenarios
  NoPrior <- MCNoPrior
  Ticks <- MCTicks
  Runs <- MCRuns
  AgentRunIds <- MCAgentRunIds
  Verdicts <- MCVerdicts
  MaxAttempts = 2
  NULL = NULL
SPECIFICATION WorkerSpec
INVARIANTS
  TypeOK
  DecisionJoinsToCost
  ReturnedMeansPersisted
  WorkerTypeOK
  CompletedJobIsDecided
  PoisonJobNeverDecides
PROPERTIES
  EveryRunEnds
  SettledForGood
  EveryJobSettles
  ImplementsJobContract
CHECK_DEADLOCK FALSE
