SPECIFICATION FairSpec
CONSTANTS
  size = 2
  RestartBudget = 2
  Signatures = {"a", "b"}
  Rounds <- TwoRounds
  subBatchSize = 2
  maxTimeoutRetries = 1
  timeoutBackoffFactor = 2
  maxCumulativeTimeout = 5
  maxRespawnsPerSlot = 1
  consecutiveFailureThreshold = 2
  Store = FALSE
INVARIANTS
  Inv
PROPERTIES
  ImplementsDispatch
  DispatchSettles
  NothingSurvives
CHECK_DEADLOCK FALSE
