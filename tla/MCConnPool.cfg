SPECIFICATION FairSpec
CONSTANTS
  MaxCalls = 2
  VectorCalls = {1, 2}
  Repos = {"flat", "alias"}
  Paths = {"p"}
  dbPath <- OnePath
  MAX_POOL_SIZE = 1
  MAX_CONNS_PER_REPO = 1
  LOCK_RETRY_ATTEMPTS = 2
  MaxBuilds = 2
  MaxCloses = 1
  PinnedBy = {"alias"}
  MaxPins = 1
INVARIANTS
  Inv
PROPERTIES
  OpenAfterCheckpoint
  AutoCloseSpares
  CallSettles
CHECK_DEADLOCK FALSE
