SPECIFICATION FairSpec
CONSTANTS
  Repos = {r1}
  Threshold = 2
  Faults <- AllFaults
  MaxCommits = 3
  MaxExits = 2
INVARIANTS
  Inv
PROPERTIES
  NewCommitUnblocks
  StopEnds
  IndexFollows
  PendingResolved
