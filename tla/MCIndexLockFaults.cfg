SPECIFICATION FairSpec
CONSTANTS
  p1 = p1
  p2 = p2
  p3 = p3
  NoFile = NoFile
  Procs = {p1, p2}
  HostOf <- OneHost
  Denied = {}
  Unbounded = {p1}
  StartTimeKnown = TRUE
  Faults = {"writeGuard", "writeMain", "readMain", "unlinkGuard", "eperm"}
  MaxAttempts <- Once
  MaxRestarts <- First
INVARIANTS
  NothingLeaked
PROPERTIES
  AttemptEnds
  OrphanReclaimed
CHECK_DEADLOCK FALSE
