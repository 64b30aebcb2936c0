SPECIFICATION Spec
CONSTANTS
  p1 = p1
  p2 = p2
  p3 = p3
  NoFile = NoFile
  Procs = {p1, p2, p3}
  HostOf <- TwoHosts
  Denied = {p3}
  Unbounded = {p1, p2, p3}
  StartTimeKnown = TRUE
  Faults = {"unlinkMain", "rereadMain"}
  MaxAttempts <- Twice
  MaxRestarts <- Once
SYMMETRY Slots
INVARIANTS
  UnlinksWhatItJudged
  OwnerOnDisk
  StagingKept
PROPERTIES
  ImplementsIndexLock
CHECK_DEADLOCK FALSE
