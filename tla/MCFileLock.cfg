SPECIFICATION MutexSpec
CONSTANTS
  p1 = p1
  p2 = p2
  p3 = p3
  NoFile = NoFile
  Procs = {p1, p2, p3}
  HostOf <- TwoHosts
  FileFaults = {"read", "rm"}
  MaxLevel = 2
  MaxRestarts = 1
INVARIANTS
  RemovesWhatItJudged
PROPERTIES
  RefusedByTheLivingOnly
  ImplementsIndexLock
SYMMETRY Slots
CHECK_DEADLOCK FALSE
