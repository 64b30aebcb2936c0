SPECIFICATION FairWatch
CONSTANTS
  w = w
  other = other
  outsider = outsider
  host = host
  container = container
  a = a
  Nobody = Nobody
  Procs = {w, other, outsider}
  Namespaces = {host, container}
  NamespaceOf <- OneContained
  FileBackend = {}
  CannotListen = {outsider}
  Domain = {w, other}
  Watching = w
  Files = {a}
  Ignorable = {a}
  maxPendingPaths = 2
  MaxEdits = 2
  MaxFaults = 1
INVARIANTS
  WatchInv
PROPERTIES
  ImplementsIndexLock
  WatchSettles
CHECK_DEADLOCK FALSE
