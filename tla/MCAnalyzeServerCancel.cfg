SPECIFICATION Spec
CONSTANTS
  j1 = j1
  j2 = j2
  e1 = e1
  e2 = e2
  r1 = r1
  r2 = r2
  Jobs = {j1}
  Embeds = {}
  Repos = {r1}
  MaxRetries = 2
  MayCancel = TRUE
  StrayErrors = FALSE
INVARIANTS
  LaunchReleases
CHECK_DEADLOCK FALSE
