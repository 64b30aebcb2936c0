SPECIFICATION FairSpec
CONSTANTS
  j1 = j1
  j2 = j2
  e1 = e1
  e2 = e2
  r1 = r1
  r2 = r2
  Jobs = {j1}
  Embeds = {e1, e2}
  Repos = {r1, r2}
  MaxRetries = 2
  MayCancel = TRUE
  StrayErrors = TRUE
INVARIANTS
  NoOverlap
  NoRetryOfASuccess
  PublishDecision
  ReleasedUnlessCancelled
PROPERTIES
  JobEnds
CHECK_DEADLOCK FALSE
