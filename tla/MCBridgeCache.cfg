SPECIFICATION Spec
CONSTANTS
  s1 = s1
  s2 = s2
  s3 = s3
  q1 = q1
  q2 = q2
  h1 = h1
  h2 = h2
  h3 = h3
  h4 = h4
  h5 = h5
  Syncs = {s1, s2}
  Inside = {s1}
  Old = Old
  NoSync = NoSync
  Queries = {q1, q2}
  Handles = {h1, h2, h3, h4}
  NoHandle = NoHandle
SYMMETRY SameQueries
INVARIANTS
  Inv
  VouchedUnlessDemoted
  FreshAnswer
