SPECIFICATION FairSpec
CONSTANTS
  f1 = f1
  f2 = f2
  Files = {f1, f2}
  Flaky = {f2}
  Platforms = {"posix", "win"}
  MaxAttempts = 1
  Options = {"default", "force", "embeddings", "drop"}
  Faults = {}
  MaxCommits = 2
  MaxMoves = 1
  MaxMishaps = 1
  MaxFlagged = 1
INVARIANTS
  Inv
PROPERTIES
  EmbeddingsKept
  Settles
  DirtyTreeIndexed
