--------------------------- MODULE MCAnalyzeServer ---------------------------
(* Small instances of AnalyzeServer: job ids and repositories. *)
EXTENDS AnalyzeServer, TLC

CONSTANTS j1, j2, e1, e2, r1, r2

Interchangeable == Permutations(Jobs) \cup Permutations(Embeds) \cup Permutations(Repos)
=============================================================================
