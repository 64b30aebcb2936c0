---------------------------- MODULE MCBridgeCache ----------------------------
(* Small instances of BridgeCache: syncs, queries and handles. *)
EXTENDS BridgeCache, TLC

CONSTANTS s1, s2, s3, q1, q2, h1, h2, h3, h4, h5

SameQueries == Permutations(Queries)
=============================================================================
