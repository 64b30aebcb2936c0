---------------------------- MODULE MCWorkerPool ----------------------------
(* Small rounds for WorkerPool: the ends of the groups of every round.        *)
EXTENDS WorkerPool

TwoRounds == <<<<2, 3>>, <<2>>>>
=============================================================================
