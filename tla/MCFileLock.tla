----------------------------- MODULE MCFileLock -----------------------------
(* A small instance of FileLock: process slots and the hosts they run on.  *)
EXTENDS FileLock, TLC

CONSTANTS p1, p2, p3

TwoHosts == [p \in Procs |-> IF p = p3 THEN "there" ELSE "here"]

\* The two processes of one host are interchangeable (safety only).
Slots == Permutations({p1, p2})
=============================================================================
