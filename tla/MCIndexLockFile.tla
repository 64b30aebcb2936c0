--------------------------- MODULE MCIndexLockFile ---------------------------
(* Small instances of IndexLockFile: process slots and the hosts they run on. *)
EXTENDS IndexLockFile, TLC

CONSTANTS p1, p2, p3

OneHost  == [p \in Procs |-> "here"]
TwoHosts == [p \in Procs |-> IF p = p3 THEN "there" ELSE "here"]

\* Bounds on the acquisitions and on the rebirths of a slot.
Twice == [p \in Procs |-> IF p = p3 THEN 1 ELSE 2]
Once  == [p \in Procs |-> 1]
First == [p \in Procs |-> IF p = p1 THEN 1 ELSE 0]

\* The two processes of one host are interchangeable (safety only).
Slots == Permutations({p1, p2})

=============================================================================
