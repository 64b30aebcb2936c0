------------------------------ MODULE IndexLock ------------------------------
(***************************************************************************)
(* What gitnexus/src/storage/index-lock.ts promises to the writers of one  *)
(* index directory, whatever backend keeps the promise: at most one live   *)
(* process owns the directory, ownership is only taken when nobody has it, *)
(* and the death of the owner gives it up.                                 *)
(***************************************************************************)
CONSTANTS Procs,   \* processes that may write the index directory
          NoOwner  \* the directory is free; not a process

VARIABLE owner

Init == owner = NoOwner

\* acquireIndexLock resolves with a handle that owns the lock.
Grant(p) == owner = NoOwner /\ owner' = p

\* The handle is released, or its process is gone.
GiveUp(p) == owner = p /\ owner' = NoOwner

Next == \E p \in Procs : Grant(p) \/ GiveUp(p)

Spec == Init /\ [][Next]_owner
=============================================================================
