-------------------------- MODULE IndexLockBackends --------------------------
(***************************************************************************)
(* acquireIndexLock and its two backends (gitnexus/src/storage/            *)
(* index-lock.ts): an endpoint the kernel binds to the process that        *)
(* listens on it, and the file lock, which is here the abstract lock that  *)
(* IndexLockFile implements.  A process uses the file lock when it is told *)
(* to, or when its listen fails with anything but EADDRINUSE.              *)
(***************************************************************************)
CONSTANTS
  Procs,
  Namespaces,  \* network namespaces; the endpoint name is known in one only
  NamespaceOf,
  FileBackend, \* processes for which selectBackend answers "file"
  CannotListen, \* processes whose listen may fail with another error
  Domain,       \* writers that RUNBOOK.md:217-218 asks for: one backend, one domain
  Nobody

ASSUME ConstantsAssumption ==
  /\ NamespaceOf \in [Procs -> Namespaces]
  /\ FileBackend \subseteq Procs
  /\ CannotListen \subseteq Procs
  /\ Nobody \notin Procs

ASSUME OneDomain ==
  /\ Domain \subseteq Procs
  /\ \/ Domain \subseteq FileBackend
     \/ /\ Domain \cap (FileBackend \cup CannotListen) = {}
        /\ \A p, q \in Domain : NamespaceOf[p] = NamespaceOf[q]

VARIABLES
  endpoint,  \* the process listening on the name, in each namespace
  fileOwner, \* the owner of the file lock
  pc

vars == <<endpoint, fileOwner, pc>>

File == INSTANCE IndexLock WITH owner <- fileOwner, NoOwner <- Nobody

TypeOK ==
  /\ endpoint \in [Namespaces -> Procs \cup {Nobody}]
  /\ fileOwner \in Procs \cup {Nobody}
  /\ pc \in [Procs -> {"idle", "listen", "file", "owner"}]

Init ==
  /\ endpoint = [n \in Namespaces |-> Nobody]
  /\ File!Init
  /\ pc = [p \in Procs |-> "idle"]

Goto(p, l) == pc' = [pc EXCEPT ![p] = l]

\* selectBackend.
Begin(p) ==
  /\ pc[p] = "idle"
  /\ Goto(p, IF p \in FileBackend THEN "file" ELSE "listen")
  /\ UNCHANGED <<endpoint, fileOwner>>

\* Mutant of Listens: the name can be bound twice (SO_REUSEPORT).
Listens_Reused(p) ==
  /\ pc[p] = "listen"
  /\ endpoint' = [endpoint EXCEPT ![NamespaceOf[p]] = p]
  /\ Goto(p, "owner")
  /\ UNCHANGED fileOwner

\* tryListen resolves to null: the kernel has bound the name to p.
Listens(p) ==
  /\ pc[p] = "listen"
  /\ endpoint[NamespaceOf[p]] = Nobody
  /\ endpoint' = [endpoint EXCEPT ![NamespaceOf[p]] = p]
  /\ Goto(p, "owner")
  /\ UNCHANGED fileOwner

\* SocketLockUnavailable: this process goes on with the file lock.
ListenUnavailable(p) ==
  /\ pc[p] = "listen"
  /\ p \in CannotListen
  /\ Goto(p, "file")
  /\ UNCHANGED <<endpoint, fileOwner>>

AcquireFile(p) ==
  /\ pc[p] = "file"
  /\ File!Grant(p)
  /\ Goto(p, "owner")
  /\ UNCHANGED endpoint

\* IndexLockTimeoutError, in either backend.
GiveUpWaiting(p) ==
  /\ pc[p] \in {"listen", "file"}
  /\ Goto(p, "idle")
  /\ UNCHANGED <<endpoint, fileOwner>>

\* What p owned is free, and p starts over.
Drop(p) ==
  /\ \/ File!GiveUp(p) /\ UNCHANGED endpoint
     \/ /\ endpoint[NamespaceOf[p]] = p
        /\ endpoint' = [endpoint EXCEPT ![NamespaceOf[p]] = Nobody]
        /\ UNCHANGED fileOwner
  /\ Goto(p, "idle")

\* release: server.close(), or the file's release; or the death of the owner,
\* which the kernel (and the file lock's reclaim) turns into the same.
Release(p) == pc[p] = "owner" /\ Drop(p)

Next ==
  \E p \in Procs :
    \/ Begin(p) \/ Listens(p) \/ ListenUnavailable(p) \/ AcquireFile(p)
    \/ GiveUpWaiting(p) \/ Release(p)

Spec == Init /\ [][Next]_vars
-----------------------------------------------------------------------------
\* index-lock.ts:8-10: the write path has an exclusive lock.  Writers that use
\* one backend in one domain exclude each other, whichever backend it is and
\* whatever processes outside the domain do.
Exclusive ==
  \A p, q \in Domain : pc[p] = "owner" /\ pc[q] = "owner" => p = q

\* Nobody owns by both backends, and what a process does not own it does not
\* keep from others: a free directory can be acquired at once.
NothingKept ==
  /\ \A n \in Namespaces : endpoint[n] # Nobody =>
       pc[endpoint[n]] = "owner" /\ NamespaceOf[endpoint[n]] = n
  /\ fileOwner # Nobody => pc[fileOwner] = "owner"
  /\ \A p \in Procs : pc[p] = "owner" =>
       (endpoint[NamespaceOf[p]] = p) # (fileOwner = p)

Owner == IF \E p \in Domain : pc[p] = "owner"
         THEN CHOOSE p \in Domain : pc[p] = "owner" ELSE Nobody

Lock == INSTANCE IndexLock WITH Procs <- Domain, owner <- Owner, NoOwner <- Nobody

\* To the writers of one domain the two backends are the lock of the directory.
ImplementsIndexLock == Lock!Spec
=============================================================================
