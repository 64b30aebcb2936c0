------------------------------ MODULE FileLock ------------------------------
(***************************************************************************)
(* The recoverable mutex of gitnexus/src/storage/file-lock.ts, which keeps *)
(* automatic sync to one process per home.                                 *)
(*                                                                         *)
(* A lock is a file published whole by link(2), so it is never seen half   *)
(* written.  Whoever finds it taken looks whether its owner is dead, and   *)
(* does so under a second lock of the same kind, <path>.reclaim, which may *)
(* itself be stale and is then judged under <path>.reclaim.reclaim, and so *)
(* on: level 0 is the lock itself, level l + 1 guards the reclaim of level *)
(* l.  No caller asks for retries, so a live owner is a refusal.           *)
(***************************************************************************)
EXTENDS Naturals

CONSTANTS
  Procs,       \* process slots; a slot is a pid on one host
  HostOf,      \* the hostname a process writes into its owner file
  FileFaults,      \* the file operations that may fail, see FileFaultKinds
  MaxLevel,    \* bound: levels of reclaim guards
  MaxRestarts, \* bound: times any pid is used again
  NoFile       \* a name that does not exist

FileFaultKinds ==
  {"read",   \* an owner file or a start time cannot be read
   "rm",     \* the stale file cannot be removed
   "reread"} \* the renamed file cannot be read back during a release

Levels == 0 .. MaxLevel
Owners == [proc : Procs, inc : Nat]

ASSUME LevelsAssumption ==
  FileFaults \subseteq FileFaultKinds /\ MaxLevel \in Nat /\ MaxRestarts \in Nat

ASSUME NoFileAssumption == NoFile \notin Owners

VARIABLES
  lock,    \* the file at each level: NoFile or its owner
  pc,      \* where each process is
  lvl,     \* the level it is working at
  moved,   \* the file a release has renamed away
  removed, \* its reclaim has removed the stale file
  inc,     \* the start time of the process behind each pid
  births,  \* the last start time given
  excused  \* history: during the attempt something justified a refusal

mutexVars == <<lock, pc, lvl, moved, removed, inc, births, excused>>

Controls == {"dead", "idle", "link", "read", "rm", "held",
             "relRead", "relMove", "relCheck"}

Mine(p)    == [proc |-> p, inc |-> inc[p]]
Dead(o)    == pc[o.proc] = "dead" \/ inc[o.proc] # o.inc

Trying(p)  == pc[p] \notin {"idle", "dead"}
Blocks(p, o) == HostOf[o.proc] # HostOf[p] \/ ~Dead(o)

\* Mutant of Stale: this kernel is asked about the pids of another host.
Stale_AnyHost(p, o) == HostOf[o.proc] # HostOf[p] \/ Dead(o)
\* Mutant of Stale: a pid in use is taken for the owner, whoever has it.
Stale_PidOnly(p, o) == HostOf[o.proc] = HostOf[p] /\ pc[o.proc] = "dead"

\* A pid means something on its own host only, and is the owner's only with
\* the owner's start time.
Stale(p, o) == HostOf[o.proc] = HostOf[p] /\ Dead(o)

Goto(p, c) == pc' = [pc EXCEPT ![p] = c]

MutexInit ==
  /\ lock = [l \in Levels |-> NoFile]
  /\ pc = [p \in Procs |-> "idle"]
  /\ lvl = [p \in Procs |-> 0]
  /\ moved = [p \in Procs |-> NoFile]
  /\ removed = [p \in Procs |-> FALSE]
  /\ inc = [p \in Procs |-> 0]
  /\ births = 0
  /\ excused = [p \in Procs |-> FALSE]

-----------------------------------------------------------------------------
(* acquireFileLock and reclaimStaleLock.                                   *)

Begin(p) ==
  /\ pc[p] = "idle"
  /\ Goto(p, "link")
  /\ UNCHANGED <<lock, lvl, moved, removed, inc, births>>

\* fs.link publishes the pending file: the lock is taken, or the guard is and
\* the level below can be judged.
Link(p) ==
  /\ pc[p] = "link"
  /\ lock[lvl[p]] = NoFile
  /\ lock' = [lock EXCEPT ![lvl[p]] = Mine(p)]
  /\ Goto(p, IF lvl[p] = 0 THEN "held" ELSE "read")
  /\ UNCHANGED <<lvl, moved, removed, inc, births>>

\* Mutant of Conflict: the stale file is judged without a guard of its own.
Conflict_NoGuard(p) ==
  /\ pc[p] = "link" /\ lock[lvl[p]] # NoFile /\ lvl[p] < MaxLevel
  /\ lvl' = [lvl EXCEPT ![p] = @ + 1]
  /\ Goto(p, "read")
  /\ UNCHANGED <<lock, moved, removed, inc, births>>

\* EEXIST: try to reclaim, which begins with taking the guard one level up.
Conflict(p) ==
  /\ pc[p] = "link"
  /\ lock[lvl[p]] # NoFile
  /\ lvl[p] < MaxLevel
  /\ lvl' = [lvl EXCEPT ![p] = @ + 1]
  /\ UNCHANGED <<lock, pc, moved, removed, inc, births>>

\* The owner of the level below is judged; a lock that is gone is left alone.
Read(p) ==
  /\ pc[p] = "read"
  /\ LET o == lock[lvl[p] - 1] IN
     Goto(p, IF o # NoFile /\ Stale(p, o) THEN "rm" ELSE "relRead")
  /\ removed' = [removed EXCEPT ![p] = FALSE]
  /\ UNCHANGED <<lock, lvl, moved, inc, births>>

\* The removal, unless it fails, and then the guard goes all the same.
Rm(p) ==
  /\ pc[p] = "rm"
  /\ \E done \in (IF "rm" \in FileFaults THEN BOOLEAN ELSE {TRUE}) :
       /\ lock' = IF done THEN [lock EXCEPT ![lvl[p] - 1] = NoFile] ELSE lock
       /\ removed' = [removed EXCEPT ![p] = done]
  /\ Goto(p, "relRead")
  /\ UNCHANGED <<lvl, moved, inc, births>>

-----------------------------------------------------------------------------
(* releaseOwnedLock, of the lock or of a reclaim guard.                    *)

\* The release is over: after a reclaim the level below is tried again, and
\* otherwise the attempts of all levels end as busy, or failed.
Released(p) ==
  IF lvl[p] > 0 /\ removed[p]
  THEN Goto(p, "link") /\ lvl' = [lvl EXCEPT ![p] = @ - 1]
  ELSE Goto(p, "idle") /\ lvl' = [lvl EXCEPT ![p] = 0]

Release(p) ==
  /\ pc[p] = "held"
  /\ Goto(p, "relRead")
  /\ UNCHANGED <<lock, lvl, moved, removed, inc, births>>

\* A file that is not ours is left where it is.
RelRead(p) ==
  /\ pc[p] = "relRead"
  /\ IF lock[lvl[p]] = Mine(p) THEN Goto(p, "relMove") /\ UNCHANGED lvl
                               ELSE Released(p)
  /\ UNCHANGED <<lock, moved, removed, inc, births>>

RelMove(p) ==
  /\ pc[p] = "relMove"
  /\ moved' = [moved EXCEPT ![p] = lock[lvl[p]]]
  /\ lock' = [lock EXCEPT ![lvl[p]] = NoFile]
  /\ IF lock[lvl[p]] = NoFile THEN Released(p)
                              ELSE Goto(p, "relCheck") /\ UNCHANGED lvl
  /\ UNCHANGED <<removed, inc, births>>

\* What was moved is ours; if it does not look so it is moved back, over
\* whatever has been published meanwhile.
RelCheck(p) ==
  /\ pc[p] = "relCheck"
  /\ \E legible \in (IF "reread" \in FileFaults THEN BOOLEAN ELSE {TRUE}) :
       lock' = IF legible /\ moved[p] = Mine(p) THEN lock
               ELSE [lock EXCEPT ![lvl[p]] = moved[p]]
  /\ moved' = [moved EXCEPT ![p] = NoFile]
  /\ Released(p)
  /\ UNCHANGED <<removed, inc, births>>

\* readOwner and the start time probe fail closed: what cannot be read is
\* neither removed as stale nor moved away by a release.
Illegible(p) ==
  /\ "read" \in FileFaults
  /\ \/ /\ pc[p] = "read"
        /\ Goto(p, "relRead")
        /\ removed' = [removed EXCEPT ![p] = FALSE]
        /\ UNCHANGED lvl
     \/ pc[p] = "relRead" /\ Released(p) /\ UNCHANGED removed
  /\ UNCHANGED <<lock, moved, inc, births>>

-----------------------------------------------------------------------------
(* The operating system.                                                   *)

Die(p) ==
  /\ pc[p] # "dead"
  /\ Goto(p, "dead")
  /\ lvl' = [lvl EXCEPT ![p] = 0]
  /\ moved' = [moved EXCEPT ![p] = NoFile]
  /\ removed' = [removed EXCEPT ![p] = FALSE]
  /\ UNCHANGED <<lock, inc, births>>

\* The pid is given to another process.
Restart(p) ==
  /\ pc[p] = "dead"
  /\ births < MaxRestarts
  /\ births' = births + 1
  /\ Goto(p, "idle")
  /\ inc' = [inc EXCEPT ![p] = births + 1]
  /\ UNCHANGED <<lock, lvl, moved, removed>>

Step(p) ==
  \/ Begin(p) \/ Link(p) \/ Conflict(p) \/ Read(p) \/ Rm(p)
  \/ Release(p) \/ RelRead(p) \/ RelMove(p) \/ RelCheck(p)
  \/ Die(p) \/ Restart(p)

\* What justifies a refusal of p: another process at work or in possession, an
\* owner alive or on another host, a file that cannot be removed.
Excuse(p) ==
  \/ \E q \in Procs \ {p} : Trying(q)
  \/ pc[p] = "read" /\ lock[lvl[p] - 1] # NoFile /\ Blocks(p, lock[lvl[p] - 1])
  \/ pc[p] = "rm" /\ ~removed'[p]

MutexNext ==
  \/ /\ \E p \in Procs : Step(p)
     /\ excused' = [p \in Procs |-> Trying(p)' /\ (excused[p] \/ Excuse(p))]
  \/ \E p \in Procs :
       Illegible(p) /\ excused' = [excused EXCEPT ![p] = Trying(p)']

MutexSpec == MutexInit /\ [][MutexNext]_mutexVars

-----------------------------------------------------------------------------
MutexTypeOK ==
  /\ lock \in [Levels -> Owners \cup {NoFile}]
  /\ pc \in [Procs -> Controls]
  /\ lvl \in [Procs -> Levels]
  /\ moved \in [Procs -> Owners \cup {NoFile}]
  /\ removed \in [Procs -> BOOLEAN]
  /\ births \in 0 .. MaxRestarts
  /\ inc \in [Procs -> 0 .. births]
  /\ excused \in [Procs -> BOOLEAN]

\* One process at a time holds the lock: an owner judged dead is dead, one on
\* another host is never judged, and two reclaimers never undo each other's work.
MutualExclusion ==
  \A p, q \in Procs : pc[p] = "held" /\ pc[q] = "held" => p = q

\* The same of every guard, whatever its level: between taking it and giving it
\* back a process is the only one to judge the level below.
Judging(p, l) == lvl[p] = l /\ pc[p] \in {"read", "rm"}
OneJudge ==
  \A l \in Levels, p, q \in Procs : Judging(p, l) /\ Judging(q, l) => p = q

\* What is removed as stale is still the dead owner's file when it is removed:
\* nobody has replaced it since it was read.
RemovesWhatItJudged ==
  \A p \in Procs : pc[p] = "rm" =>
    lock[lvl[p] - 1] # NoFile /\ Stale(p, lock[lvl[p] - 1])

\* The holder's file stays: it is on disk with the holder's identity until the
\* holder itself gives the lock back or dies.
HolderOnDisk ==
  \A p \in Procs : pc[p] = "held" => lock[0] = Mine(p)

\* An abnormal exit never locks the home for good: an attempt that goes as far as
\* to judge an owner is refused only if it met another process at work, an owner
\* alive or on another host, or a file it could not read or remove.
Refused(p) == Trying(p) /\ lvl[p] > 0 /\ pc'[p] = "idle"
RefusedByTheLivingOnly == [][\A p \in Procs : Refused(p) => excused[p]]_mutexVars

\* The abstract lock: the owner is the process between its link at level 0 and
\* the rename that gives it back.
Holds(p) ==
  \/ pc[p] = "held"
  \/ lvl[p] = 0 /\ pc[p] \in {"relRead", "relMove"}
Owner == IF \E p \in Procs : Holds(p) THEN CHOOSE p \in Procs : Holds(p) ELSE NoFile
Abstract == INSTANCE IndexLock WITH owner <- Owner, NoOwner <- NoFile
ImplementsIndexLock == Abstract!Spec
=============================================================================
