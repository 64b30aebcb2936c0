---------------------------- MODULE IndexLockFile ----------------------------
(***************************************************************************)
(* The file backend of the index lock (acquireViaFile and the functions    *)
(* around it in gitnexus/src/storage/index-lock.ts).                       *)
(*                                                                         *)
(* Two names in the index directory carry the protocol: analyze.lock, the  *)
(* record of the owner, and analyze.lock.guard, which serialises every     *)
(* inspection, reclaim and creation of the first.  Each file operation of  *)
(* the code is a step of its own, because another process, a crash or an   *)
(* I/O error can come between any two of them.                             *)
(***************************************************************************)
EXTENDS Naturals

CONSTANTS
  Procs,          \* process slots; a slot is a pid
  HostOf,         \* the hostname a process writes into its record
  Denied,         \* processes the file system may refuse to let create files
  Unbounded,      \* processes whose timeoutMs is <= 0 (wait for ever)
  StartTimeKnown, \* /proc/<pid>/stat is readable (Linux)
  Faults,         \* the file operations that may fail, see FaultKinds
  MaxAttempts,    \* bound: acquisitions of each process slot
  MaxRestarts,    \* bound: times each pid is used again
  NoFile          \* a name that does not exist

FaultKinds ==
  {"writeGuard",  \* writing or closing the guard fails, or the write is short
   "writeMain",   \* the same for analyze.lock
   "readMain",    \* EIO and the like while inspecting analyze.lock
   "unlinkGuard", \* the guard cannot be read back or removed
   "unlinkMain",  \* analyze.lock cannot be removed
   "rereadMain",  \* an attempt cannot read back the analyze.lock it wrote
   "eperm"}       \* Windows: EPERM while an unlinked name is delete-pending

Records == [pid : Procs, start : Nat, attempt : Nat]
Files   == [rec : Records, written : BOOLEAN]

ASSUME ConstantsAssumption ==
  /\ Denied \subseteq Procs
  /\ Unbounded \subseteq Procs
  /\ StartTimeKnown \in BOOLEAN
  /\ Faults \subseteq FaultKinds
  /\ MaxAttempts \in [Procs -> Nat]
  /\ MaxRestarts \in [Procs -> Nat]

ASSUME NoFileAssumption == NoFile \notin Files /\ NoFile \notin Procs

VARIABLES
  lock,          \* analyze.lock: NoFile or the file some process created
  guard,         \* analyze.lock.guard
  pc,            \* where each process is in the protocol
  after,         \* what its try block decided, done once the guard is released
  attempt,       \* number of the attempt of each process: its token
  inc,           \* incarnation of each pid: its process start time
  timer,         \* the deadlines of the attempt
  staging        \* processes whose lbug.new / lbug.staging.* file exists

vars == <<lock, guard, pc, after, attempt, inc, timer, staging>>

-----------------------------------------------------------------------------
(* Control points.  "idle" is a live process without an attempt.           *)

Outside  == {"idle", "dead", "openGuard", "lstatLock", "lstatGuard", "lockfree"}
Guarded  == {"writeGuard", "readMain", "unlinkStale", "createMain",
             "unlinkMalformed", "writeMain", "verifyMain", "catchRead",
             "catchUnlink", "guardRead", "guardUnlink"}
Undoing  == {"undoRead", "undoUnlink"}
Owning   == {"sweep", "holding", "writing", "releaseRead", "releaseUnlink"}
Points   == Outside \cup Guarded \cup Undoing \cup Owning
Verdicts == {"hold", "wait", "retry", "fail", "refuse"}

\* "work": startedAt + timeoutMs; "guard": guardWaitSince + 30 s;
\* "perm": permissionWaitSince + 30 s; "grace": malformedSince + the grace.
\* "off" is a null or infinite deadline.
Timers == {"work", "guard", "perm", "grace"}
Deadlines == {"work", "guard", "perm"}

TypeOK ==
  /\ lock \in Files \cup {NoFile}
  /\ guard \in Files \cup {NoFile}
  /\ pc \in [Procs -> Points]
  /\ after \in [Procs -> Verdicts]
  /\ attempt \in [Procs -> Nat]
  /\ inc \in [Procs -> Nat]
  /\ timer \in [Procs -> [Timers -> {"off", "running", "over"}]]
  /\ staging \subseteq Procs

\* The record buildRecord made for this attempt.
Mine(p) == [pid |-> p, start |-> inc[p], attempt |-> attempt[p]]

\* The file a successful openSync(path, 'wx') of p leaves: empty until written.
Created(p) == [rec |-> Mine(p), written |-> FALSE]

\* readRecord(path) finds a record; an empty or partial file has none.
Readable(f) == f # NoFile /\ f.written

\* readRecord(path)?.token === me.token
HasToken(f, p) == Readable(f) /\ f.rec = Mine(p)

\* writeSync through p's descriptor reaches the file only while it is p's.
Filled(f, p) == IF f = Created(p) THEN [rec |-> Mine(p), written |-> TRUE] ELSE f

\* Mutants of isStale: a foreign pid, unknown here, is taken for a dead one; a
\* dead process for a live one.
isStale_AnyHost(rec, p) == HostOf[rec.pid] # HostOf[p] \/ pc[rec.pid] = "dead"
isStale_Never(rec, p) == StartTimeKnown /\ inc[rec.pid] # rec.start

\* Same host, and the process is gone or its pid belongs to another one.
isStale(rec, p) ==
  /\ HostOf[rec.pid] = HostOf[p]
  /\ \/ pc[rec.pid] = "dead"
     \/ StartTimeKnown /\ inc[rec.pid] # rec.start

\* Cancel the deadlines in off, start those in on that are not set.
Clock(p, off, on) ==
  [timer EXCEPT ![p] = [t \in Timers |->
     IF t \in off THEN "off"
     ELSE IF t \in on /\ @[t] = "off" THEN "running" ELSE @[t]]]

Over(p, t) == timer[p][t] = "over"

Goto(p, l) == pc' = [pc EXCEPT ![p] = l]

\* The try block ends with a verdict; its finally block releases the guard.
Conclude(p, v) ==
  /\ Goto(p, "guardRead")
  /\ after' = [after EXCEPT ![p] = v]

-----------------------------------------------------------------------------
Init ==
  /\ lock = NoFile
  /\ guard = NoFile
  /\ pc = [p \in Procs |-> "idle"]
  /\ after = [p \in Procs |-> "fail"]
  /\ attempt = [p \in Procs |-> 0]
  /\ inc = [p \in Procs |-> 0]
  /\ timer = [p \in Procs |-> [t \in Timers |-> "off"]]
  /\ staging = {}

(* acquireIndexLock: a fresh record, fresh deadlines.                      *)
Begin(p) ==
  /\ pc[p] = "idle"
  /\ attempt[p] < MaxAttempts[p]
  /\ Goto(p, "openGuard")
  /\ attempt' = [attempt EXCEPT ![p] = @ + 1]
  /\ timer' = [timer EXCEPT ![p] =
       [t \in Timers |-> IF t = "work" /\ p \notin Unbounded
                         THEN "running" ELSE "off"]]
  /\ UNCHANGED <<lock, guard, after, inc, staging>>

\* The test at the top of the loop: an EPERM is pending and its time is up.
PermissionSpent(p) ==
  timer[p]["perm"] # "off" /\ (Over(p, "perm") \/ Over(p, "work"))

PermissionGiveUp(p) ==
  /\ pc[p] = "openGuard"
  /\ PermissionSpent(p)
  /\ Goto(p, "idle")
  /\ UNCHANGED <<lock, guard, after, attempt, inc, timer, staging>>

\* Mutant of OpenGuard: the guard is opened without O_EXCL.
OpenGuard_NotExclusive(p) ==
  /\ pc[p] = "openGuard" /\ ~PermissionSpent(p)
  /\ guard' = Created(p)
  /\ timer' = Clock(p, {"guard"}, {})
  /\ Goto(p, "writeGuard")
  /\ UNCHANGED <<lock, after, attempt, inc, staging>>

OpenGuard(p) ==
  /\ pc[p] = "openGuard"
  /\ ~PermissionSpent(p)
  /\ guard = NoFile
  /\ guard' = Created(p)
  /\ timer' = Clock(p, {"guard"}, {})
  /\ Goto(p, "writeGuard")
  /\ UNCHANGED <<lock, after, attempt, inc, staging>>

\* Mutant of GuardBlocked: no deadline counts.
GuardBlocked_Forever(p) == FALSE

\* EEXIST (or a delete-pending EPERM): poll again, or time out.
GuardBlocked(p) ==
  /\ pc[p] = "openGuard"
  /\ ~PermissionSpent(p)
  /\ guard # NoFile \/ "eperm" \in Faults
  /\ IF \E t \in Deadlines : Over(p, t)
     THEN Goto(p, "idle") /\ UNCHANGED timer
     ELSE timer' = Clock(p, {}, {"guard"}) /\ UNCHANGED pc
  /\ UNCHANGED <<lock, guard, after, attempt, inc, staging>>

(* deniedCreateHandle: a handle that owns nothing, if both names are free. *)
OpenDenied(p) ==
  /\ pc[p] = "openGuard"
  /\ p \in Denied
  /\ Goto(p, "lstatLock")
  /\ UNCHANGED <<lock, guard, after, attempt, inc, timer, staging>>

LstatLock(p) ==
  /\ pc[p] = "lstatLock"
  /\ Goto(p, IF lock = NoFile THEN "lstatGuard" ELSE "idle")
  /\ UNCHANGED <<lock, guard, after, attempt, inc, timer, staging>>

LstatGuard(p) ==
  /\ pc[p] = "lstatGuard"
  /\ Goto(p, IF guard = NoFile THEN "lockfree" ELSE "idle")
  /\ UNCHANGED <<lock, guard, after, attempt, inc, timer, staging>>

\* Mutant of RefuseLockFree: the sweep also runs for a lockFree handle.
RefuseLockFree_Sweeps(p) ==
  /\ pc[p] = "lockfree"
  /\ staging' = {}
  /\ Goto(p, "idle")
  /\ UNCHANGED <<lock, guard, after, attempt, inc, timer>>

\* Every writer refuses a lockFree handle; nothing is swept, nothing released.
RefuseLockFree(p) ==
  /\ pc[p] = "lockfree"
  /\ Goto(p, "idle")
  /\ UNCHANGED <<lock, guard, after, attempt, inc, timer, staging>>

-----------------------------------------------------------------------------
(* Under the guard.                                                        *)

\* ok: readable; not ok and going on: a short write; not ok and giving up:
\* the write or the close threw.
WriteGuard(p) ==
  /\ pc[p] = "writeGuard"
  /\ \/ guard' = Filled(guard, p) /\ Goto(p, "readMain") /\ UNCHANGED after
     \/ /\ "writeGuard" \in Faults
        /\ UNCHANGED guard
        /\ \/ Goto(p, "readMain") /\ UNCHANGED after
           \/ Conclude(p, "fail")
  /\ UNCHANGED <<lock, attempt, inc, timer, staging>>

\* No record: absent or malformed, only an exclusive create can tell.
InspectNoRecord(p) ==
  /\ pc[p] = "readMain"
  /\ ~Readable(lock)
  /\ Goto(p, "createMain")
  /\ UNCHANGED <<lock, guard, after, attempt, inc, timer, staging>>

InspectStale(p) ==
  /\ pc[p] = "readMain"
  /\ Readable(lock) /\ isStale(lock.rec, p)
  /\ timer' = Clock(p, {"grace"}, {})
  /\ Goto(p, "unlinkStale")
  /\ UNCHANGED <<lock, guard, after, attempt, inc, staging>>

InspectLive(p) ==
  /\ pc[p] = "readMain"
  /\ Readable(lock) /\ ~isStale(lock.rec, p)
  /\ timer' = Clock(p, {"grace", "perm"}, {})
  /\ Conclude(p, "wait")
  /\ UNCHANGED <<lock, guard, attempt, inc, staging>>

UnlinkStale(p) ==
  /\ pc[p] = "unlinkStale"
  /\ lock' = NoFile
  /\ Goto(p, "createMain")
  /\ UNCHANGED <<guard, after, attempt, inc, timer, staging>>

CreateMain(p) ==
  /\ pc[p] = "createMain"
  /\ lock = NoFile
  /\ lock' = Created(p)
  /\ Goto(p, "writeMain")
  /\ UNCHANGED <<guard, after, attempt, inc, timer, staging>>

\* EEXIST: a readable record is a holder to wait for; an unreadable file is
\* left alone until it has been seen for the grace period, then removed, and
\* the create is left to the next round.
CreateConflict(p) ==
  /\ pc[p] = "createMain"
  /\ lock # NoFile
  /\ IF ~Readable(lock) /\ Over(p, "grace")
     THEN Goto(p, "unlinkMalformed") /\ UNCHANGED <<after, timer>>
     ELSE /\ Conclude(p, IF Readable(lock) THEN "wait" ELSE "retry")
          /\ timer' = Clock(p, {"perm"}, IF Readable(lock) THEN {} ELSE {"grace"})
  /\ UNCHANGED <<lock, guard, attempt, inc, staging>>

UnlinkMalformed(p) ==
  /\ pc[p] = "unlinkMalformed"
  /\ lock' = NoFile
  /\ timer' = Clock(p, {"grace", "perm"}, {})
  /\ Conclude(p, "retry")
  /\ UNCHANGED <<guard, attempt, inc, staging>>

Inspecting(p) == pc[p] \in {"readMain", "unlinkStale", "createMain", "unlinkMalformed"}

\* EPERM before the main file is ours: release the guard and poll again.
MainPending(p) ==
  /\ "eperm" \in Faults
  /\ Inspecting(p)
  /\ timer' = Clock(p, {}, {"perm"})
  /\ Conclude(p, IF Over(p, "perm") \/ Over(p, "work") THEN "fail" ELSE "retry")
  /\ UNCHANGED <<lock, guard, attempt, inc, staging>>

\* Any other error there refuses the attempt.
MainError(p) ==
  /\ "readMain" \in Faults
  /\ Inspecting(p)
  /\ Conclude(p, "fail")
  /\ UNCHANGED <<lock, guard, attempt, inc, timer, staging>>

\* A failing write or close throws with the record written or not; a short
\* write goes unnoticed until the verification.
WriteMain(p) ==
  /\ pc[p] = "writeMain"
  /\ \/ lock' = Filled(lock, p) /\ Goto(p, "verifyMain")
     \/ /\ "writeMain" \in Faults
        /\ \/ lock' \in {lock, Filled(lock, p)} /\ Goto(p, "catchRead")
           \/ UNCHANGED lock /\ Goto(p, "verifyMain")
  /\ UNCHANGED <<guard, after, attempt, inc, timer, staging>>

VerifyMain(p) ==
  /\ pc[p] = "verifyMain"
  /\ \/ HasToken(lock, p) /\ Conclude(p, "hold")
     \/ ~HasToken(lock, p) /\ Goto(p, "catchRead") /\ UNCHANGED after
  /\ UNCHANGED <<lock, guard, attempt, inc, timer, staging>>

\* readRecord throws instead: the verification fails, the catch block and the
\* rollback of a refused attempt do nothing, and a release ends silently.
RereadError(p) ==
  /\ "rereadMain" \in Faults
  /\ \/ pc[p] = "verifyMain" /\ Goto(p, "catchRead") /\ UNCHANGED after
     \/ pc[p] = "catchRead" /\ Conclude(p, "fail")
     \/ pc[p] \in {"undoRead", "releaseRead"} /\ Goto(p, "idle") /\ UNCHANGED after
  /\ UNCHANGED <<lock, guard, attempt, inc, timer, staging>>

\* The catch block: take back the record this attempt created.
CatchRead(p) ==
  /\ pc[p] = "catchRead"
  /\ IF HasToken(lock, p)
     THEN Goto(p, "catchUnlink") /\ UNCHANGED after
     ELSE Conclude(p, "fail")
  /\ UNCHANGED <<lock, guard, attempt, inc, timer, staging>>

\* unlinkSync(analyze.lock), which may fail.
UnlinkMain ==
  \/ lock' = NoFile
  \/ "unlinkMain" \in Faults /\ UNCHANGED lock

CatchUnlink(p) ==
  /\ pc[p] = "catchUnlink"
  /\ UnlinkMain
  /\ Conclude(p, "fail")
  /\ UNCHANGED <<guard, attempt, inc, timer, staging>>

-----------------------------------------------------------------------------
(* releaseAcquisitionGuard and what follows the try statement.             *)

\* Our record, or the unreadable file only we can have created: remove it, in
\* the second case to refuse the attempt.  Anything else: refuse at once.
GuardRead(p) ==
  /\ pc[p] = "guardRead"
  /\ IF HasToken(guard, p)
     THEN Goto(p, "guardUnlink") /\ UNCHANGED after
     ELSE /\ Goto(p, IF guard # NoFile /\ ~Readable(guard)
                     THEN "guardUnlink" ELSE "undoRead")
          /\ after' = [after EXCEPT ![p] = "refuse"]
  /\ UNCHANGED <<lock, guard, attempt, inc, timer, staging>>

\* Where an attempt goes once its guard is gone.
Resume(p) ==
  CASE after[p] = "hold" -> "sweep"
    [] after[p] = "refuse" -> "undoRead"
    [] after[p] = "fail" -> "idle"
    [] OTHER -> IF Over(p, "work") THEN "idle" ELSE "openGuard"

GuardUnlink(p) ==
  /\ pc[p] = "guardUnlink"
  /\ guard' = NoFile
  /\ Goto(p, Resume(p))
  /\ UNCHANGED <<lock, after, attempt, inc, timer, staging>>

\* Cleanup failed: nobody may start unprotected work on a record it left.
GuardUnlinkError(p) ==
  /\ pc[p] \in {"guardRead", "guardUnlink"}
  /\ "unlinkGuard" \in Faults
  /\ Goto(p, "undoRead")
  /\ UNCHANGED <<lock, guard, after, attempt, inc, timer, staging>>

\* Mutant of UndoRead: no rollback of the main record.
UndoRead_Skipped(p) ==
  /\ pc[p] = "undoRead"
  /\ Goto(p, "idle")
  /\ UNCHANGED <<lock, guard, after, attempt, inc, timer, staging>>

UndoRead(p) ==
  /\ pc[p] = "undoRead"
  /\ Goto(p, IF HasToken(lock, p) THEN "undoUnlink" ELSE "idle")
  /\ UNCHANGED <<lock, guard, after, attempt, inc, timer, staging>>

UndoUnlink(p) ==
  /\ pc[p] = "undoUnlink"
  /\ UnlinkMain
  /\ Goto(p, "idle")
  /\ UNCHANGED <<guard, after, attempt, inc, timer, staging>>

-----------------------------------------------------------------------------
(* The owner: sweep the orphans, build beside the live index, release.     *)

sweepStagingArtifacts(p) ==
  /\ pc[p] = "sweep"
  /\ staging' = {}
  /\ Goto(p, "holding")
  /\ UNCHANGED <<lock, guard, after, attempt, inc, timer>>

Stage(p) ==
  /\ pc[p] = "holding"
  /\ staging' = staging \cup {p}
  /\ Goto(p, "writing")
  /\ UNCHANGED <<lock, guard, after, attempt, inc, timer>>

Publish(p) ==
  /\ pc[p] = "writing"
  /\ staging' = staging \ {p}
  /\ Goto(p, "holding")
  /\ UNCHANGED <<lock, guard, after, attempt, inc, timer>>

Release(p) ==
  /\ pc[p] = "holding"
  /\ Goto(p, "releaseRead")
  /\ UNCHANGED <<lock, guard, after, attempt, inc, timer, staging>>

ReleaseRead(p) ==
  /\ pc[p] = "releaseRead"
  /\ Goto(p, IF HasToken(lock, p) THEN "releaseUnlink" ELSE "idle")
  /\ UNCHANGED <<lock, guard, after, attempt, inc, timer, staging>>

ReleaseUnlink(p) ==
  /\ pc[p] = "releaseUnlink"
  /\ UnlinkMain
  /\ Goto(p, "idle")
  /\ UNCHANGED <<guard, after, attempt, inc, timer, staging>>

-----------------------------------------------------------------------------
(* The world: time, crashes, pids used again, the operator.                *)

\* A deadline of an attempt that is under way passes.
Expire(p, t) ==
  /\ pc[p] \notin Owning \cup {"idle", "dead"}
  /\ timer[p][t] = "running"
  /\ timer' = [timer EXCEPT ![p][t] = "over"]
  /\ UNCHANGED <<lock, guard, pc, after, attempt, inc, staging>>

\* SIGKILL, OOM, power of the process lost: only the files remain.
Crash(p) ==
  /\ pc[p] # "dead"
  /\ Goto(p, "dead")
  /\ after' = [after EXCEPT ![p] = "fail"]
  /\ timer' = [timer EXCEPT ![p] = [t \in Timers |-> "off"]]
  /\ UNCHANGED <<lock, guard, attempt, inc, staging>>

\* A new process gets the pid of a dead one.
Restart(p) ==
  /\ pc[p] = "dead"
  /\ inc[p] < MaxRestarts[p]
  /\ inc' = [inc EXCEPT ![p] = @ + 1]
  /\ Goto(p, "idle")
  /\ UNCHANGED <<lock, guard, after, attempt, timer, staging>>

\* RUNBOOK: all writers stopped, the operator removes guard and lock.
Recover ==
  /\ \A p \in Procs : pc[p] = "dead"
  /\ guard # NoFile
  /\ guard' = NoFile
  /\ lock' = NoFile
  /\ UNCHANGED <<pc, after, attempt, inc, timer, staging>>

\* The code of p, without the decisions of its caller (Begin, Stage).
Step(p) ==
  \/ PermissionGiveUp(p) \/ OpenGuard(p) \/ GuardBlocked(p)
  \/ OpenDenied(p) \/ LstatLock(p) \/ LstatGuard(p) \/ RefuseLockFree(p)
  \/ WriteGuard(p) \/ InspectNoRecord(p) \/ InspectStale(p) \/ InspectLive(p)
  \/ UnlinkStale(p) \/ CreateMain(p) \/ CreateConflict(p) \/ UnlinkMalformed(p)
  \/ MainPending(p) \/ MainError(p)
  \/ WriteMain(p) \/ VerifyMain(p) \/ RereadError(p) \/ CatchRead(p) \/ CatchUnlink(p)
  \/ GuardRead(p) \/ GuardUnlink(p) \/ GuardUnlinkError(p)
  \/ UndoRead(p) \/ UndoUnlink(p)
  \/ sweepStagingArtifacts(p) \/ Publish(p) \/ Release(p)
  \/ ReleaseRead(p) \/ ReleaseUnlink(p)

Next ==
  \/ \E p \in Procs : \/ Begin(p) \/ Step(p) \/ Stage(p)
                      \/ Crash(p) \/ Restart(p)
                      \/ \E t \in Timers : Expire(p, t)
  \/ Recover

Spec == Init /\ [][Next]_vars
-----------------------------------------------------------------------------
(* Safety.                                                                 *)

\* index-lock.ts:4-10: the write path has an exclusive lock.  No two processes
\* are ever between the end of acquireIndexLock and the end of release.
MutualExclusion ==
  \A p, q \in Procs : pc[p] \in Owning /\ pc[q] \in Owning => p = q

\* A live owner's record stays on disk until its own release removes it: no
\* reclaim, no rollback and no unlink of a late release displaces it.
OwnerOnDisk ==
  \A p \in Procs : pc[p] \in Owning => HasToken(lock, p)

\* A reclaim or a rollback removes what it judged: an orphan found stale is
\* still an orphan when it is unlinked, a malformed file has not become
\* somebody's record, a token-exact unlink removes the token it read.
UnlinksWhatItJudged ==
  \A p \in Procs :
    /\ pc[p] = "unlinkStale" =>
         /\ Readable(lock)
         /\ \/ pc[lock.rec.pid] = "dead"
            \/ inc[lock.rec.pid] # lock.rec.start
    /\ pc[p] = "unlinkMalformed" => lock # NoFile /\ ~lock.written
    /\ pc[p] \in {"catchUnlink", "undoUnlink", "releaseUnlink"} => HasToken(lock, p)

\* The sweep after an acquisition deletes crash orphans only: the staging file
\* of a writer at work is never swept from under it.
StagingKept ==
  \A p \in Procs : pc[p] = "writing" => p \in staging

\* The guard is never stolen: it disappears only when the live attempt that
\* created it removes it, or when the operator has stopped every writer.
GuardNeverStolen ==
  [][guard # NoFile /\ guard' = NoFile =>
       LET p == guard.rec.pid IN
         \/ guard.rec = Mine(p) /\ pc[p] = "guardUnlink"
         \/ \A q \in Procs : pc[q] = "dead"]_vars

\* While the guard of a crashed process is in the way nobody acquires: the
\* protocol fails closed.
OrphanGuardFailsClosed ==
  [][\A p \in Procs : pc[p] \notin Owning /\ pc'[p] \in Owning =>
       guard # NoFile /\ guard.rec = Mine(p) /\ guard' = NoFile]_vars

\* An attempt that was refused or timed out, and a release, leave no record
\* behind that would keep every other process waiting for a live owner, as long
\* as they can read back and remove the one they wrote.
NothingLeaked ==
  \A p \in Procs : pc[p] \in Outside \ {"dead"} => ~HasToken(lock, p)

\* The protocol implements the lock it stands for.
Owner == IF \E p \in Procs : pc[p] \in Owning
         THEN CHOOSE p \in Procs : pc[p] \in Owning
         ELSE NoFile

Abstract == INSTANCE IndexLock WITH owner <- Owner, NoOwner <- NoFile

ImplementsIndexLock == Abstract!Spec

-----------------------------------------------------------------------------
(* Liveness.  A process that is scheduled takes its next step, and time    *)
(* passes; nobody has to call acquireIndexLock, to crash or to restart.    *)

Fairness ==
  \A p \in Procs : /\ WF_vars(Step(p))
                   /\ \A t \in Timers : WF_vars(Expire(p, t))

FairSpec == Spec /\ Fairness

Attempting(p) == pc[p] \in {"openGuard", "lstatLock", "lstatGuard"} \cup Guarded \cup Undoing

\* With a finite timeout every acquisition ends: owned, lockFree, refused or
\* timed out, whatever the others do and whatever a crash left behind.  Even
\* with an unbounded timeout nobody waits for a guard for ever.
AttemptEnds ==
  /\ \A p \in Procs \ Unbounded : Attempting(p) ~> ~Attempting(p)
  /\ \A p \in Procs : pc[p] = "openGuard" ~> pc[p] # "openGuard"

GuardOrphaned ==
  guard # NoFile /\ LET p == guard.rec.pid IN
                      guard.rec # Mine(p) \/ pc[p] \notin Guarded

\* The lock names p's slot and p is gone, or nobody will ever complete it.
LockOrphaned(p) ==
  /\ lock # NoFile /\ lock.rec.pid = p
  /\ pc[p] = "dead" \/ (~lock.written /\ pc[p] \notin Guarded)

\* What a crash or a failed write left in analyze.lock does not block a waiter
\* for ever: it is reclaimed, unless an orphan guard closes the directory.
OrphanReclaimed ==
  \A p, q \in Procs :
    HostOf[p] = HostOf[q] /\ Attempting(p) /\ LockOrphaned(q)
      ~> ~LockOrphaned(q) \/ GuardOrphaned \/ ~Attempting(p)
=============================================================================
