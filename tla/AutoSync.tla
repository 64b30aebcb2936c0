------------------------------ MODULE AutoSync ------------------------------
(***************************************************************************)
(* Automatic sync: the watch process of gitnexus/src/core/auto-sync/       *)
(* starter.ts, its periodic run (runner.ts), the workers it forks          *)
(* (analysis-worker-launch.ts) and the state it keeps (state.ts).          *)
(*                                                                         *)
(* A run pulls every repository, has changed ones analysed by a worker     *)
(* each, records the outcome in the state file and then synchronises the   *)
(* group.  The watch holds the mutex of FileLock from start to stop, so    *)
(* there is one watch; a crash releases it, and nothing else.              *)
(***************************************************************************)
EXTENDS Naturals

CONSTANTS
  Repos,      \* configured repositories, all of one group
  Threshold,  \* analyze_failure_threshold
  Faults,     \* what may go wrong beside analyses, see FaultKinds
  MaxCommits, \* bound: commits of a remote; 0 stands for none
  MaxExits    \* bound: times the watch is stopped or dies

FaultKinds ==
  {"pull", "register", "membership", "groupSync", "crash"}

ASSUME ConstantsAssumption ==
  /\ Threshold \in Nat \ {0, 1}
  /\ Faults \subseteq FaultKinds
  /\ MaxCommits \in Nat \ {0}
  /\ MaxExits \in Nat

Commits  == 0 .. MaxCommits
Statuses == {"none", "success", "failed", "skipped", "threshold_skipped"}
Entries  == [code : Commits, analyzed : Commits, status : Statuses,
             failures : 0 .. Threshold, pending : BOOLEAN]
NoEntry  == [code |-> 0, analyzed |-> 0, status |-> "none",
             failures |-> 0, pending |-> FALSE]

VARIABLES
  remote,  \* the commit at the head of each remote
  head,    \* the commit each clone has checked out
  index,   \* the commit each repository's index was built from
  holder,  \* the commit an orphaned worker builds under the index lock
  waiter,  \* the commit an orphaned worker saw before it waits for the lock
  member,  \* repositories listed in the group's file
  view,    \* the commit of each repository the group was last synchronised with
  disk,    \* auto-sync-state.json
  watch,   \* the watch process: "off", "on" or "stopping"
  phase,   \* where the active run is; "none" without one
  step,    \* where the run is with each repository
  mem,     \* the run's copy of the state, with the outcomes so far
  due,     \* repositories whose group has to be synchronised
  exits    \* times the watch has stopped or died

orphans == <<holder, waiter>>
world == <<remote, head, index, orphans, member, view>>
vars == <<world, disk, watch, phase, step, mem, due, exits>>

Phases == {"none", "repos", "collect", "save", "group", "resave"}
Steps  == {"todo", "work", "reported", "cancelling", "unsynced", "synced", "collected"}

Init ==
  /\ remote = [r \in Repos |-> 1]
  /\ head = [r \in Repos |-> 0]
  /\ index = [r \in Repos |-> 0]
  /\ holder = [r \in Repos |-> 0]
  /\ waiter = [r \in Repos |-> 0]
  /\ member = {}
  /\ view = [r \in Repos |-> 0]
  /\ disk = [r \in Repos |-> NoEntry]
  /\ watch = "off"
  /\ phase = "none"
  /\ step = [r \in Repos |-> "todo"]
  /\ mem = disk
  /\ due = {}
  /\ exits = 0

NoRun ==
  /\ phase' = "none"
  /\ step' = [r \in Repos |-> "todo"]
  /\ mem' = [r \in Repos |-> NoEntry]
  /\ due' = {}

-----------------------------------------------------------------------------
(* startAutoSyncWatch: the process, its timer and its end.                 *)

Start ==
  /\ watch = "off"
  /\ watch' = "on"
  /\ UNCHANGED <<world, disk, phase, step, mem, due, exits>>

\* runSafely: the first run, and one per interval unless one is active.
BeginRun ==
  /\ watch = "on"
  /\ phase = "none"
  /\ phase' = "repos"
  /\ mem' = disk
  /\ UNCHANGED <<world, disk, watch, step, due, exits>>

Working(r) == step[r] \in {"work", "reported", "cancelling"}

\* stop: no more runs, and the active one is aborted, its workers at once.
Stop ==
  /\ watch = "on"
  /\ exits < MaxExits
  /\ watch' = "stopping"
  /\ exits' = exits + 1
  /\ step' = [r \in Repos |-> IF Working(r) THEN "cancelling" ELSE step[r]]
  /\ UNCHANGED <<world, disk, phase, mem, due>>

\* The run has settled: the watch's files go, and the mutex last.
Stopped ==
  /\ watch = "stopping"
  /\ phase = "none"
  /\ watch' = "off"
  /\ UNCHANGED <<world, disk, phase, step, mem, due, exits>>

\* A worker nobody waits for: of two of one repository, one is followed.
Orphaned(w, c) == IF w = 0 THEN {c} ELSE {w, c}

\* What the worker of r may be once its parent lets it go; one that has reported
\* only has to exit.
LetGo(r) ==
  IF step[r] \in {"work", "cancelling"} THEN Orphaned(waiter[r], mem[r].code)
  ELSE {waiter[r]}

\* The process dies; a worker it had forked goes on without a parent.
Crash ==
  /\ "crash" \in Faults
  /\ watch # "off"
  /\ exits < MaxExits
  /\ watch' = "off"
  /\ exits' = exits + 1
  /\ waiter' \in [Repos -> Commits]
  /\ \A r \in Repos : waiter'[r] \in LetGo(r)
  /\ NoRun
  /\ UNCHANGED <<remote, head, index, holder, member, view, disk>>

\* gitnexus auto-sync reset, which needs the mutex.
Reset ==
  /\ watch = "off"
  /\ disk' = [r \in Repos |-> NoEntry]
  /\ UNCHANGED <<world, watch, phase, step, mem, due, exits>>

-----------------------------------------------------------------------------
(* A run and one repository: pull, decide, analyse.                        *)

Aborted == watch = "stopping"
To(r, s) == step' = [step EXCEPT ![r] = s]

\* Mutant of Refreshed: the count is not of one commit.
Refreshed_KeepsCount(e, c) == [e EXCEPT !.code = c]

\* The entry once the checkout is at c: the failures counted are c's.
Refreshed(e, c) ==
  [e EXCEPT !.code = c, !.failures = IF e.code \in {0, c} THEN @ ELSE 0]

shouldAnalyzeCommit(e) == e.status = "failed" \/ e.code # e.analyzed

Blocked(e) == e.failures >= Threshold

\* No branch can be pulled, or git fails, before or after the checkout: the
\* entry is left as it was.
PullFails(r) ==
  /\ phase = "repos" /\ step[r] = "todo"
  /\ "pull" \in Faults
  /\ \E c \in {head[r], remote[r]} : head' = [head EXCEPT ![r] = c]
  /\ To(r, "unsynced")
  /\ UNCHANGED <<remote, index, orphans, member, view,
                 disk, watch, phase, mem, due, exits>>

Pull(r) ==
  /\ phase = "repos" /\ step[r] = "todo" /\ ~Aborted
  /\ head' = [head EXCEPT ![r] = remote[r]]
  /\ LET e == Refreshed(mem[r], remote[r])
         decide(s, to) == To(r, s) /\ mem' = [mem EXCEPT ![r] = to]
     IN \/ Blocked(e) /\ decide("synced", [e EXCEPT !.status = "threshold_skipped"])
        \/ ~Blocked(e) /\ shouldAnalyzeCommit(e) /\ decide("work", e)
        \/ /\ ~Blocked(e) /\ ~shouldAnalyzeCommit(e)
           /\ decide("synced", [e EXCEPT !.status = "skipped"])
  /\ UNCHANGED <<remote, index, orphans, member, view,
                 disk, watch, phase, due, exits>>

\* Mutant of Failed: every failure is the first.
Failed_First(e) == [e EXCEPT !.status = "failed", !.failures = 1]

Failed(e) == [e EXCEPT !.status = "failed", !.failures = @ + 1]
Analyzed(e) ==
  [e EXCEPT !.status = "success", !.failures = 0, !.analyzed = e.code]

\* The worker has the index lock, builds the index and says so, which ends its
\* timeout, unless cancellation was asked for before: then it is not listened to.
WorkerReports(r) ==
  /\ step[r] \in {"work", "cancelling"}
  /\ holder[r] = 0
  /\ index' = [index EXCEPT ![r] = head[r]]
  /\ To(r, IF step[r] = "work" THEN "reported" ELSE "cancelling")
  /\ UNCHANGED <<remote, head, orphans, member, view,
                 disk, watch, phase, mem, due, exits>>

\* It exits, and that settles the outcome.
WorkerSucceeds(r) ==
  /\ step[r] = "reported"
  /\ To(r, "synced")
  /\ mem' = [mem EXCEPT ![r] = Analyzed(@)]
  /\ UNCHANGED <<world, disk, watch, phase, due, exits>>

\* It reports an error and exits, dies, or exits at a safe point.
WorkerFails(r) ==
  /\ step[r] \in {"work", "cancelling"}
  /\ To(r, "synced")
  /\ mem' = [mem EXCEPT ![r] = Failed(@)]
  /\ UNCHANGED <<world, disk, watch, phase, due, exits>>

\* The wait for the worker is over, and it is left running.
LeftRunning(r) ==
  /\ \E c \in LetGo(r) : waiter' = [waiter EXCEPT ![r] = c]
  /\ To(r, "synced")
  /\ mem' = [mem EXCEPT ![r] = Failed(@)]
  /\ UNCHANGED <<remote, head, index, holder, member, view,
                 disk, watch, phase, due, exits>>

\* An error of its channel settles at once.
ChannelFails(r) == Working(r) /\ LeftRunning(r)

\* The analysis timeout: the worker is asked to cancel.
RequestCancellation(r) ==
  /\ step[r] = "work"
  /\ To(r, "cancelling")
  /\ UNCHANGED <<world, disk, watch, phase, mem, due, exits>>

\* Mutant of GraceOver: the parent waits for the worker however long it takes.
GraceOver_Never(r) == FALSE

\* The worker has not exited within the grace.
GraceOver(r) == step[r] = "cancelling" /\ LeftRunning(r)

\* Mutant of BuiltBy: the commit seen before the wait.
BuiltBy_BeforeWait(r) == waiter[r]

\* runFullAnalysis: the commit is read again under the lock.
BuiltBy(r) == head[r]

\* What was left running gets the index lock,
OrphanLocks(r) ==
  /\ waiter[r] # 0
  /\ holder[r] = 0
  /\ holder' = [holder EXCEPT ![r] = BuiltBy(r)]
  /\ waiter' = [waiter EXCEPT ![r] = 0]
  /\ UNCHANGED <<remote, head, index, member, view,
                 disk, watch, phase, step, mem, due, exits>>

\* and ends, with or without an index; or it gives up waiting.
OrphanEnds(r) ==
  /\ holder[r] # 0
  /\ \E c \in {holder[r], index[r]} : index' = [index EXCEPT ![r] = c]
  /\ holder' = [holder EXCEPT ![r] = 0]
  /\ UNCHANGED <<remote, head, waiter, member, view,
                 disk, watch, phase, step, mem, due, exits>>

OrphanGivesUp(r) ==
  /\ waiter[r] # 0
  /\ waiter' = [waiter EXCEPT ![r] = 0]
  /\ UNCHANGED <<remote, head, index, holder, member, view,
                 disk, watch, phase, step, mem, due, exits>>

\* mapWithConcurrency settles every repository first; an aborted run saves
\* nothing.
EndRepos ==
  /\ phase = "repos"
  /\ \A r \in Repos : ~Working(r)
  /\ IF Aborted
     THEN NoRun
     ELSE /\ \A r \in Repos : step[r] # "todo"
          /\ phase' = "collect"
          /\ UNCHANGED <<step, mem, due>>
  /\ UNCHANGED <<world, disk, watch, exits>>

-----------------------------------------------------------------------------
(* Registration, membership, the state file and the group.                 *)

\* Mutant of SyncDue: a pending synchronisation is forgotten.
SyncDue_NotPending(e, joined) ==
  e.status = "success" \/ (e.status = "skipped" /\ joined)

SyncDue(e, joined) ==
  e.status = "success" \/ (e.status = "skipped" /\ (joined \/ e.pending))

\* A success that cannot be registered is a failure, the first of a new count.
Unregistered(e) == [Failed(e) EXCEPT !.analyzed = 0]

\* One repository's result: registered if it was analysed, and made a member.
Collect(r, registers, joins) ==
  /\ phase = "collect"
  /\ step[r] = "synced"
  /\ registers \/ "register" \in Faults
  /\ joins \/ "membership" \in Faults
  /\ To(r, "collected")
  /\ LET e == IF mem[r].status = "success" /\ ~registers
              THEN Unregistered(mem[r]) ELSE mem[r]
     IN /\ mem' = [mem EXCEPT ![r] = e]
        /\ member' = member \cup (IF joins THEN {r} ELSE {})
        /\ due' = due \cup
             (IF joins /\ SyncDue(e, r \notin member) THEN {r} ELSE {})
  /\ UNCHANGED <<remote, head, index, orphans, view, disk, watch, phase, exits>>

\* A repository that could not be synced is only reported.
CollectUnsynced(r) ==
  /\ phase = "collect"
  /\ step[r] = "unsynced"
  /\ To(r, "collected")
  /\ UNCHANGED <<world, disk, watch, phase, mem, due, exits>>

EndCollect ==
  /\ phase = "collect"
  /\ \A r \in Repos : step[r] = "collected"
  /\ phase' = "save"
  /\ UNCHANGED <<world, disk, watch, step, mem, due, exits>>

Save ==
  /\ phase = "save"
  /\ disk' = mem
  /\ IF due = {} THEN NoRun ELSE phase' = "group" /\ UNCHANGED <<step, mem, due>>
  /\ UNCHANGED <<world, watch, exits>>

\* The outcome for the repositories that asked; saved only when it is new.
Noted(pending) ==
  /\ mem' = [r \in Repos |->
       IF r \in due THEN [mem[r] EXCEPT !.pending = pending] ELSE mem[r]]
  /\ phase' = "resave"
  /\ UNCHANGED <<step, due>>

\* Every member is read anew.
SyncGroup ==
  /\ phase = "group"
  /\ view' = [r \in Repos |-> IF r \in member THEN index[r] ELSE view[r]]
  /\ IF \E r \in due : mem[r].pending THEN Noted(FALSE) ELSE NoRun
  /\ UNCHANGED <<remote, head, index, orphans, member, disk, watch, exits>>

SyncGroupFails ==
  /\ phase = "group"
  /\ "groupSync" \in Faults
  /\ IF \E r \in due : ~mem[r].pending THEN Noted(TRUE) ELSE NoRun
  /\ UNCHANGED <<world, disk, watch, exits>>

\* The second save, and the end of the run.
Resave ==
  /\ phase = "resave"
  /\ disk' = mem
  /\ NoRun
  /\ UNCHANGED <<world, watch, exits>>

\* Somebody pushes.
Push(r) ==
  /\ remote[r] < MaxCommits
  /\ remote' = [remote EXCEPT ![r] = @ + 1]
  /\ UNCHANGED <<head, index, orphans, member, view, disk,
                 watch, phase, step, mem, due, exits>>

\* What the watch's process does, with its timers but without its workers.
WatchStep ==
  \/ Start \/ BeginRun \/ Stopped
  \/ EndRepos \/ EndCollect \/ Save \/ SyncGroup \/ SyncGroupFails \/ Resave
  \/ \E r \in Repos :
       \/ PullFails(r) \/ Pull(r) \/ RequestCancellation(r) \/ GraceOver(r)
       \/ CollectUnsynced(r)
       \/ \E registers, joins \in BOOLEAN : Collect(r, registers, joins)

Next ==
  \/ WatchStep
  \/ Stop \/ Crash \/ Reset
  \/ \E r \in Repos :
       \/ WorkerReports(r) \/ WorkerSucceeds(r) \/ WorkerFails(r) \/ ChannelFails(r)
       \/ Push(r)
       \/ OrphanLocks(r) \/ OrphanEnds(r) \/ OrphanGivesUp(r)

Spec == Init /\ [][Next]_vars

\* The watch goes on, somebody starts it again after it ended, and what fails
\* on the network or the disk does not fail for ever.  A worker exits half a second
\* after its report; until then it may hang in native code.
FairSpec ==
  /\ Spec
  /\ WF_vars(WatchStep)
  /\ SF_vars(SyncGroup)
  /\ \A r \in Repos :
       /\ WF_vars(WorkerSucceeds(r))
       /\ SF_vars(Pull(r))
       /\ SF_vars(mem[r].status = "success" /\ Collect(r, TRUE, TRUE))
       /\ SF_vars(mem[r].status = "skipped" /\ Collect(r, TRUE, TRUE))

-----------------------------------------------------------------------------

\* Variables hold values of their types; a count never exceeds the threshold.
TypeOK ==
  /\ remote \in [Repos -> Commits]
  /\ head \in [Repos -> Commits]
  /\ index \in [Repos -> Commits]
  /\ holder \in [Repos -> Commits]
  /\ waiter \in [Repos -> Commits]
  /\ member \subseteq Repos
  /\ view \in [Repos -> Commits]
  /\ disk \in [Repos -> Entries]
  /\ watch \in {"off", "on", "stopping"}
  /\ phase \in Phases
  /\ step \in [Repos -> Steps]
  /\ mem \in [Repos -> Entries]
  /\ due \subseteq Repos
  /\ exits \in 0 .. MaxExits

\* A commit the state file gives as analysed is in the index, or a later one:
\* shouldAnalyzeCommit would never ask for it again.  Workers that outlived
\* their timeout or their parent still write the index, so this rests on
\* runFullAnalysis reading the commit again once it has the lock.
RecordedIsIndexed == \A r \in Repos : disk[r].analyzed <= index[r]

\* The invariant of a run: nothing is recorded as analysed that is not.
Inv == TypeOK /\ RecordedIsIndexed

\* A repository paused by analyze_failure_threshold is not paused at the next
\* commit: what a run records of a new commit is never that it was skipped
\* for the failures of another.
NewCommitUnblocks ==
  [][\A r \in Repos : disk'[r].code # disk[r].code
       => disk'[r].status # "threshold_skipped"]_vars

\* Failures of one commit, one run after the other, add up towards the pause.
FailuresAddUp ==
  [][\A r \in Repos :
       (/\ disk[r].status = "failed" /\ disk'[r].status = "failed"
        /\ disk'[r].code = disk[r].code /\ disk' # disk /\ phase = "save"
        /\ step[r] = "collected" /\ mem[r] # disk[r])
       => disk'[r].failures > disk[r].failures]_vars

\* auto-sync stop ends, whatever the workers do: the parent waits for one no
\* longer than the grace.
StopEnds == watch = "stopping" ~> watch = "off"

\* Every repository ends with its last commit indexed, or paused at it.
IndexFollows ==
  \A r \in Repos : <>[](\/ index[r] = remote[r]
                        \/ disk[r].code = remote[r] /\ Blocked(disk[r]))

\* A group synchronisation that failed is made up for, unless the repository
\* is paused.
PendingResolved ==
  \A r \in Repos : disk[r].pending ~> (~disk[r].pending \/ Blocked(disk[r]))
=============================================================================
