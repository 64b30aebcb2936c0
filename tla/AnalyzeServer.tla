---------------------------- MODULE AnalyzeServer ----------------------------
(***************************************************************************)
(* The HTTP server's jobs: analyze (a forked worker process, retried after *)
(* a crash, watched by a 30 minute timer), embed (a pipeline inside the    *)
(* server) and the deletion of a repository.  The three share one set of   *)
(* locked repositories (gitnexus/src/server/api.ts, analyze-launch.ts and  *)
(* analyze-job.ts).  A handler runs to its next await in one step.         *)
(***************************************************************************)
EXTENDS Naturals, Sequences

CONSTANTS
  Jobs,        \* ids the analyze JobManager hands out (bound)
  Embeds,      \* ids the embed JobManager hands out (bound)
  Repos,       \* validated storage paths, the keys of the repo lock
  MaxRetries,  \* MAX_WORKER_RETRIES
  MayCancel,   \* the cancel route is called and the 30 minutes may pass
  StrayErrors  \* a worker's uncaughtException handlers may report an error
               \* while its analysis goes on (500 ms until it exits)

ASSUME ConstantsAssumption ==
  /\ Jobs \cap Embeds = {}
  /\ MaxRetries \in Nat
  /\ MayCancel \in BOOLEAN
  /\ StrayErrors \in BOOLEAN

Ids == Jobs \cup Embeds

VARIABLES
  status,     \* AnalyzeJob.status; "none" before createJob
  target,     \* the repository of the job
  holds,      \* acquired the repo lock and has not released it (lockReleased)
  active,     \* activeRepoPaths
  deleting,   \* repositories a DELETE /api/repo handler is removing
  launch,     \* the asynchronous part of the analyze route
  worker,     \* the child process of the job
  ipc,        \* terminal messages of the child the parent has not handled
  ipcSeen,    \* terminalIpcSeen of the current child
  retryCount,
  retryTimer, \* setTimeout(forkWorker) is pending
  settle,     \* the finalization chain behind a complete message
  collapsed,  \* msg.result.graphWriteCollapsed
  published,  \* backend.init() has put this job's index into service
  cancelled,  \* history: the jobs that cancelJob failed
  strayed     \* history: the jobs whose worker reported an error and went on

jobVars == <<launch, worker, ipc, ipcSeen, retryCount, retryTimer, settle,
             collapsed, published>>
lockVars == <<holds, active>>
history == <<cancelled, strayed>>
vars == <<status, target, lockVars, deleting, jobVars, history>>

Messages == {"complete", "collapsed", "error"}

TypeOK ==
  /\ status \in [Ids -> {"none", "cloning", "analyzing", "complete", "failed"}]
  /\ target \in [Ids -> Repos]
  /\ holds \in [Ids -> BOOLEAN]
  /\ active \subseteq Repos
  /\ deleting \subseteq Repos
  /\ launch \in [Jobs -> {"none", "prepare", "launched"}]
  /\ worker \in [Jobs -> {"none", "unspawned", "working", "stray", "winding", "exited"}]
  /\ ipc \in [Jobs -> Seq(Messages)]
  /\ ipcSeen \in [Jobs -> BOOLEAN]
  /\ retryCount \in [Jobs -> 0..MaxRetries]
  /\ retryTimer \in [Jobs -> BOOLEAN]
  /\ settle \in [Jobs -> {"none", "wait", "evict", "init"}]
  /\ collapsed \in [Jobs -> BOOLEAN]
  /\ published \in [Jobs -> BOOLEAN]
  /\ cancelled \subseteq Ids
  /\ strayed \subseteq Jobs

Terminal(x) == status[x] \in {"complete", "failed"}
Running(x)  == status[x] \in {"cloning", "analyzing"}

Init ==
  /\ status = [x \in Ids |-> "none"]
  /\ target \in {[x \in Ids |-> r] : r \in Repos}
  /\ holds = [x \in Ids |-> FALSE]
  /\ active = {}
  /\ deleting = {}
  /\ launch = [j \in Jobs |-> "none"]
  /\ worker = [j \in Jobs |-> "none"]
  /\ ipc = [j \in Jobs |-> <<>>]
  /\ ipcSeen = [j \in Jobs |-> FALSE]
  /\ retryCount = [j \in Jobs |-> 0]
  /\ retryTimer = [j \in Jobs |-> FALSE]
  /\ settle = [j \in Jobs |-> "none"]
  /\ collapsed = [j \in Jobs |-> FALSE]
  /\ published = [j \in Jobs |-> FALSE]
  /\ cancelled = {}
  /\ strayed = {}

\* updateJob: a terminal job keeps its outcome.
updateJob(x, s) ==
  status' = IF Terminal(x) THEN status ELSE [status EXCEPT ![x] = s]

releaseLockOnce(x) ==
  /\ holds' = [holds EXCEPT ![x] = FALSE]
  /\ active' = IF holds[x] THEN active \ {target[x]} ELSE active

-----------------------------------------------------------------------------
(* POST /api/analyze.                                                      *)

\* createJob succeeds only when no job of the manager is active; the route
\* marks it cloning at once and goes on asynchronously.
CreateJob(j, r) ==
  /\ status[j] = "none"
  /\ \A k \in Jobs : ~Running(k)
  /\ status' = [status EXCEPT ![j] = "cloning"]
  /\ target' = [target EXCEPT ![j] = r]
  /\ launch' = [launch EXCEPT ![j] = "prepare"]
  /\ UNCHANGED <<lockVars, deleting, history, worker, ipc, ipcSeen, retryCount,
                 retryTimer, settle, collapsed, published>>

\* The clone or the validation of the storage path fails.
PrepareFails(j) ==
  /\ launch[j] = "prepare"
  /\ launch' = [launch EXCEPT ![j] = "launched"]
  /\ updateJob(j, "failed")
  /\ UNCHANGED <<target, lockVars, deleting, history, worker, ipc, ipcSeen, retryCount,
                 retryTimer, settle, collapsed, published>>

\* launchAnalysisWorker finds the repository locked.
LaunchRefused(j) ==
  /\ launch[j] = "prepare"
  /\ target[j] \in active
  /\ launch' = [launch EXCEPT ![j] = "launched"]
  /\ updateJob(j, "failed")
  /\ UNCHANGED <<target, lockVars, deleting, history, worker, ipc, ipcSeen, retryCount,
                 retryTimer, settle, collapsed, published>>

\* forkWorker: nothing for a terminal job, else a child, or a child whose
\* spawn failed (its error event is still to come).
forkWorker(j) ==
  /\ ipcSeen' = [ipcSeen EXCEPT ![j] = FALSE]
  /\ IF Terminal(j) THEN UNCHANGED worker
     ELSE \E w \in {"working", "unspawned"} : worker' = [worker EXCEPT ![j] = w]

Launch(j) ==
  /\ launch[j] = "prepare"
  /\ target[j] \notin active
  /\ launch' = [launch EXCEPT ![j] = "launched"]
  /\ active' = active \cup {target[j]}
  /\ holds' = [holds EXCEPT ![j] = TRUE]
  /\ updateJob(j, "analyzing")
  /\ forkWorker(j)
  /\ UNCHANGED <<target, deleting, history, ipc, retryCount, retryTimer, settle,
                 collapsed, published>>

\* fork itself throws: the lock is taken and dropped, the route reports.
LaunchThrows(j) ==
  /\ launch[j] = "prepare"
  /\ target[j] \notin active
  /\ ~Terminal(j)
  /\ launch' = [launch EXCEPT ![j] = "launched"]
  /\ updateJob(j, "failed")
  /\ UNCHANGED <<target, lockVars, deleting, history, worker, ipc, ipcSeen, retryCount,
                 retryTimer, settle, collapsed, published>>

-----------------------------------------------------------------------------
(* The worker process.  Progress messages change nothing modelled here.    *)

\* The analysis is over: one terminal message, then the process winds down.
WorkerReports(j, m) ==
  /\ worker[j] \in {"working", "stray"}
  /\ worker' = [worker EXCEPT ![j] = "winding"]
  /\ ipc' = [ipc EXCEPT ![j] = Append(@, m)]
  /\ UNCHANGED <<status, target, lockVars, deleting, history, launch, ipcSeen,
                 retryCount, retryTimer, settle, collapsed, published>>

\* An exception nobody caught is reported; the process exits 500 ms later.
WorkerStrays(j) ==
  /\ StrayErrors
  /\ worker[j] \in {"working", "winding"}
  /\ Len(ipc[j]) < 2
  /\ worker' = [worker EXCEPT ![j] = IF @ = "working" THEN "stray" ELSE @]
  /\ ipc' = [ipc EXCEPT ![j] = Append(@, "error")]
  /\ strayed' = strayed \cup {j}
  /\ UNCHANGED <<status, target, lockVars, deleting, cancelled, launch, ipcSeen,
                 retryCount, retryTimer, settle, collapsed, published>>

\* The end of the process, by itself, by a crash, or by SIGTERM.
WorkerExits(j) ==
  /\ worker[j] \in {"working", "stray", "winding"}
  /\ worker' = [worker EXCEPT ![j] = "exited"]
  /\ UNCHANGED <<status, target, lockVars, deleting, history, launch, ipc, ipcSeen,
                 retryCount, retryTimer, settle, collapsed, published>>

-----------------------------------------------------------------------------
(* The parent's handlers for its child.                                    *)

\* A message that comes after the job became terminal is ignored.
OnLateMessage(j) ==
  /\ ipc[j] # <<>>
  /\ Terminal(j)
  /\ ipc' = [ipc EXCEPT ![j] = Tail(@)]
  /\ UNCHANGED <<status, target, lockVars, deleting, history, launch, worker, ipcSeen,
                 retryCount, retryTimer, settle, collapsed, published>>

\* Mutant of OnComplete: the lock is dropped before the index has settled.
OnComplete_ReleasesEarly(j) ==
  /\ ipc[j] # <<>> /\ ~Terminal(j) /\ Head(ipc[j]) # "error"
  /\ ipc' = [ipc EXCEPT ![j] = Tail(@)]
  /\ ipcSeen' = [ipcSeen EXCEPT ![j] = TRUE]
  /\ collapsed' = [collapsed EXCEPT ![j] = Head(ipc[j]) = "collapsed"]
  /\ settle' = [settle EXCEPT ![j] = "wait"]
  /\ releaseLockOnce(j)
  /\ UNCHANGED <<status, target, deleting, history, launch, worker, retryCount,
                 retryTimer, published>>

\* complete: the outcome is open until the finalization chain has run.
OnComplete(j) ==
  /\ ipc[j] # <<>>
  /\ ~Terminal(j)
  /\ Head(ipc[j]) # "error"
  /\ ipc' = [ipc EXCEPT ![j] = Tail(@)]
  /\ ipcSeen' = [ipcSeen EXCEPT ![j] = TRUE]
  /\ collapsed' = [collapsed EXCEPT ![j] = Head(ipc[j]) = "collapsed"]
  /\ settle' = [settle EXCEPT ![j] = "wait"]
  /\ UNCHANGED <<status, target, lockVars, deleting, history, launch, worker,
                 retryCount, retryTimer, published>>

OnErrorMessage(j) ==
  /\ ipc[j] # <<>>
  /\ ~Terminal(j)
  /\ Head(ipc[j]) = "error"
  /\ ipc' = [ipc EXCEPT ![j] = Tail(@)]
  /\ ipcSeen' = [ipcSeen EXCEPT ![j] = TRUE]
  /\ releaseLockOnce(j)
  /\ updateJob(j, "failed")
  /\ UNCHANGED <<target, deleting, history, launch, worker, retryCount, retryTimer,
                 settle, collapsed, published>>

\* child 'error': the process could not be spawned.
OnSpawnError(j) ==
  /\ worker[j] = "unspawned"
  /\ worker' = [worker EXCEPT ![j] = "none"]
  /\ releaseLockOnce(j)
  /\ updateJob(j, "failed")
  /\ UNCHANGED <<target, deleting, history, launch, ipc, ipcSeen, retryCount,
                 retryTimer, settle, collapsed, published>>

\* Mutant of OnExit: the clean exit after a complete message is a crash.
OnExit_AnyExitIsACrash(j) ==
  /\ worker[j] = "exited" /\ ipc[j] = <<>>
  /\ worker' = [worker EXCEPT ![j] = "none"]
  /\ IF Terminal(j) THEN UNCHANGED <<retryCount, retryTimer, status, lockVars>>
     ELSE IF retryCount[j] < MaxRetries
     THEN /\ retryCount' = [retryCount EXCEPT ![j] = @ + 1]
          /\ retryTimer' = [retryTimer EXCEPT ![j] = TRUE]
          /\ UNCHANGED <<status, lockVars>>
     ELSE /\ releaseLockOnce(j) /\ updateJob(j, "failed")
          /\ UNCHANGED <<retryCount, retryTimer>>
  /\ UNCHANGED <<target, deleting, history, launch, ipc, ipcSeen, settle, collapsed, published>>

\* child 'exit', after the messages it sent: nothing to do for a terminal job
\* or one whose outcome the finalization chain decides; else a crash, to be
\* retried after a delay or given up.
OnExit(j) ==
  /\ worker[j] = "exited"
  /\ ipc[j] = <<>>
  /\ worker' = [worker EXCEPT ![j] = "none"]
  /\ \/ /\ Terminal(j) \/ ipcSeen[j]
        /\ UNCHANGED <<retryCount, retryTimer, status, lockVars>>
     \/ /\ ~Terminal(j) /\ ~ipcSeen[j]
        /\ retryCount[j] < MaxRetries
        /\ retryCount' = [retryCount EXCEPT ![j] = @ + 1]
        /\ retryTimer' = [retryTimer EXCEPT ![j] = TRUE]
        /\ UNCHANGED <<status, lockVars>>
     \/ /\ ~Terminal(j) /\ ~ipcSeen[j]
        /\ retryCount[j] = MaxRetries
        /\ releaseLockOnce(j)
        /\ updateJob(j, "failed")
        /\ UNCHANGED <<retryCount, retryTimer>>
  /\ UNCHANGED <<target, deleting, history, launch, ipc, ipcSeen, settle, collapsed, published>>

RetryFork(j) ==
  /\ retryTimer[j]
  /\ retryTimer' = [retryTimer EXCEPT ![j] = FALSE]
  /\ forkWorker(j)
  /\ UNCHANGED <<status, target, lockVars, deleting, history, launch, ipc, retryCount,
                 settle, collapsed, published>>

-----------------------------------------------------------------------------
(* The finalization chain; its finally block drops the lock.               *)

\* waitForSettledIndex says yes or times out.
Settled(j) ==
  /\ settle[j] = "wait"
  /\ settle' = [settle EXCEPT ![j] = "evict"]
  /\ UNCHANGED <<status, target, lockVars, deleting, history, launch, worker, ipc,
                 ipcSeen, retryCount, retryTimer, collapsed, published>>

\* Mutant of EndSettle: the lock is dropped on success only.
EndSettle_OnSuccess(j, s) ==
  /\ settle' = [settle EXCEPT ![j] = "none"]
  /\ IF s = "complete" THEN releaseLockOnce(j) ELSE UNCHANGED lockVars
  /\ updateJob(j, s)
  /\ UNCHANGED <<target, deleting, history, launch, worker, ipc, ipcSeen, retryCount,
                 retryTimer, collapsed>>

EndSettle(j, s) ==
  /\ settle' = [settle EXCEPT ![j] = "none"]
  /\ releaseLockOnce(j)
  /\ updateJob(j, s)
  /\ UNCHANGED <<target, deleting, history, launch, worker, ipc, ipcSeen, retryCount,
                 retryTimer, collapsed>>

SettleTimesOut(j) ==
  /\ settle[j] = "wait"
  /\ EndSettle(j, "failed")
  /\ UNCHANGED published

\* The server's handle is evicted; an incomplete index goes no further.
RefuseCollapsed(j) ==
  /\ settle[j] = "evict"
  /\ collapsed[j]
  /\ EndSettle(j, "failed")
  /\ UNCHANGED published

\* Mutant of StartInit: the index is published whatever its outcome.
StartInit_Always(j) ==
  /\ settle[j] = "evict"
  /\ settle' = [settle EXCEPT ![j] = "init"]
  /\ UNCHANGED <<status, target, lockVars, deleting, history, launch, worker, ipc,
                 ipcSeen, retryCount, retryTimer, collapsed, published>>

StartInit(j) ==
  /\ settle[j] = "evict"
  /\ ~collapsed[j]
  /\ settle' = [settle EXCEPT ![j] = "init"]
  /\ UNCHANGED <<status, target, lockVars, deleting, history, launch, worker, ipc,
                 ipcSeen, retryCount, retryTimer, collapsed, published>>

\* backend.init() publishes, and only then the job is complete.
InitSucceeds(j) ==
  /\ settle[j] = "init"
  /\ published' = [published EXCEPT ![j] = TRUE]
  /\ EndSettle(j, "complete")

InitFails(j) ==
  /\ settle[j] = "init"
  /\ EndSettle(j, "failed")
  /\ UNCHANGED published

-----------------------------------------------------------------------------
(* Cancellation.  cancelJob signals the child and fails the job; nothing   *)
(* else: the worker and the chains go on until they notice.                *)

cancelJob(x) ==
  /\ Running(x)
  /\ status' = [status EXCEPT ![x] = "failed"]
  /\ cancelled' = cancelled \cup {x}
  /\ UNCHANGED <<target, lockVars, deleting, jobVars, strayed>>

Cancel(x) == MayCancel /\ cancelJob(x)

\* Mutant of JobTimeout: no timer for the child.
JobTimeout_None(j) == FALSE

\* The timer set when the child was registered and cleared when it exits.
JobTimeout(j) ==
  /\ MayCancel
  /\ worker[j] # "none"
  /\ cancelJob(j)

-----------------------------------------------------------------------------
(* POST /api/embed and DELETE /api/repo.                                   *)

\* The lock first, then the job of the embed manager.
StartEmbed(e, r) ==
  /\ status[e] = "none"
  /\ r \notin active
  /\ \A f \in Embeds : ~Running(f)
  /\ active' = active \cup {r}
  /\ holds' = [holds EXCEPT ![e] = TRUE]
  /\ status' = [status EXCEPT ![e] = "analyzing"]
  /\ target' = [target EXCEPT ![e] = r]
  /\ UNCHANGED <<deleting, history, jobVars>>

\* createJob throws because another embed job is active: 409.  The lock was
\* already taken for r.
EmbedRefused(r) ==
  /\ r \notin active
  /\ \E f \in Embeds : Running(f)
  /\ active' = active \cup {r}
  /\ UNCHANGED <<status, target, holds, deleting, history, jobVars>>

\* The pipeline returns, throws, or was aborted; finally drops the lock.
EmbedEnds(e, s) ==
  /\ e \in Embeds
  /\ holds[e]
  /\ updateJob(e, s)
  /\ releaseLockOnce(e)
  /\ UNCHANGED <<target, deleting, history, jobVars>>

StartDelete(r) ==
  /\ r \notin active
  /\ active' = active \cup {r}
  /\ deleting' = deleting \cup {r}
  /\ UNCHANGED <<status, target, holds, jobVars, history>>

EndDelete(r) ==
  /\ r \in deleting
  /\ active' = active \ {r}
  /\ deleting' = deleting \ {r}
  /\ UNCHANGED <<status, target, holds, jobVars, history>>

-----------------------------------------------------------------------------
\* The clone and the validation end.
PrepareStep(j) ==
  PrepareFails(j) \/ LaunchRefused(j) \/ Launch(j) \/ LaunchThrows(j)

\* What the server does by itself once a job is launched: handlers, timers,
\* the finalization chain.
HandlerStep(j) ==
  \/ OnLateMessage(j) \/ OnComplete(j) \/ OnErrorMessage(j)
  \/ OnSpawnError(j) \/ OnExit(j) \/ RetryFork(j)
  \/ Settled(j) \/ SettleTimesOut(j) \/ RefuseCollapsed(j)
  \/ StartInit(j) \/ InitSucceeds(j) \/ InitFails(j)

WorkerStep(j) ==
  \/ \E m \in Messages : WorkerReports(j, m)
  \/ WorkerStrays(j) \/ WorkerExits(j)

Next ==
  \/ \E j \in Jobs : \/ \E r \in Repos : CreateJob(j, r)
                     \/ PrepareStep(j) \/ HandlerStep(j)
                     \/ WorkerStep(j) \/ JobTimeout(j)
  \/ \E x \in Ids : Cancel(x)
  \/ \E e \in Embeds : \/ \E r \in Repos : StartEmbed(e, r)
                       \/ \E s \in {"complete", "failed"} : EmbedEnds(e, s)
  \/ \E r \in Repos : EmbedRefused(r) \/ StartDelete(r) \/ EndDelete(r)

Spec == Init /\ [][Next]_vars

\* The event loop runs handlers that are due and timers that have expired;
\* nothing is assumed of the worker and the clone, which may hang, nor of any
\* client.
Fairness ==
  \A j \in Jobs : WF_vars(HandlerStep(j)) /\ WF_vars(JobTimeout(j))

FairSpec == Spec /\ Fairness
-----------------------------------------------------------------------------
(* Safety.                                                                 *)

\* x works on the files of its repository, or decides about them.
Uses(x) ==
  IF x \in Jobs THEN worker[x] \in {"working", "stray"} \/ settle[x] # "none"
                ELSE holds[x]

\* api.ts:972-973: the repo lock prevents concurrent analyze + embed on the
\* same repository, which would corrupt LadybugDB; nor is a repository deleted
\* under a worker, a finalization chain or a pipeline.  Jobs whose worker
\* reported an error and went on are left out: their lock is given back early.
NoOverlap ==
  LET users == {x \in Ids \ strayed : Uses(x)} IN
  /\ \A x, y \in users : target[x] = target[y] => x = y
  /\ \A x \in users : target[x] \notin deleting

\* A release takes away its own lock only: whoever holds a repository finds it
\* locked until its own release, whatever late event of an older job comes in.
HoldersListed ==
  /\ \A x \in Ids : holds[x] => target[x] \in active
  /\ deleting \subseteq active

\* A worker that reported complete is never taken for a crashed one: no second
\* worker runs, or is scheduled, while its index is being finalized.
NoRetryOfASuccess ==
  \A j \in Jobs : settle[j] # "none" =>
    worker[j] \in {"none", "winding", "exited"} /\ ~retryTimer[j]

\* A client that reads complete can query the index, and an index known to be
\* incomplete is never put into service.
PublishDecision ==
  \A j \in Jobs : /\ status[j] = "complete" => published[j]
                  /\ published[j] => ~collapsed[j]

\* Nothing of j's launch is left that could still change anything.
Quiet(j) ==
  launch[j] = "launched" /\ worker[j] = "none" /\ ~retryTimer[j] /\ settle[j] = "none"

\* analyze-launch.ts:209 "One launch, one release".
LaunchReleases ==
  \A j \in Jobs : Quiet(j) => ~holds[j]

\* The same on every path but cancellation: through errors, crashes, retries,
\* a failed spawn and every end of the finalization chain.
ReleasedUnlessCancelled ==
  \A j \in Jobs : Quiet(j) /\ holds[j] => j \in cancelled

\* api.ts:978: a request is refused because "another job is already active
\* for this repository", so somebody is.
RefusalIsTrue ==
  \A r \in active : r \in deleting \/ \E x \in Ids : holds[x] /\ target[x] = r

-----------------------------------------------------------------------------
(* Liveness.                                                               *)

\* Every launched job reaches an outcome, also when its worker hangs or keeps
\* crashing.  (The timer starts with the worker: a clone has no deadline.)
JobEnds ==
  \A j \in Jobs : launch[j] = "launched" /\ Running(j) ~> Terminal(j)
=============================================================================
