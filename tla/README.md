# GitNexus in TLA+

GitNexus indexes source repositories into a graph database and serves queries
over the graph to people and agents. Most of its code transforms data; what can
go wrong in ways a test would hardly reach is how processes, workers, timers and
files share the index. This directory models that part, checks it with TLC on
small instances and proves the main safety properties for all instances with
TLAPS. Paths below are relative to `src/gitnexus/src/` unless they start with
`src/`.

Contents: [The system](#the-system), [What is hard](#what-is-hard),
[Modules](#modules), [Runs](#runs), [Proofs](#proofs), [Findings](#findings),
[Not modelled](#not-modelled), [Plan](#plan).

## The system

### Inventory

| component | state | operations | correct when |
|---|---|---|---|
| **Index lock** `storage/index-lock.ts` | `analyze.lock` and `analyze.lock.guard` in the index directory, or a kernel endpoint named after it; deadlines of each attempt | acquire (both backends), reclaim a stale owner, release, sweep the staging files | one live writer per directory; a live owner is never reclaimed; a dead one is; a crash inside the guard closes the directory instead of opening it |
| **Server jobs** `server/api.ts`, `analyze-launch.ts`, `analyze-job.ts`, `analyze-worker*.ts` | job records, `activeRepoPaths`, a child process and its messages, retry timer, finalization chain | analyze, cancel, embed, delete routes; IPC, exit and timer handlers | no two jobs touch one repository; each gives its lock back; a client that reads `complete` can query; a broken index is never served; every launched job ends |
| **Circuit breaker, resilient fetch** `src/gitnexus-shared/src/integrations/` | state, failure count, trip time, half-open permit | check, record success, failure, neutral; attempts with back-off | trips at the threshold, recovers after the cooldown, never keeps the permit |
| **Worker pool** `core/ingestion/workers/` | job queue, slots with their workers, respawn and failure counts, quarantine | start, dispatch, worker messages, idle timeout, death and respawn, trip, terminate | every file is parsed, quarantined or reported; the dispatch always settles |
| **Connection pool** `core/lbug/pool-adapter.ts` | entries with connections and waiters, shared databases with reference counts, LRU, a promise mutex | init, checkout, checkin, evict, close, idle timer | a database in use is not closed by the pool itself; no connection is lost or shared |
| **Database adapter, recovery** `core/lbug/` | database file, WAL and other sidecars | open, checkpoint, quarantine, close | a crash leaves an index that opens or is rebuilt |
| **Analysis run** `core/run-analyze.ts`, `core/embedding-checkpoint.ts` | live and staging database, metadata with the dirty flag and the embedding marker | up-to-date checks, full or incremental write, embedding, swap, resume | metadata that is not dirty is true of the database; embeddings survive; a crash is repaired by the next run |
| **Automatic sync** `core/auto-sync/`, `storage/file-lock.ts` | mutex file, state file, workers, the active run | start, stop, tick, sync of repositories and groups | one watcher; what is recorded is indexed; pending work is not forgotten |
| **Analyze watch** `cli/analyze-watch.ts`, `cli/watch-queue.ts` | file watcher, queue of paths, rules and options in use | edit, debounce, refresh, reload, re-arm, retry, stop | every edit comes to the index; the watch ends and leaves nothing open |
| **Groups, bridge database** `core/group/` | group lock, registry, bridge file, its metadata; the server's cached handle | sync, write, cached read | a reader pairs database and metadata of one write; a handle in use is open and current |
| **Registry, metadata** `storage/repo-manager.ts`, `repo-meta.ts` | registry file, `meta.json` | read-change-write under a lock | no registration is lost |
| **Pipeline** `core/ingestion/pipeline-phases/` | phase graph, results | run in dependency order | each phase after its dependencies |
| **Resolution algorithms** `core/ingestion/` | none | C3, reaching definitions, import cycles, call resolution | agree with their definitions |
| **Search, MCP, CLI, web, evaluation** | none shared, or through the components above | queries, output, user interface | (data transformations and I/O) |

### How they interact

A writer of an index (the command line, the server's worker process, automatic
sync, `analyze --watch`) goes through the *analysis run*, which owns the *index lock* of
the directory while it writes. The lock is between processes. Inside the
*server* there is a second, finer one: `activeRepoPaths`, a set of repositories
shared by the analyze, embed and delete routes. An analyze job forks a worker
process that takes the index lock itself, reports over IPC, and exits; the
server then waits for the index to settle, evicts its own database handles from
the *connection pool* and publishes. The analysis run hands parsing to the
*worker pool* (threads), and calls model endpoints through *resilientFetch*, whose
*circuit breaker* is shared by all calls with one key. *Automatic sync* is one
process per home, held to that by the *file lock*; it forks a worker per changed
repository, whose analysis again takes the index lock, and then synchronises the
repository's *group*: a group lock (a client of the index lock) around the
contract registry and the *bridge database*, which the MCP server reads through a
cached handle.

## What is hard

The list with the lines is `hazards` in `PROJECT.json`. In short:

* processes that die at any instruction, and whose pid is given to another one;
* check-then-act on files, by several processes and hosts;
* events in an order nobody planned: an exit after a message, a message after a
  cancellation, an answer after the breaker has tripped and half recovered;
* several paths that must give a lock, a lease or a connection back exactly once;
* state looked at before an `await` and used after it: an idle entry, a cached
  handle, a file's identity, a commit;
* deadlines that race the event they wait for, and retries that must end;
* two files that only mean something together, and a crash between them;
* work that is split, put back and tried again, and must not be lost or doubled.

## Modules

| module | what it is |
|---|---|
| `IndexLock` | the abstract lock: one owner, granted only when free |
| `IndexLockFile` | `acquireViaFile` step by step, its crashes and faults; implements `IndexLock` |
| `IndexLockBackends` | `acquireIndexLock`: the choice of a backend per process, the socket backend, the file backend as `IndexLock`; implements `IndexLock` in one domain |
| `FileLock` | the mutex of automatic sync, published by `link(2)`; a second implementation of `IndexLock` |
| `Watch` | `analyze --watch`: watcher, queue and refreshes, beside other writers; it extends `IndexLockBackends` |
| `AnalyzeServer` | the server's jobs, its repository lock, worker processes, finalization |
| `CircuitBreaker` | the breaker and the `resilientFetch` calls that share it |
| `WorkerStartup`, `WorkerPool` | the start of the ingestion workers; the pool's dispatch (it extends the first) |
| `WorkerDispatch` | what a dispatch promises; `WorkerPool` implements it |
| `ConnPool` | the read pool and the calls of the MCP backend that use it |
| `AutoSync` | the watch process, its run, its workers, its state file |
| `AnalyzeRun` | one repository's index and the runs that keep it |
| `GroupSync`, `BridgeCache` | the files of a group and the syncs that write them; the server's readers beside them (it extends the first) |
| `*Proofs` | theorems about the module they extend; `WatchProofs` has those of `IndexLockBackends`, `AutoSyncProofs` those of `FileLock`, and `AnalyzeServerProofs` those of `CircuitBreaker`, too |
| `MC*` | constants for TLC; nothing else |

### IndexLockFile

The lock is two files, `lock` and `guard`. A file is absent (`NoFile`) or has the
identity of its creator (pid, start time, host, token, in `rec`) and says whether
the record has been written. Each file-system call of the code is one action, in
the code's order; `pc` is the call a process is about to make. Every attempt
creates the guard with `O_EXCL`, and under it inspects and perhaps unlinks the
record of an owner it judges stale, creates its own, verifies it, removes the
guard; a failure on the way undoes what was done. A process may die between any
two calls and be born again with the same pid and a new start time (`inc`).
`Faults` names the operations that may fail. Deadlines (workload, guard,
permission, grace for an empty record) are timers that may expire at any moment
after they were set, so every race of a deadline and an event is there.
`deniedCreateHandle` (a directory in which a process may not create) is modelled
with its two separate looks at the disk; `Stage` and `Publish` are the use
`run-analyze.ts` makes of the directory, so that the sweep has something to hurt.

### IndexLockBackends

The endpoint is what the kernel says it is: bound to the process that listens,
free when that process closes it or dies, known in one network namespace. The
file lock is an instance of `IndexLock`, which `IndexLockFile` is proved to
implement. A process goes to the file when it is told to (`FileBackend`) or when
`listen` fails with anything but `EADDRINUSE` (`CannotListen`, per attempt).
`Domain` is a set of writers that meets the condition of `src/RUNBOOK.md:217-218`
(assumption `OneDomain`): all on the file backend, or all on the socket and in one
namespace. The others are there to disturb it; `Exclusive` is about the domain.

### FileLock

`lock[0]` is the mutex file, `lock[l + 1]` the `.reclaim` guard under which level
`l` is judged; the code's recursion is the process's level `lvl`, and it stops at
`MaxLevel`. A file appears whole (`Link` is `fs.link`); a taken one leads to the
guard one level up, under which the owner is read (`Read`) and, when it is dead by
pid and start time on this host, removed (`Rm`, which may fail). The release is
the code's four calls: read, rename away, read what was moved, and move back what
was not ours. `Illegible` is a read that fails, which the code treats as an owner
to be respected; `"reread"` is the same for the read after the rename (see
Findings). `excused` is a history variable for `RefusedByTheLivingOnly`: something has
happened during the attempt that justifies refusing it.

### Watch

`repo` is the tree: its ignore rule, its configuration, and the paths the index is
`behind` on. `watcher` is the live file watcher, with what it covers and the events it
has noted and not delivered (a write must be stable for 100 ms), and, in `arriving`,
those of a replacement that is being armed. `queue` is `WatchRefreshQueue`: a bounded set of pending
paths of which the controls are never evicted (`Added`), and a timer, with its delays
left out. `refresh.stage` is the await a refresh is suspended at: ignore rules are reloaded,
the replacement armed (`Swap`, then `Swapped`), the configuration reloaded, the
index lock taken through the actions of `IndexLockBackends`, the tree scanned, the
index written. A refresh that fails puts its batch back (`Fails`, `Requeued`), the first one
fails the start, one that may have hurt the live index stops the command. `Close`, `CloseQueue` and `End`
are the end. `missed` is a history variable: the controls whose last edit no watcher
will report (see Findings); everything else the properties ask for in spite of them. The analysis
is one that indexes what it reads; the exceptions are `AnalyzeRun`'s business.

### AnalyzeServer

A handler of the event loop runs to its next `await` in one action. `active` is
`activeRepoPaths`; `holds[x]` is "job x acquired and has not released", the
`lockReleased` flag of the closure. A worker is a process: `unspawned` when the
spawn failed, `working`, `stray` after it reported an uncaught error and still
runs, `winding` after its outcome, `exited` when its exit has not been handled.
`ipc` is the channel of messages the parent has not read; they are read before
the exit event, and a signal is the last event of a child. After `complete` the
finalization chain waits (`wait`), evicts (`evict`) and initialises (`init`), and
decides the outcome of the job. Cancellation and the 30 minute timer mark the job
failed and signal the child; a child that was signalled just dies or finishes,
and whatever it still sends is ignored because the job is terminal. `cancelled`
and `strayed` are history variables: the jobs that `cancelJob` failed, and those
whose worker reported an error nobody caught and went on; no guard reads them.

### CircuitBreaker

`check` and the `record` methods run without an `await`, one action each. The
stored state, the consecutive failures, `openedAt` (null, cooling, over) and the
permit are the breaker; a caller checks once, tries up to `maxAttempts` times with
sleeps in between and reports once. `failures` is capped at the threshold,
beyond which the code tells no two values apart. `probe` (who took the permit) is
a history variable: the code does not know it.

### WorkerStartup, WorkerDispatch, WorkerPool

A slot's `boot` is `bringSlotReady`: starting, being killed after a failure,
backing off, ready or dropped, with its attempts, its last crash signature and the
shared verdict `deterministic`. `worker[s]` is the thread behind the slot: parked
in its event loop, or busy, which includes native code that must not be
terminated. A file is its place in the round's index space, a job its
`startIndex` and its files. The rounds are a constant, each the `groupEnds` of its groups
(chunks). `Call`, `Begin` and `Refuse` are `dispatchGroups` up to
the gate, the cut into jobs (`Cuts`: any cut, for the byte ceiling may close a job early, into at most
`subBatchSize` files that ends at every group's end) and the refusal by a broken pool. The continuations of the event loop are actions:
`SubBatchDone` and `Result` of a job, `WorkerDies` (which blames a file of the job,
or none while it flushes; after a message that could not be read the thread is alive, and goes on
with what it did), `IdleExit`, `TimeoutRetry` and `TimeoutGiveUp` of the
idle timer, `Stopped`, `Removed`, `SpawnReady`, `SpawnFails` and `SpawnKilled` of a recovery, which awaits the
end of a replacement that did not start (`"killing"`) without a deadline. What
`runWorker` does in one turn, calling itself through `finishJob` and
`wakeIdleSlots`, is `RunWorkers` on the state it works on, the `Desk`: the slots that are ready take the
first jobs of the queue in turn (`Only` picks both). `Terminate` is the
caller's `finally`: parse-impl settles the round on the workers before it
unwinds. Timeouts are counted in units of `subBatchIdleTimeoutMs`.

`WorkerDispatch` is the promise behind it: files to do, delivered, set aside; the
call resolves only when nothing is left to do, or rejects as a whole.

### ConnPool

Everything that opens or closes a native database runs in the promise mutex
`poolLock`: `lockQ` is its chain and `step` the await at which the head is
suspended, so `InitLookup`, `InitReuse`, `EvictLRU`, `InitOpen`, `InitRegister`, `NativeClosed`,
`IdleClose`, `CloseNext` are the stretches between awaits; opens and registrations may throw
(`InitOpenFails`, `InitRegisterFails`). Checkout, checkin and
the timers of waiters run between any two of them. An entry has its free
connections, the count of those out, its waiters and the identity of the file it
was opened from; `dbCache` has the native databases that entries on one path
share, with their count, how much of it was `leaked` by registrations that threw, and the state
of the vector extension; `checkpoint` the
databases whose close is in flight; `usedBefore` the order of `lastUsed`. A call (`Dispatch`)
is a tool call of `local-backend.ts`: `ensureInitialized`, perhaps
`ensureVectorExtension`, a query. analyze replaces the file in another process
(`Swap`, `Unlink`).

### AutoSync

A run is the loop of `runner.ts`: pull each repository, fork a worker for a
changed one, collect the outcomes, save the state, synchronise the group of what
changed or is pending, save again. A worker over its timeout is asked to stop, and
after a grace abandoned: it becomes an orphan that waits for the index lock
(`waiter`), holds it (`holder`), and at last writes the index or gives up; so does
the worker of a watch that died. A worker that has built its index says so
(`WorkerReports`, which ends its timeout) and exits a moment later (`WorkerSucceeds`), and only
the exit settles it; an error of its channel settles at once and leaves it running
(`ChannelFails`). `disk` is the state file, `mem` the run's copy.
`Stop` is the user's, `Crash` a death, `Start` the next start; `Reset` is
`auto-sync reset`. Commits are numbers; somebody pushes.

### AnalyzeRun

`live` is the database file with its write-ahead log ("none", its "own", or
"foreign": left from a file it replaced), `meta` what `gitnexus.json` says: commit,
file hashes, dirty flag, embedding marker. A run examines both (`Examine`,
`UpToDate`), reads the vectors it may keep (`LoadCache`), parses the tree, hashes
it and plans (`HashAndPlan`), marks the metadata dirty, and then deletes and
inserts rows in place (surgical), or wipes and loads, in place or in a staging
file (`build`); `Restore` puts the kept vectors back, `OpenWindow` and `CloseWindow`
embed a file, whose first chunk may be stored without the second when a run dies;
`Close`, `Swap`, `MoveSidecars` and `SaveMeta` publish. `Escalate` is the fall back
from surgical to full, which may read vectors the metadata did not count. The tree is
edited and HEAD moves at any time (between the
parse and the hashes only with `"edit"` in `Faults`). `Abort` is a death or an
exception at any step. The endpoint may refuse every node: a run then ends in `GiveUp`
(too many refusals in a row or of all) or `GateThrows` (nothing persisted), as often as
it likes. Three failures a run only logs, or not even that (`PassedOver`): vectors
that cannot be read (`LoadCache`) or inserted (`Restore`, which notes the files in
`unrestored`), and a log that cannot be moved after the swap, or the old one
not removed (`MoveSidecarsFails`, which notes it in `spoiled`). Two platforms: one that
renames over an open file, and one that does not, where the swap is not used.

### GroupSync, BridgeCache

A sync builds its own database, so the sync that built a file stands for its
content, its size and its mtime, and the stamp in `meta` is that of the sync's file
or not. `Extract` is outside the group lock and remembers the registry's identity;
a sync that could read no repository (`failed`) preserves what it finds: it
refreshes the repository lists of registry and metadata (`RefreshCheck`, `Restamp`,
`Disclaim`), unless another sync has written since (`Superseded`). Any other writes
the registry, builds (`Build`), moves the old file aside (`MoveAside`), renames the
new one into place (`Swap`), drops the `.bak` and stamps the metadata. Every write
may fail, every process may die in between.

A query (`BridgeCache`) looks at the cached handle, awaits a `stat`, reuses it
(`Reuse`) or evicts it (`Discard`), opens the file or joins the open of another
query, promotes a `.bak` when there is no file, takes a lease and gives it back.
A handle's `entry` is its file, the mtime it was cached under, its leases, whether
it is evicted and whether it is open. A sync that runs in the server evicts the
cached handle. One coroutine runs from an await to the next in one action, and anything may come
between two of them. `demoted` notes that a reader has renamed a `.bak` over a database in place.

## Runs

| run | instance | shows |
|---|---|---|
| `lock_safety` | 3 processes on 2 hosts, one may not create; 2 attempts each on the first host, 1 on the other, 1 rebirth each; rereading and removing the own record may fail | an unlink removes what was judged; a live owner's record stays on disk, so there is one owner; the sweep spares the owner's staging file; the abstract lock is implemented |
| `lock_live` | 2 processes, one without a deadline, whose pid is used again; 1 attempt each, every other file fault | a refused attempt leaves nothing of a live owner behind; attempts end, and so does every wait for a guard; orphans are reclaimed |
| `watch` | a watching process and another writer of its domain, one outsider in another namespace that cannot always listen; 1 file, which the rules may ignore, and the 2 kinds of controls, 2 pending paths, 2 edits, 1 failure | types, no edit and no control is forgotten (`WatchInv`); the index and the watcher come to follow the tree, and a stop ends the command (`WatchSettles`); the domain implements the abstract lock |
| `file_lock` | 3 processes on 2 hosts, 2 levels of guards, 1 rebirth, removals and reads may fail | a reclaim removes what was judged; only the living, or what cannot be read or removed, refuse an attempt; the abstract lock is implemented |
| `server` | 1 analyze job, 2 embed jobs and deletions on 2 repositories, 2 retries, cancellation, time-outs, workers that hang, crash or report errors nobody caught | no two work on one repository; no retry of a success; `complete` means published, published means healthy; a launch that is over and was not cancelled gave its lock back; every launched job reaches an outcome |
| `server_cancel` | one job, cancelled | violation of `LaunchReleases`, see Findings |
| `breaker` | 4 callers, 2 attempts, threshold 2 | the permit always has a probe that will return it; a tripped breaker comes to admit again |
| `pool` | 2 slots, two rounds of 3 and 2 files, jobs of up to 2, 1 respawn per slot, 1 retry of a time-out, 2 startup restarts, 2 crash signatures | types, every result in its chunk and order, the counter of the dispatch, a dispatch that is not over has somebody at work or in recovery (`NeverStalls`), no native code terminated by the caller (all in `Inv`); `WorkerDispatch` is implemented; a dispatch settles and nothing survives the pool, if workers that failed to start acknowledge their end |
| `conn` | 2 tool calls, 2 repositories on one file, pool of 1 entry with 1 connection, 2 builds, 1 teardown, 1 pin | types, the order of use, connections, waiters and references (leaked ones included) balance (`Inv`); no open during a checkpoint; automatic closes spare what is in use; every call settles |
| `sync` | 1 repository, 3 commits, threshold 2, all faults, 2 stops or deaths | types, what is recorded as analysed is indexed (`Inv`); a new commit lifts a pause; a stop ends; the index follows the remote; a failed group sync is made up for |
| `analyze` | 2 files, 2 commits, both platforms, every option, 1 death or failure passed over, any refusals | types, clean metadata is true and no foreign log is opened, unless the sidecars could not be moved (`Inv`); embeddings that could be read, inserted and published are kept; once the endpoint serves, dirty and pending marks go away, and a dirty tree is indexed as it is, again and again |
| `bridge` | 2 syncs (one in the server), 2 queries that ask again and again, 4 handles | types, handles in use are open, evicted ones closed, a database to go back to, registry and bridge tell of one sync, a sync that read nothing overwrites nothing newer (`Inv`); accepted metadata is of the database beside it (`VouchedUnlessDemoted`); answers are not older than the question, but from a handle dated by another file, until that is replaced (`FreshAnswer`) |

**Bounds.** Two processes suffice for every two-party race of a lock; the third
makes the race of two reclaimers over the record of a dead owner possible, which
needs a dead process, a slow and a fast one. Two attempts let a process meet its
own former record; one rebirth is a reused pid; three levels of `FileLock` are the
lock, its guard and the guard of the guard; a third guard, or a second rebirth, was also explored (3.1 and
2.2 million states), and the theorems cover any number. In the server, one analyze job with
two embed jobs and the deletion has every pair of users of the lock; two retries is
the code's own number. Two analyze jobs on one repository were also explored
(safety, one retry, 5.9 million states), and the theorems cover any number of jobs. For the breaker two
callers interfere, and four allow a late success, a late failure and a late
neutral answer around a probe. In the worker pool two slots are the smallest
number where one can wait for work the other gives back; a job of two files can be
split once, and the second round, of one job, meets what the first has left
running. In the connection pool one entry with one connection makes every
use a contention and every second repository an eviction; the two repositories on one
file share a database by reference count. Three commits let an orphaned worker be two
behind. In the watch two edits are an edit of the rules and one of what they ignored, or an edit that is
noticed and one that is missed; three controls and paths over two places overflow the queue; the outsider moves
only when the watch is over, because the proofs of `IndexLockBackends` show that it makes no difference.
Three edits, and two failures, were also explored for `WatchInv` (2.1 and 0.9 million states). Two deaths or failures in `analyze`, which let an index be repaired and damaged again,
were also explored for its safety properties (2.1 million states); `MaxAttempts` is 1, so a
marker is given up after one retry. A pair of syncs has a first, a second, and the state
in which the group was found. Two queries refer to one handle each and
the cache to a third, so of four one is always free for the next open. The theorems drop all these bounds for the
properties they cover.

**Deadlock** is not checked where ids and attempts are used up and the system may
really stop (`CHECK_DEADLOCK FALSE`); it is checked in `breaker`, `sync`,
`analyze` and `bridge`, whose actors go on for ever. **Symmetry** is used in safety
runs only.

**Fairness.** *Locks*: a live process takes its next step, and a deadline passes,
because both are the scheduler's and the clock's doing; nobody has to begin an
attempt, to crash or to be born. *`AnalyzeServer`*: the event loop runs handlers that
are due and timers that have expired, and what the finalization chain waits for
answers (`waitForSettledIndex` gives up after a minute, the rest is local); nothing
is assumed of the worker (it may hang for ever), of the clone, which has no
deadline in the code and comes before the timer, nor of clients; so `JobEnds` is
about launched jobs. *`CircuitBreaker`*: a fetch ends because the embedding client
gives it a timeout and the wiki generator, whose own timeout is optional, has that
of `fetch`; a sleep ends, the cooldown passes; nobody has to call again, so
`Recovers` says that the breaker *can* admit a call, not that one comes.
*`WorkerPool`*: timers, drains and spawns end, because the code gives each a deadline
of its own, and the caller terminates the pool in its `finally`; nothing is assumed
of a worker at work, nor that a worker that failed to start acknowledges its termination, which
the code awaits without a deadline: `DispatchSettles` and `NothingSurvives` have that as their
premise (`Unacknowledged`), without which a dispatch may hang (`AlwaysSettles`, see Findings). *`ConnPool`*: native calls end (they have a timeout), and the
promise mutex goes on. *`AutoSync`*: the watch's process goes on; pull, group sync
and registration do not fail for ever (strong fairness), or the properties would
ask the code to do the impossible; a worker that has reported its index exits, by a timer
(`analyze-worker.ts:157`), and nothing else is assumed of a worker. *`AnalyzeRun`*: analyze is run
again and again (a hook, the watch, a user), and a run that started takes its steps;
whether the endpoint answers or refuses, and whether refusals make the run give up, is
not assumed. While it refuses everything each run throws and the index stays marked, so
`Settles` and `DirtyTreeIndexed` say what holds once it serves (`EndpointServes`): from some time
on no run gives up, and only flaky files are refused, never all (a file that is not flaky is
always there). *`Watch`*: timers fire, events are delivered, a watcher becomes
ready, and a refresh goes on, which waits for the lock no longer than its timeout; nothing is assumed of the other
writers, so `KeepsUp` is about the times in which they are idle. *`BridgeCache`* has safety
properties only.

## Proofs

Every theorem holds for every value of the constants that meets the assumptions
below, and TLC evaluates those assumptions in the runs. All are safety properties
of the form `Spec => []Inv`, action properties, or refinements.

| module | assumptions | theorems |
|---|---|---|
| `IndexLockFileProofs` | sets and bounds of the right kind; `NoFile` is no file and no process | `TypeCorrect`, `MutualExclusionHolds`, `OwnerOnDiskHolds`, `UnlinksWhatItJudgedHolds`, `GuardNeverStolenHolds`, `OrphanGuardFailsClosedHolds`, `Refinement` (implements `IndexLock`), `StagingKeptHolds`; `NothingLeakedHolds` if records can be reread and unlinked |
| `WatchProofs`, first part | every process has a namespace; `OneDomain` | `TypeCorrect`, `NothingKeptHolds`, `ExclusiveHolds`, `Refinement` (the domain implements `IndexLock`) |
| second part | those of the first; the watching process listens; the queue has room for the controls; no file is named like a control | `WatchInvHolds`, `WatchExclusive`, `WatchRefinement` (implements `IndexLock`) |
| `AnalyzeServerProofs`, first part | analyze and embed ids are disjoint | `TypeCorrect`, `HoldersListedHolds`, `ReleasedUnlessCancelledHolds`, `NoRetryOfASuccessHolds`, `PublishDecisionHolds`, `NoOverlapHolds` |
| second part (`CircuitBreaker`) | threshold and attempts are positive | `BreakerTypeCorrect`, `StateAgreesHolds`, `PermitHasAProbeHolds` |
| `WorkerPoolProofs` | a slot at least; every round has a file, and its groups end in order; sub-batches and the threshold are positive | `PoolInvHolds`, `InvHolds` (types, `Attributed`, `CountAgrees`, `NeverStalls`, `AbortOnlyByBreaker`), `DispatchImplemented` (implements `WorkerDispatch`) |
| `AutoSyncProofs`, first part (`FileLock`) | the constants' own; `"reread"` is not among the faults | `TypeCorrect`, `MutualExclusionHolds`, `OneJudgeHolds`, `RemovesWhatItJudgedHolds`, `HolderOnDiskHolds`, `Refinement` (implements `IndexLock`), `RefusedByTheLivingOnlyHolds` |
| second part (`AutoSync`) | the threshold is at least 2, as the code takes it to be | `RecordedIsIndexedHolds`, `NewCommitUnblocksHolds` |
| `AnalyzeRunProofs` | bounds are natural numbers, some commit exists | `NoPoisonedOpen`, `EmbeddingsAreKept`; `IndexIsWhatItSays` without `"edit"` among the faults |
| `ConnPoolProofs` | the repositories are finitely many, and each has a file; the sizes are positive | `PoolBalances`, `OpensAfterCheckpoints`, `AutomaticClosesSpare` |
| `BridgeCacheProofs` | syncs, queries and handles are finite and not confused | `VouchedAlways`, `CacheAndFilesSound`, `AnswersAreFresh` |

Three theorems exclude a fault, because with it the code breaks the property.
`"reread"` and `"edit"` are findings (see there), and what holds in spite of `"edit"`
has theorems of its own. With `"unlinkMain"` or `"rereadMain"` a process whose record cannot be removed,
or cannot be read to see that it is its own, says so and leaves it, which is all it can do.

**IndexLockFile.** Mutual exclusion is not inductive: it does not say why a process
that is about to create its record, or to unlink another's, cannot hurt an owner.
The invariant says what each process knows at its `pc`. `GuardMine`: whoever is in
the guarded section created the guard on disk, so only one is. `MainKnown`: a
process that has created its record still finds it, up to its release.
`ReclaimKnown`: the record a process has judged stale is still there, and its
creator is gone, when it unlinks; that is where the guard earns its keep.
`NotFromFuture`: no record carries a start time later than the current one of its
pid, so a process born again is never taken for the owner. A live owner's record
is on disk, a disk has one record, hence one owner. For the refinement the owner is
the process between a verified record and its release: every step is a grant of a
free directory, a give-up by the owner, or a stutter. `NothingLeaked` needs to know at which points the
record of a process is not on disk (`Unrecorded`: before it is written, and on every way out after it
is removed), and that no record is of an attempt still to come (`NotFromNextAttempt`).

**IndexLockBackends.** `NothingKept` ties the endpoint and the file's owner to the
`pc` of the process that has them; `Routes` says that no process comes to the file
without being told to or failing to listen. Under `OneDomain` the writers of the
domain then share one endpoint or one file, each of which has one owner.

**Watch.** That no edit is forgotten is not inductive, since it says nothing of why a
path reaches the watcher. `Kept` adds three facts. `ControlsHeld`: a control whose content the
loop does not have is among the events, pending, missed, or in a batch that has not reached its
reload. `CoverageKept`: the watcher covers what its predicate lets through, or
is being replaced, or a due refresh will replace it. `FilesKept`: what the index is behind on
and the predicate lets through is due. An edit nobody notes is then one that
the predicate ignores or one made without coverage, and a refresh of everything is due for those. `Life`
ties the phases of loop, queue and refresh together; what a failed refresh puts back
is never empty, hence due. `AddedFacts` carries the overflow: a control is never dropped,
and what is dropped leaves a refresh of everything. A step of the watch is a step of
`IndexLockBackends` or leaves the lock alone, so that module's theorems hold of the composition.

**FileLock.** The argument is the same at every level of guards. `Claims`: a process
that has a level finds its own file there, from the link to the rename that gives
it back. `Judged`: what a process read at a level below its guard is still there when
it removes it, because nobody else can have the guard, and a dead owner's file is
only removed under one. `Born`: no file carries a start time from the future. Mutual exclusion
of level 0 and of each guard are instances of `Claims`. A renamed file that cannot be read back
breaks `Claims`, which is why that fault is excluded (see Findings). That only the living
refuse an attempt is about a whole attempt: `Climbing` says that one which nothing excuses is `Alone`, every level
below the one it is at being taken by the dead; so it goes up until it finds a free guard, removes the file below,
and comes down again, and never ends on the way.

**AnalyzeServer.** `Locks`: a repository has at most one holder, whose job exists, every
holder and every deletion is in `activeRepoPaths`, and the two never meet. `JobInv`
is about one job at a time: where the outcome of its child is (`Chain`: at most one
unread message carries it, none while a child works or is to be forked, none once
the finalization chain has it), who will give the lock back (`Released`: a holder
that is not cancelled has a child, a retry timer or a chain left, and its job is
open), and what the chain decided (`Decided`). Whoever works on a repository holds it,
unless its worker reported an error nobody caught and went on (`Owned`, with `strayed`),
and `NoOverlap`, which is about the others, follows from `Locks`. A
step changes one job; the others keep `JobInv` because their fields stay.

**AutoSync.** An orphaned worker writes the index when its run is long over, so that what is
recorded is indexed needs an order over all of them: `Order` puts index, holder, clone and
remote of a repository in a row, and an orphan in possession of the lock ahead of the index nobody else
writes meanwhile. `Sound` bounds what an entry says by clone and index, on disk and in the copy of the
run; both only move on. For the pause, `Pace` says that a repository whose turn has not come has the entry of the disk,
and one whose turn is over is marked as paused only at the commit of the disk; `Refreshed` forgets
the failures of any other commit.

**AnalyzeRun.** `Course` follows one run from its first look at the files. `BaseRead`: what it read is on disk until it
marks it, and dirty from then on. `Planned`: what it writes on top of is an
index whose metadata is true, and the hashes are of what was parsed (`Honest`, the absence of the fault
`"edit"`, is a hypothesis of that part only). `CodeWritten`: the rows written so far, point by point. `FileSound`: a
log of another file lies beside the database only during the swap, under a dirty mark, on which the
next run deletes it, or where it could not be removed (`spoiled`). A run that builds on a spoiled
index hands it on, one that writes everything anew cures it (`Trusted`). `CleanIsTrue` is what these
give when the metadata is saved. The vectors have their own invariant, `Vectors`:
the cache is filled from the old database before a row is deleted (`Loading`), and each kept vector is either in the rows, or
in the cache and due to be restored (`Keeping`), whatever the run does, escalation included.

**ConnPool.** The books of an entry (`Booked`) are stronger than what is checked: no two holders have the same connection,
the stack and the queue repeat nobody, and the queue is empty unless the stack is, so that a returned
connection is either passed on or put back, never both. They are kept one entry at a time (`BookedKept`, `EntryKeeps`): a step concerns the calls of
one entry. An entry with no connection out then has no users (`UnusedHasNoUsers`), which is what evictions and idle closes look at.
References are counted by a set (`Referrers`), to which the repository being opened belongs before it is an entry. That no
database is opened during a close is the mutex: `Standing` says where the running task may be suspended, what it
has found out about its repository by then, and that a close is in flight only while it is suspended there; `Chain` ties
the tasks to the calls that await them. `CloseOneKeeps` serves the four that close.

**BridgeCache.** `Books` are the files and the syncs: the lock has one holder, each sync writes the registry once, and
what a sync that could read nothing remembers of the registry tells which write it was (`MarkedRight`),
so that `Superseded` recognises every later one. `Readers` are the queries and the handles: a handle is opened by one
query, leases are counted, an evicted handle is open only while it is leased. Neither needs the other, and
both hold in any race. `Together` says that metadata which a reader accepts is of the
database beside it and of the registry's sync; it is inductive for every step but a rename of a `.bak` over a database in place, which
`demoted` remembers for ever (`NotDemoted`).
For `FreshAnswer` the inductive invariant `Fresh` orders databases by the registry's writes: until then what
is on disk is never older than what was (`NeverOlder`), so whoever is given a handle has one whose mtime, if it has any, is that of a file
no older than the question (`Dated`): the age of the answer itself, unless the file was replaced between open and stat.

**CircuitBreaker.** `StateAgrees` and `PermitHasAProbe` are inductive once the types
are known; that the count of attempts stays in its type needs
`SleepsWithAttemptLeft`.

**WorkerPool.** That a result is attributed to the chunk of its files, by its `startIndex` alone, is not
inductive: a split moves the `startIndex` of its second half by the number of files in the first, not to the
first file of the second, and after a removal the two differ. `Spread` has what makes it right all the
same: each piece of the round, queued, in a slot or returned, lies in one group and begins at or before its
first file, and of two pieces one ends, counted from its `startIndex` by its number of files, before the other begins
(`Before`). A half and a remainder stay inside that room, so a split, a blame or a requeue
keeps it (`HalvesApart`, `ShrunkApart`); a move from the queue to a slot or to the results changes no piece. `Spread` also keeps every
piece clear of the quarantine, so that `runWorker`, which filters quarantined files, takes nothing away unseen (`Queue`).
For the counter, `Staffed`: a slot at work is in rotation and has a worker, one in recovery has none, no slot is both, and the
counter is their number; so a promise that resolves leaves nobody at work and nothing owed (`NobodyLeft`).
`NeverStalls` needs the converse, that the counter is not zero while the dispatch runs, and with it one more part of `Staffed`: a slot in
rotation without a worker is in recovery. The continuation that takes the counter to zero then finds every slot in rotation
idle with a worker, `Result` calls `runWorker` for its own slot and `Resume` for all of them (`Orders`), and one that may take a
job leaves the queue empty or a job in some slot's hands (`RunWorkersKeeps`). `AtRest` keeps the same for the first call of a
round: a slot that came up and is still in rotation has a worker. `AtRest` also says that nobody works or recovers
between two dispatches, but for the recoveries a tripped breaker leaves behind; hence the `terminate()` of the pool meets no worker inside native code. `Budgets`
bounds failures and respawns: a slot that has used its last respawn has left, or is about to. `Stages` keeps
the startup before the first round. The steps are proved on a desk, the state `runWorker` works on: taking jobs
(`RunWorkersKeeps`), giving one back (`Returned`), leaving a recovery (`Released`) and entering one (`Relieved`) are lemmas
about any desk, and the handlers combine them. Each step is shown to keep the invariant and to be one of `WorkerDispatch` at once (`EveryStep`).

Only model-checked: liveness (its proofs need fairness and `ENABLED`, which the
prover does not handle). The type invariants, `MutualExclusion`, `OneJudge`, `HoldersListed`, `StateAgrees` and
`Exclusive` are proved and therefore not repeated in the runs.

## Findings

A finding with a run is reproduced by it. The others were met while the modules
were written: each names the definition that states what is violated, which is in
its module but in no run, and what to change in the run's configuration to see it, if anything:
it is violated when it is added to the run of its module.

### With a run

* **`server_cancel`** (code): a cancelled or timed-out analyze job never releases
  its repository. `cancelJob` makes the job terminal first
  (`server/analyze-job.ts:243`), after which the message handler
  (`analyze-launch.ts:267`) and the exit handler (`:421`) return before
  `releaseLockOnce`, and `forkWorker` (`:240`) forks nothing. The repository can be
  neither analyzed, embedded nor deleted until the server restarts, although
  `analyze-launch.ts:209` says "One launch, one release."

### Server and breaker

* `POST /api/embed` takes the lock before `createJob`, which throws when another
  embed job runs; the catch block answers 409 and keeps the lock
  (`server/api.ts:1974`, `:2233`). `RefusalIsTrue` of `AnalyzeServer`, with two repositories.
* `api.ts:972-973` says the repository lock prevents concurrent work on one
  repository; a worker that reports an uncaught error goes on for up to 500 ms
  (`analyze-worker.ts:51`) after the server has dropped the lock. `NoOverlap` without
  its exception `strayed`.
* `circuit-breaker.ts:11` promises exactly one probe in half-open. Every record call
  clears the permit (`:210`), also that of a call admitted before the trip, so a
  second probe can be admitted beside the first. `OneProbe` of `CircuitBreaker`.

### Worker pool

* A recovery bounds the wait for the end of the worker it removes, for "a failed
  thread may never acknowledge termination" (`worker-pool.ts:1593-1594`), and awaits the end of a
  replacement that failed to start without a bound (`:1619`, `:1627`; at startup `:1294`). One that never
  acknowledges it holds the dispatch for ever. `AlwaysSettles` of `WorkerPool`.
* The breaker retires busy workers, because terminating one inside native code
  aborts the process (`worker-pool.ts:1657-1661`). When an idle timer gives a job
  up, the slot leaves `busySlots` (`:2110`) before the failure is counted; if that
  failure trips the breaker, it takes for idle, and terminates, the very worker that
  may still be in native code. The same holds after a message that could not be read (`:2057`), whose
  worker may have gone on. `NoNativeAbort`.
* `parse-worker.ts:3411` says that a worker that dies before its flush wrote no
  shard, so the retry yields exactly one. A job that is given up by its timer while
  flushing (`worker-pool.ts:2096`) is retried although its shard may be on disk:
  `ExactlyOneShard`, with `Store = TRUE`.

### Connection pool

* The identity of the file is recorded after the open, across two awaits
  (`pool-adapter.ts:914`): a file swapped in between is taken for the open one, and
  the rebuild is never noticed, against `pool-adapter.ts:57-58` and
  `local-backend.ts:3350-3352`. `IdentityOfHandle` of `ConnPool`.
* A repository that leaves the registry is closed by `closeLbug`
  (`local-backend.ts:2879`), which does not look at the connections checked out; a
  query at work loses its database. `local-backend.ts:3370-3372` calls that a
  native use after free. `NoUseAfterFree`.
* A shared database is counted for an entry before the entry's connections are made
  (`pool-adapter.ts:884`, `:894`). When one cannot be made nothing takes the reference back: the
  database is never closed (`:364-366` has it closed once nobody refers to it), and later opens of its file
  are given it, and so the build it was opened on. `Released` of `ConnPool`.

### File lock, automatic sync

* A release renames the file away and reads it again; when that read fails it
  moves the file back over whatever has been published meanwhile
  (`file-lock.ts:156`), and the new holder loses its file. `MutualExclusion` with
  `"reread"` in `FileFaults`.
* A commit whose analysis succeeds and whose registration fails, in every run: the
  success sets the failure count to zero and the failure makes it one
  (`runner.ts:291`), so the threshold documented in `src/gitnexus/README.md:326` is
  never reached. `FailuresAddUp` of `AutoSync`.
* The analysed commit is saved before the groups are synchronised, with
  `groupSyncPending` as it was before the run (`runner.ts:357`): after a crash in between
  the next run finds the commit unchanged and nothing pending, and the group stays behind
  until something else changes. No document promises otherwise.

### Analyze watch

* `analyze-watch.ts:358` says that the swap of the watchers has no blind window. A write
  is reported when the file has been stable for 100 ms; the retired watcher is closed
  as soon as the replacement is ready, and what it had noted by then is dropped, while the
  replacement takes the file as it finds it. The refresh that follows reads the whole tree,
  so a source file is indexed all the same; but `.gitignore` was reloaded before, and
  `.gitnexusrc` is reloaded only when its path is in the batch (`:478`), so an edit of one of them at
  that time is never applied: the index is built with old options, or files the rules no
  longer ignore are not watched, until the control is written again. The same
  holds while the first watcher arms and for an event lost with a transient error of the watcher, whose catch-up
  refresh (`*`) reloads no control. `NoBlindWindow` of `Watch`; a trace needs one edit.
* An edit between the parse and the hashes of an analysis (`CleanIsTrue`, below) meets
  the watch too: the event comes, and the refresh finds the hash it has already recorded.

### Analysis run

* `run-analyze.ts:4547` has a log left under the
  name of the staging file moved beside the published index "so the next open replays
  the delta", and `:4541` calls the old log there "replay poison". Both moves swallow every error
  (`:4545`, `:4552`), and `:4568` stamps clean metadata all the same: rows are missing, or
  the poison stays, and nothing will rebuild the index. `SidecarsFollow` of `AnalyzeRun`.
* A node embedded in part reads as fresh for ever, because each chunk carries the
  current content hash (`embedding-pipeline.ts:890`, against
  `embedding-checkpoint.ts:88-92`). A run dies between the chunks of a node, so does the
  one that resumes it, and the third one finds the node embedded and drops it from the
  pending ones (`run-analyze.ts:3973`): `NoHalfVectors` of `AnalyzeRun` with `MaxAttempts = 3` and
  `MaxMishaps = 2`. With
  `--force` one death is enough: the marker is discarded (`embedding-checkpoint.ts:202`)
  and the cached vectors, half of them, are restored.
* A tree that is indexed while dirty and then restored is clean at the recorded
  commit, and the early return keeps the index of the edit (`run-analyze.ts:1994`):
  `UpToDateIsCurrent`.
* The hashes are computed after the pipeline has read the files (`run-analyze.ts:2363`):
  an edit in between records the hash of a content the graph was not built from.
  `CleanIsTrue` with `Faults = {"edit"}`.

### Groups and bridge

* A query awaits the `stat` of the cached handle; a sync
  in the server evicts it meanwhile; a second query opens and caches a new one; the first goes on
  to open a third without looking at the cache again (`bridge-db.ts:292`) and replaces the second
  there, which nobody will close, against `:128-131`. `NoOrphan` of `BridgeCache`.
* A reader that found no database looks for the `.bak` and
  renames it over whatever is there by then, outside the group lock (`bridge-db.ts:1528`): over the
  new database of a sync, which goes on to stamp the old one as its own (`:1419`), against `:1398`
  and `:1414-1416`. Registry and bridge then disagree too, and queries get older answers: `Inv`,
  `VouchedUnlessDemoted` and `FreshAnswer` speak of the time before. `VouchedIsTrue`.
* The mtime is taken by name after the open
  (`bridge-db.ts:314`). A swap in between caches the old handle under the mtime of the new file, and
  the `stat` of later queries finds nothing changed, against `:65-68` and `:255-257`.
  `FreshAnswer` says how far that goes: to the next replacement. `WritersDetected`.
* Read, not modelled: a group whose database is a `.bak` after a crash answers with an
  error, because `ensureBridgeReady` looks for the database before anything would promote
  it; metadata is paired with the file before the handle is leased (`cross-impact.ts:523`);
  a crash between `contracts.json` and the bridge leaves the old bridge vouching for
  itself beside a newer registry (`FilesAgree` excludes it by `interrupted`).

Not a finding, but worth knowing: `src/RUNBOOK.md:226-227` says a `lockFree` handle is
returned only when neither lock nor guard exists, while `deniedCreateHandle` looks
at the two one after the other. `StagingKept` (run `lock_safety`) shows that the
only write such a handle could lead to, the sweep of the staging files, does not
follow.

### Registry (read, not modelled)

* `registerRepo` runs before the metadata is saved (`run-analyze.ts:4417`, `:4568`). A
  first analysis is meanwhile a slot with data and no ownership metadata, which a
  validating listing (`repo-manager.ts:1700`; the MCP server's start, `augment`)
  prunes; the analysis then fails its last check, and a plain repetition does not
  register it again (`run-analyze.ts:2001-2005`).
* `unregisterRepo` and that pruning read with the lenient `readRegistry`
  (`repo-manager.ts:1196`, `:1763`), which answers an unreadable file with no entries, and
  write what is left; `:1024-1026` says mutating writes must not (#3094).
* `gitnexus clean` deletes an index without its lock (`cli/clean.ts`).

## Not modelled

`components` in `PROJECT.json` gives the reason for each part that has no module. In the
modelled ones:

* *Locks*: formatting and parsing of the record, the name of the endpoint, the wording
  of errors. A mix of lock backends in one directory is modelled, and is not
  exclusive; `src/RUNBOOK.md:217-218` makes one domain the operator's duty.
* *Server*: progress messages (they change only what a client sees), the deletion of
  finished job records after an hour (a handler that finds no job behaves as for a terminal
  one), a `fork` that throws inside the retry timer (it would take the server down), what
  `dispose` does at shutdown, rate limits, uploads.
* *Worker pool*: what a worker extracts; the self-healing of pools of three or more; threads that were
  retired and whose termination nobody awaits. A recovery after a message that could not be read
  terminates a thread that may be in native code too; `aborted` records the breaker and the caller only.
* *Connection pool*: databases injected by tests; a native call that goes on after
  its time-out; which holder a pin belongs to; recovery of WAL and shadow files on open.
* *Automatic sync*: pid, owner and stop-request files, status output, the fallback from
  one branch to another, quarantine of broken clones, a state file that cannot be saved, more than one
  orphan per repository beyond the one waiting, forced pushes. One repository, so groups of one.
* *Watch*: delays (debounce, longest wait, back-off), messages, the check of options and flags, the
  ignore sources outside the two files of the root; edits after a stop.
* *Analysis run*: branch slots and the repeated lock when HEAD moves, receipts, full text
  indexes, force guards other than the dirty flag, node counts nobody could verify, a change of the embedding
  model or of its dimensions (which discards the vectors, `:3543`), the swap on Windows by opt-in, the parse cache, the registry, and
  the metadata writes of `POST /api/embed`, which take no index lock. A file is one node with two chunks.
* *Groups*: extraction of contracts, the schema gate and metadata without a stamp, retries and the
  wait for readers on Windows, sidecars, the per-handle query lock, `--skipWrite`, what a
  query says about completeness.

## Plan

1. *Done*: the locks; the server's jobs; the breaker; the worker pool; the connection
   pool; automatic sync; the watch; the analysis run; groups and the bridge.
2. The registry's read-change-write, the sidecar recovery of the database adapter, the
   branch slots in `AnalyzeRun`.
3. Pure algorithms against reference definitions: the phase runner's order, C3
   linearisation, reaching definitions, rank fusion.
4. *Done*: the proofs of every module but the liveness properties; those of what 2 and 3 add.
