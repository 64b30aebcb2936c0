------------------------------- MODULE Watch -------------------------------
(***************************************************************************)
(* `gitnexus analyze --watch` (gitnexus/src/cli/analyze-watch.ts and       *)
(* watch-queue.ts): a file watcher feeds a queue whose refreshes never     *)
(* overlap; a refresh reloads the controls that changed, re-arms the       *)
(* watcher when the ignore rules did, and runs the whole analysis under    *)
(* the index lock, for which the watching process competes with the other  *)
(* writers through the backends of IndexLockBackends.                      *)
(***************************************************************************)
EXTENDS IndexLockBackends, FiniteSets, Naturals

CONSTANTS
  Watching,        \* the process that watches
  Files,
  Ignorable,       \* the files that the rule "some" ignores
  maxPendingPaths,
  MaxEdits,        \* bound: edits of the tree
  MaxFaults        \* bound: failures of analyses and of the watcher

Ignore == ".gitignore"   \* and .gitnexusignore
Config == ".gitnexusrc"
All == "*"               \* WATCH_FULL_REFRESH_PATH

Controls == {Ignore, Config}
Paths == Files \cup Controls

ASSUME WatchAssumption ==
  /\ Watching \in Domain \ (FileBackend \cup CannotListen)
  /\ Files \cap (Controls \cup {All}) = {}
  /\ Ignorable \subseteq Files
  /\ maxPendingPaths \in Nat
  /\ Cardinality(Controls) <= maxPendingPaths
  /\ MaxEdits \in Nat
  /\ MaxFaults \in Nat

VARIABLES
  repo,    \* the tree: its ignore rule, its configuration, the paths the index is behind on
  watcher, \* the live watcher, and the events of the one being armed
  queue,   \* WatchRefreshQueue
  refresh, \* the refresh in progress
  loop,    \* startWatchFileLoop and the command around it
  missed,  \* controls whose last edit no watcher reports (history)
  faults

watchVars == <<repo, watcher, queue, refresh, loop, missed, faults>>
lockVars == vars
allVars == <<watchVars, lockVars>>

Rules == {"none", "some", "bad"}
Options == {"old", "new"}

NoRefresh == [stage |-> "none", paths |-> {}, read |-> {}]

WatchTypeOK ==
  /\ repo \in [rule : Rules, config : Options \cup {"bad"},
               behind : SUBSET Paths, edits : 0 .. MaxEdits]
  /\ watcher \in [open : BOOLEAN, covers : SUBSET Paths,
                  events : SUBSET Paths, arriving : SUBSET Paths]
  /\ queue \in [pending : SUBSET (Paths \cup {All}), overflowed : BOOLEAN,
                timer : BOOLEAN, initial : BOOLEAN, closed : BOOLEAN]
  /\ refresh \in [stage : {"none", "ignore", "arming", "swapped", "config",
                           "lock", "build", "write"},
                  paths : SUBSET (Paths \cup {All}), read : SUBSET Paths]
  /\ loop \in [phase : {"arming", "initial", "on", "closing", "done"},
               closed : BOOLEAN, stop : BOOLEAN,
               predicate : Rules \ {"bad"}, options : Options,
               ignoreValid : BOOLEAN, configValid : BOOLEAN, rearm : BOOLEAN]
  /\ missed \subseteq Controls
  /\ faults \in 0 .. MaxFaults

Ignored(rule) == IF rule = "some" THEN Ignorable ELSE {}

\* What a watcher armed with a predicate reports: a control always, also when
\* the rules ignore it.
Watched(predicate) == Paths \ Ignored(predicate)

\* The controls of which the loop holds another content than the tree.
Unheld == {c \in Controls : IF c = Ignore THEN loop.predicate # repo.rule
                                          ELSE loop.options # repo.config}

WatchInit ==
  /\ Init
  /\ \E rule \in {"none", "some"} :
       /\ repo = [rule |-> rule, config |-> "old", behind |-> Paths, edits |-> 0]
       /\ loop = [phase |-> "arming", closed |-> FALSE, stop |-> FALSE,
                  predicate |-> rule, options |-> "old",
                  ignoreValid |-> TRUE, configValid |-> TRUE, rearm |-> FALSE]
  /\ watcher = [open |-> TRUE, covers |-> {}, events |-> {}, arriving |-> {}]
  /\ queue = [pending |-> {}, overflowed |-> FALSE, timer |-> FALSE,
              initial |-> TRUE, closed |-> FALSE]
  /\ refresh = NoRefresh
  /\ missed = {}
  /\ faults = 0

HasPendingWork(q) == q.overflowed \/ q.pending # {}

Idle == refresh.stage = "none"

Fault == faults < MaxFaults /\ faults' = faults + 1
-----------------------------------------------------------------------------
(* The tree and the watcher (chokidar).                                    *)

Arming == loop.phase = "arming" \/ refresh.stage = "arming"

\* Somebody writes a path, or removes it.  The live watcher notes it when it
\* covers it; one that is being armed when it has come to it already.  (After a
\* stop no edit is of consequence, and none is made.)
Edit(p) ==
  /\ repo.edits < MaxEdits /\ ~loop.stop /\ ~loop.closed
  /\ \E rule \in Rules, config \in Options \cup {"bad"}, seen \in BOOLEAN :
       LET noted == watcher.open /\ p \in watcher.covers
           fresh == seen /\ Arming /\ p \in Watched(loop.predicate)
       IN /\ (rule # repo.rule) <=> (p = Ignore)
          /\ (config # repo.config) <=> (p = Config)
          /\ seen => Arming
          /\ repo' = [rule |-> rule, config |-> config,
                      behind |-> repo.behind \cup {p}, edits |-> repo.edits + 1]
          /\ watcher' = [watcher EXCEPT
               !.events = IF noted THEN @ \cup {p} ELSE @,
               !.arriving = IF fresh THEN @ \cup {p} ELSE @]
          /\ missed' = IF p \in Controls /\ ~noted /\ ~fresh
                       THEN missed \cup {p} ELSE missed \ {p}
  /\ refresh' = [refresh EXCEPT !.read = @ \ {p}]
  /\ UNCHANGED <<queue, loop, faults, lockVars>>

\* Mutant of Added: a control is as good as any other path when there is no room.
Added_NoPriority(q, new) ==
  LET all == q.pending \cup new IN
  IF Cardinality(all) <= maxPendingPaths THEN {[q EXCEPT !.pending = all]}
  ELSE {[q EXCEPT !.pending = kept, !.overflowed = TRUE] :
          kept \in {k \in SUBSET all : Cardinality(k) = maxPendingPaths}}

\* addPendingPath, of one path or of several: of what does not fit any may go,
\* but a control never; a refresh of everything is then due.
Added(q, new) ==
  LET all == q.pending \cup new IN
  IF Cardinality(all) <= maxPendingPaths THEN {[q EXCEPT !.pending = all]}
  ELSE {[q EXCEPT !.pending = kept, !.overflowed = TRUE] :
          kept \in {k \in SUBSET all : Cardinality(k) = maxPendingPaths
                                       /\ all \cap Controls \subseteq k}}

\* enqueue: while a refresh runs its end will set the timer.
Enqueued(p) ==
  IF queue.closed THEN {queue}
  ELSE {[q EXCEPT !.timer = @ \/ (~q.initial /\ Idle)] : q \in Added(queue, {p})}

\* An event reaches the queue, at the latest when the file has been stable
\* for a while (awaitWriteFinish).
Deliver(p) ==
  /\ \/ p \in watcher.events /\ watcher' = [watcher EXCEPT !.events = @ \ {p}]
     \/ p \in watcher.arriving /\ watcher' = [watcher EXCEPT !.arriving = @ \ {p}]
  /\ queue' \in Enqueued(p)
  /\ UNCHANGED <<repo, refresh, loop, missed, faults, lockVars>>

\* A transient error of the live watcher: it may have lost its coverage and
\* what it had noted.  It is armed again by the refresh of everything that is
\* due with it.
WatcherError ==
  /\ Fault
  /\ watcher.open /\ loop.phase \in {"initial", "on"}
  /\ watcher' = [watcher EXCEPT !.covers = {}, !.events = {}]
  /\ missed' = missed \cup (Unheld \cap watcher.events)
  /\ loop' = [loop EXCEPT !.rearm = TRUE]
  /\ queue' \in Enqueued(All)
  /\ UNCHANGED <<repo, refresh, lockVars>>

\* Any other error of the live watcher ends the command, as a signal does.
Stop ==
  /\ loop.phase # "done" /\ ~loop.stop
  /\ loop' = [loop EXCEPT !.stop = TRUE]
  /\ UNCHANGED <<repo, watcher, queue, refresh, missed, faults, lockVars>>
-----------------------------------------------------------------------------
(* The refreshes.                                                          *)

\* The catch of runBatch: what a failed refresh was to index is due again.
Requeued ==
  IF queue.closed THEN {queue}
  ELSE {[q EXCEPT !.timer = TRUE, !.overflowed = @ \/ All \in refresh.paths] :
          q \in Added(queue, refresh.paths \ {All})}

Shut(live) == [live EXCEPT !.open = FALSE, !.events = {}]

\* A refresh fails.  The first one fails the start: the watcher is closed, then
\* the queue.  A later one is repeated, unless it may have spoilt the index.
Fails(fatal, now, live) ==
  /\ refresh' = NoRefresh
  /\ IF queue.initial
     THEN /\ loop' = [now EXCEPT !.phase = "closing", !.closed = TRUE]
          /\ watcher' = Shut(live)
          /\ queue' = [queue EXCEPT !.initial = FALSE, !.timer = HasPendingWork(queue)]
     ELSE /\ loop' = [now EXCEPT !.stop = @ \/ fatal]
          /\ watcher' = live
          /\ queue' \in Requeued

\* waitUntilReady of the first watcher, and runInitial.
FirstReady ==
  /\ loop.phase = "arming"
  /\ loop' = [loop EXCEPT !.phase = "initial"]
  /\ watcher' = [watcher EXCEPT !.covers = Watched(loop.predicate),
                                !.events = watcher.arriving, !.arriving = {}]
  /\ refresh' = [NoRefresh EXCEPT !.stage = "ignore"]
  /\ UNCHANGED <<repo, queue, missed, faults, lockVars>>

FirstFails ==
  /\ Fault
  /\ loop.phase = "arming"
  /\ loop' = [loop EXCEPT !.phase = "closing", !.closed = TRUE]
  /\ watcher' = [Shut(watcher) EXCEPT !.arriving = {}]
  /\ UNCHANGED <<repo, queue, refresh, missed, lockVars>>

\* The timer: drain, when there is something to do and nothing in progress.
Drain ==
  /\ queue.timer /\ Idle
  /\ queue' = [queue EXCEPT !.timer = FALSE, !.pending = {}, !.overflowed = FALSE]
  /\ refresh' = [stage |-> "ignore", read |-> {},
                 paths |-> queue.pending \cup (IF queue.overflowed THEN {All} ELSE {})]
  /\ UNCHANGED <<repo, watcher, loop, missed, faults, lockVars>>

MustReload(control, valid) == control \in refresh.paths \/ ~valid

\* The ignore controls are read again; then the watcher is armed again when
\* they were, or when it had an error, unless the loop was closed.
ReloadIgnore ==
  /\ refresh.stage = "ignore"
  /\ LET reload == MustReload(Ignore, loop.ignoreValid)
         rearm == reload \/ loop.rearm
     IN /\ reload => repo.rule # "bad"
        /\ loop' = [loop EXCEPT !.predicate = IF reload THEN repo.rule ELSE @,
                                !.ignoreValid = TRUE, !.rearm = FALSE]
        /\ refresh' = [refresh EXCEPT
             !.stage = IF rearm /\ ~loop.closed THEN "arming" ELSE "config"]
  /\ UNCHANGED <<repo, watcher, queue, missed, faults, lockVars>>

IgnoreInvalid ==
  /\ refresh.stage = "ignore"
  /\ MustReload(Ignore, loop.ignoreValid) /\ repo.rule = "bad"
  /\ Fails(FALSE, [loop EXCEPT !.ignoreValid = FALSE], watcher)
  /\ UNCHANGED <<repo, missed, faults, lockVars>>

\* The replacement is ready and takes over; what the retired watcher had noted
\* and not yet reported is lost with it, unless the replacement noted it too.
Swap ==
  /\ refresh.stage = "arming"
  /\ watcher' = [open |-> TRUE, covers |-> Watched(loop.predicate),
                 events |-> watcher.arriving, arriving |-> {}]
  /\ missed' = missed \cup (Unheld \cap (watcher.events \ watcher.arriving))
  /\ refresh' = [refresh EXCEPT !.stage = "swapped"]
  /\ UNCHANGED <<repo, queue, loop, faults, lockVars>>

ArmFails ==
  /\ Fault
  /\ refresh.stage = "arming"
  /\ Fails(FALSE, [loop EXCEPT !.rearm = TRUE], [watcher EXCEPT !.arriving = {}])
  /\ missed' = missed \cup (Unheld \cap (watcher.arriving \ watcher.events))
  /\ UNCHANGED <<repo, lockVars>>

\* The close of the retired watcher is over: was the loop closed meanwhile?
Swapped ==
  /\ refresh.stage = "swapped"
  /\ watcher' = IF loop.closed THEN Shut(watcher) ELSE watcher
  /\ refresh' = [refresh EXCEPT !.stage = "config"]
  /\ UNCHANGED <<repo, queue, loop, missed, faults, lockVars>>

\* The configuration is read again, and runFullAnalysis asks for the lock.
ReloadConfig ==
  /\ refresh.stage = "config"
  /\ LET reload == MustReload(Config, loop.configValid)
     IN /\ reload => repo.config # "bad"
        /\ loop' = [loop EXCEPT !.options = IF reload THEN repo.config ELSE @,
                                !.configValid = TRUE]
  /\ Begin(Watching)
  /\ refresh' = [refresh EXCEPT !.stage = "lock"]
  /\ UNCHANGED <<repo, watcher, queue, missed, faults>>

ConfigInvalid ==
  /\ refresh.stage = "config"
  /\ MustReload(Config, loop.configValid) /\ repo.config = "bad"
  /\ Fails(FALSE, [loop EXCEPT !.configValid = FALSE], watcher)
  /\ UNCHANGED <<repo, missed, faults, lockVars>>

Locked ==
  /\ refresh.stage = "lock"
  /\ Listens(Watching)
  /\ refresh' = [refresh EXCEPT !.stage = "build"]
  /\ UNCHANGED <<repo, watcher, queue, loop, missed, faults>>

\* IndexLockTimeoutError: a live holder kept the lock for the whole wait.
LockTimeout ==
  /\ refresh.stage = "lock"
  /\ endpoint[NamespaceOf[Watching]] # Nobody
  /\ GiveUpWaiting(Watching)
  /\ Fails(FALSE, loop, watcher)
  /\ UNCHANGED <<repo, missed, faults>>

\* The analysis reads the tree, the ignore files too (an unreadable one it
\* skips); the configuration it was given.
Scan ==
  /\ refresh.stage = "build"
  /\ refresh' = [refresh EXCEPT !.stage = "write",
       !.read = repo.behind \ ((IF repo.rule = "bad" THEN {Ignore} ELSE {})
                               \cup (Unheld \cap {Config}))]
  /\ UNCHANGED <<repo, watcher, queue, loop, missed, faults, lockVars>>

\* Mutant of Succeed: what came in during the refresh waits for the next event.
Succeed_NoTimer ==
  /\ refresh.stage = "write"
  /\ Release(Watching)
  /\ repo' = [repo EXCEPT !.behind = @ \ refresh.read]
  /\ refresh' = NoRefresh
  /\ loop' = [loop EXCEPT !.phase = IF queue.initial THEN "on" ELSE @]
  /\ queue' = [queue EXCEPT !.initial = FALSE]
  /\ UNCHANGED <<watcher, missed, faults>>

\* The index is published and the lock released.  The end of the first refresh
\* lets the events go that it held.
Succeed ==
  /\ refresh.stage = "write"
  /\ Release(Watching)
  /\ repo' = [repo EXCEPT !.behind = @ \ refresh.read]
  /\ refresh' = NoRefresh
  /\ loop' = [loop EXCEPT !.phase = IF queue.initial THEN "on" ELSE @]
  /\ queue' = [queue EXCEPT !.initial = FALSE,
                            !.timer = ~queue.closed /\ HasPendingWork(queue)]
  /\ UNCHANGED <<watcher, missed, faults>>

\* The analysis fails; while it writes the live index may be hurt.
AnalysisFails ==
  /\ Fault
  /\ refresh.stage \in {"build", "write"}
  /\ Release(Watching)
  /\ \E fatal \in BOOLEAN : (fatal => refresh.stage = "write") /\ Fails(fatal, loop, watcher)
  /\ UNCHANGED <<repo, missed>>
-----------------------------------------------------------------------------
(* The end: close of the loop, then of the queue, which awaits the refresh.  *)

Close ==
  /\ loop.phase = "on" /\ loop.stop
  /\ loop' = [loop EXCEPT !.phase = "closing", !.closed = TRUE]
  /\ watcher' = Shut(watcher)
  /\ UNCHANGED <<repo, queue, refresh, missed, faults, lockVars>>

CloseQueue ==
  /\ loop.phase = "closing" /\ ~queue.closed
  /\ queue' = [queue EXCEPT !.closed = TRUE, !.timer = FALSE,
                            !.pending = {}, !.overflowed = FALSE]
  /\ UNCHANGED <<repo, watcher, refresh, loop, missed, faults, lockVars>>

End ==
  /\ loop.phase = "closing" /\ queue.closed /\ Idle
  /\ loop' = [loop EXCEPT !.phase = "done"]
  /\ UNCHANGED <<repo, watcher, queue, refresh, missed, faults, lockVars>>

Reports == \E p \in Paths : Deliver(p)

Refreshes ==
  \/ FirstReady \/ ReloadIgnore \/ IgnoreInvalid \/ Swap \/ Swapped
  \/ ReloadConfig \/ ConfigInvalid \/ Locked \/ LockTimeout \/ Scan \/ Succeed

Closes == Close \/ CloseQueue \/ End

\* The other writers of the domain; the processes outside it are let loose when
\* the watch is over (bound: WatchProofs shows that what they do
\* makes no difference to a domain).
Others ==
  /\ \E p \in Procs \ {Watching} :
       /\ p \notin Domain => loop.phase = "done"
       /\ \/ Begin(p) \/ Listens(p) \/ ListenUnavailable(p) \/ AcquireFile(p)
          \/ GiveUpWaiting(p) \/ Release(p)
  /\ UNCHANGED watchVars

WatchNext ==
  \/ \E p \in Paths : Edit(p)
  \/ Reports \/ Drain \/ Refreshes \/ Closes
  \/ WatcherError \/ FirstFails \/ ArmFails \/ AnalysisFails \/ Stop
  \/ Others

WatchSpec == WatchInit /\ [][WatchNext]_allVars

\* Timers fire, events are delivered, and a refresh goes on by itself: it waits
\* for the lock no longer than its timeout.
FairWatch ==
  /\ WatchSpec
  /\ WF_allVars(Reports) /\ WF_allVars(Drain)
  /\ WF_allVars(Refreshes) /\ WF_allVars(Closes)
-----------------------------------------------------------------------------
On == loop.phase = "on" /\ ~loop.closed

\* What no watcher will report any more because the edit of a control was
\* missed: see README.md, Findings.
Unseen ==
  Ignored(repo.rule)
  \cup (IF Ignore \in missed THEN Ignored(loop.predicate) \cup {Ignore} ELSE {})
  \cup ({Config} \cap missed)

\* A refresh that has still to read the tree, or that is due.
Due ==
  \/ refresh.stage \notin {"none", "write"}
  \/ HasPendingWork(queue)
  \/ watcher.events \cup watcher.arriving # {}

\* A control on its way to a reload.
Coming ==
  watcher.events \cup watcher.arriving \cup queue.pending \cup refresh.paths

\* analyze-watch.ts:286-290: every edit the index has not read
\* yet has a refresh to come that reads it, across overflows, failures, a
\* watcher that lost its coverage and its replacement; and the rules and
\* options the loop holds are those of the tree, or about to be read again.
NothingForgotten ==
  On => /\ repo.behind \ (refresh.read \cup Unseen) # {} => Due
        /\ Unheld \subseteq Coming \cup missed

\* The types, and that neither an edit nor a control is forgotten.
WatchInv == WatchTypeOK /\ NothingForgotten

\* analyze-watch.ts:358: the swap of the watchers has no blind window.  The code
\* does not keep this: see README.md, Findings.
NoBlindWindow == On => Unheld \subseteq Coming

\* A watch that is left in peace, beside writers that let go of the lock, comes
\* to an index of the tree as it is and a watcher for the tree as it is.
KeepsUp ==
  <>[](On /\ ~loop.stop /\ repo.rule # "bad" /\ repo.config # "bad"
       /\ \A p \in Domain \ {Watching} : pc[p] = "idle")
    => <>[](repo.behind \subseteq Unseen /\ Unheld \subseteq missed)

\* A stop ends the command whatever it is doing, also in the middle of a
\* replacement, and leaves no watcher that would keep the process alive
\* (analyze-watch.ts:360-400).
StopEnds == loop.stop ~> (loop.phase = "done" /\ ~watcher.open)

\* What the timer, the retries and the close of analyze --watch promise: it
\* keeps up (watch-queue.ts:15, analyze-watch.ts:286-290), and it ends.
WatchSettles == KeepsUp /\ StopEnds
=============================================================================
