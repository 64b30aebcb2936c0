---------------------------- MODULE WatchProofs ----------------------------
(* Of IndexLockBackends, which Watch extends: that the writers of one domain  *)
(* share one lock, for any processes, namespaces and processes that cannot    *)
(* listen.  Of Watch: that analyze --watch forgets no edit, for any tree, any *)
(* bound of the queue and any number of edits and failures; and that it keeps *)
(* to the protocol of the index lock, so that the first part holds of it, too.*)
EXTENDS Watch, TLAPS

-----------------------------------------------------------------------------
(* IndexLockBackends.                                                      *)

\* Which way a process has come: who is told to use the file never listens,
\* and nobody uses the file without being told to or failing to listen.
Routes ==
  /\ \A p \in Procs : /\ pc[p] = "listen" => p \notin FileBackend
                      /\ pc[p] = "file" => p \in FileBackend \cup CannotListen
  /\ \A n \in Namespaces : endpoint[n] \notin FileBackend
  /\ fileOwner # Nobody => fileOwner \in FileBackend \cup CannotListen

\* The inductive invariant of the lock.
Inv == TypeOK /\ NothingKept /\ Routes

\* Nobody owns anything at the start.
LEMMA InitInv == Init => Inv
  BY ConstantsAssumption, OneDomain DEF Init, Inv, TypeOK, NothingKept, Routes, File!Init

\* A release gives up the one thing that was owned.
LEMMA DropInv ==
  ASSUME Inv, NEW p \in Procs, Release(p)
  PROVE  Inv'
<1> USE ConstantsAssumption, OneDomain DEF Inv, TypeOK, NothingKept, Routes, Goto
<1>1. CASE File!GiveUp(p) /\ UNCHANGED endpoint
  BY <1>1 DEF Release, Drop, File!GiveUp
<1>2. CASE /\ endpoint[NamespaceOf[p]] = p
           /\ endpoint' = [endpoint EXCEPT ![NamespaceOf[p]] = Nobody]
           /\ UNCHANGED fileOwner
  <2>1. TypeOK' /\ Routes'
    <3>1. pc' = [pc EXCEPT ![p] = "idle"]
      BY DEF Release, Drop
    <3>2. TypeOK'
      BY <1>2, <3>1
    <3>3. Routes'
      BY <1>2, <3>1
    <3>4. QED
      BY <3>2, <3>3
  <2>2. \A n \in Namespaces : endpoint'[n] # Nobody =>
          endpoint'[n] = endpoint[n] /\ endpoint[n] # p
    BY <1>2
  <2>3. fileOwner # p
    BY <1>2 DEF Release
  <2> QED
    BY <1>2, <2>1, <2>2, <2>3 DEF Release, Drop
<1> QED
  BY <1>1, <1>2 DEF Release, Drop

\* Every step keeps owners and what they own together.
LEMMA NextInv ==
  ASSUME Inv, [Next]_vars
  PROVE  Inv'
<1> USE ConstantsAssumption, OneDomain DEF Inv, TypeOK, NothingKept, Routes, Goto
<1>1. ASSUME NEW p \in Procs, Begin(p) PROVE Inv'
  BY <1>1 DEF Begin
<1>2. ASSUME NEW p \in Procs, Listens(p) PROVE Inv'
  <2>1. TypeOK' /\ Routes'
    BY <1>2 DEF Listens
  <2>2. fileOwner # p /\ \A n \in Namespaces : endpoint[n] # p
    BY <1>2 DEF Listens
  <2> QED
    BY <1>2, <2>1, <2>2 DEF Listens
<1>3. ASSUME NEW p \in Procs, ListenUnavailable(p) PROVE Inv'
  BY <1>3 DEF ListenUnavailable
<1>4. ASSUME NEW p \in Procs, AcquireFile(p) PROVE Inv'
  BY <1>4 DEF AcquireFile, File!Grant
<1>5. ASSUME NEW p \in Procs, GiveUpWaiting(p) PROVE Inv'
  BY <1>5 DEF GiveUpWaiting
<1>6. ASSUME NEW p \in Procs, Release(p) PROVE Inv'
  BY <1>6, DropInv
<1>7. CASE UNCHANGED vars
  BY <1>7 DEF vars
<1> QED
  BY <1>1, <1>2, <1>3, <1>4, <1>5, <1>6, <1>7 DEF Next

\* The invariant holds in every reachable state.
LEMMA InvHolds == Spec => []Inv
<1>1. Inv /\ [Next]_vars => Inv'
  BY NextInv
<1> QED
  BY <1>1, InitInv, PTL DEF Spec

\* In one domain there is one thing to own: the file, or one endpoint.
LEMMA InvExclusive == Inv => Exclusive
<1> SUFFICES ASSUME Inv, NEW p \in Domain, NEW q \in Domain,
                    pc[p] = "owner", pc[q] = "owner"
             PROVE  p = q
  BY DEF Exclusive
<1> USE ConstantsAssumption, OneDomain DEF Inv, TypeOK, NothingKept, Routes
<1>1. CASE Domain \subseteq FileBackend
  <2>1. endpoint[NamespaceOf[p]] # p /\ endpoint[NamespaceOf[q]] # q
    BY <1>1
  <2> QED
    BY <1>1, <2>1
<1>2. CASE /\ Domain \cap (FileBackend \cup CannotListen) = {}
           /\ \A x, y \in Domain : NamespaceOf[x] = NamespaceOf[y]
  <2>1. fileOwner # p /\ fileOwner # q
    BY <1>2
  <2>2. endpoint[NamespaceOf[p]] = p /\ endpoint[NamespaceOf[q]] = q
    BY <2>1
  <2> QED
    BY <1>2, <2>2
<1> QED
  BY <1>1, <1>2

-----------------------------------------------------------------------------
\* The types of acquireIndexLock's state (index-lock.ts:861-907).
THEOREM TypeCorrect == Spec => []TypeOK
<1>1. Inv => TypeOK
  BY DEF Inv
<1> QED
  BY <1>1, InvHolds, PTL

\* Whatever the mix of backends, a lock is held by its owner only, and no
\* release leaves anything behind (index-lock.ts:818-827, 897-907).
THEOREM NothingKeptHolds == Spec => []NothingKept
<1>1. Inv => NothingKept
  BY DEF Inv
<1> QED
  BY <1>1, InvHolds, PTL

\* To the writers of one domain (RUNBOOK.md:217-218) the write path is exclusive
\* whichever backend keeps the lock (index-lock.ts:8-10).
THEOREM ExclusiveHolds == Spec => []Exclusive
  BY InvExclusive, InvHolds, PTL

-----------------------------------------------------------------------------
(* To one domain every step is a step of the abstract lock.                *)

\* The owner, when there is one, is the one process in pc "owner".
LEMMA OwnerIs ==
  ASSUME Exclusive, NEW p \in Domain, pc[p] = "owner"
  PROVE  Owner = p
<1>1. \A q \in Domain : pc[q] = "owner" => q = p
  BY DEF Exclusive
<1> QED
  BY <1>1, ConstantsAssumption DEF Owner

\* A process that owns gives up or stays; another takes a free directory.
LEMMA StepImplements ==
  ASSUME Exclusive, Exclusive', Inv, NEW p \in Procs,
         \A q \in Procs \ {p} : pc'[q] = pc[q]
  PROVE  Lock!Next \/ Owner' = Owner
<1> USE ConstantsAssumption, OneDomain
<1>0. CASE p \notin Domain
  <2>1. Owner' = Owner
    BY <1>0 DEF Owner
  <2> QED
    BY <2>1
<1>1. CASE p \in Domain /\ pc[p] = "owner" /\ pc'[p] # "owner"
  <2>1. Owner = p
    BY <1>1, OwnerIs
  <2>2. \A q \in Domain : pc'[q] # "owner"
    BY <1>1 DEF Exclusive
  <2>3. Owner' = Nobody
    BY <2>2 DEF Owner
  <2> QED
    BY <1>1, <2>1, <2>3 DEF Lock!Next, Lock!GiveUp
<1>2. CASE p \in Domain /\ pc[p] # "owner" /\ pc'[p] = "owner"
  <2>1. \A q \in Domain : pc'[q] = "owner" => q = p
    BY <1>2 DEF Exclusive
  <2>2. Owner' = p
    BY <1>2, <2>1 DEF Owner
  <2>3. \A q \in Domain : pc[q] # "owner"
    BY <1>2, <2>1
  <2>4. Owner = Nobody
    BY <2>3 DEF Owner
  <2> QED
    BY <1>2, <2>2, <2>4 DEF Lock!Next, Lock!Grant
<1>3. CASE pc'[p] = "owner" <=> pc[p] = "owner"
  <2>1. \A q \in Domain : pc'[q] = "owner" <=> pc[q] = "owner"
    BY <1>3
  <2>2. CASE \E q \in Domain : pc[q] = "owner"
    <3> PICK q \in Domain : pc[q] = "owner"
      BY <2>2
    <3>1. \A r \in Domain : pc'[r] = "owner" => r = q
      BY <2>1 DEF Exclusive
    <3>2. Owner' = q
      BY <2>1, <3>1 DEF Owner
    <3> QED
      BY <3>2, OwnerIs
  <2>3. CASE \A q \in Domain : pc[q] # "owner"
    <3>1. Owner = Nobody
      BY <2>3 DEF Owner
    <3>2. Owner' = Nobody
      BY <2>1, <2>3 DEF Owner
    <3> QED
      BY <3>1, <3>2
  <2> QED
    BY <2>2, <2>3
<1> QED
  BY <1>0, <1>1, <1>2, <1>3

\* To the writers of one domain the backends together are the lock of the directory
\* (index-lock.ts:891-915).
THEOREM Refinement == Spec => ImplementsIndexLock
<1> USE ConstantsAssumption, OneDomain
<1>1. Init => Lock!Init
  BY DEF Init, Lock!Init, Owner
<1>2. Inv /\ Exclusive /\ Exclusive' /\ [Next]_vars => [Lock!Next]_Owner
  <2> SUFFICES ASSUME Inv, Exclusive, Exclusive', [Next]_vars
               PROVE  Lock!Next \/ Owner' = Owner
    OBVIOUS
  <2>1. ASSUME NEW p \in Procs,
               Begin(p) \/ Listens(p) \/ ListenUnavailable(p) \/ AcquireFile(p)
                 \/ GiveUpWaiting(p) \/ Release(p)
        PROVE  Lock!Next \/ Owner' = Owner
    <3>1. \A q \in Procs \ {p} : pc'[q] = pc[q]
      BY <2>1 DEF Inv, TypeOK, Begin, Listens, ListenUnavailable, AcquireFile,
                  GiveUpWaiting, Release, Drop, Goto
    <3> QED
      BY <3>1, StepImplements
  <2>2. CASE UNCHANGED vars
    BY <2>2 DEF vars, Owner
  <2> QED
    BY <2>1, <2>2 DEF Next
<1> QED
  BY <1>1, <1>2, InvHolds, ExclusiveHolds, PTL DEF Spec, ImplementsIndexLock, Lock!Spec

-----------------------------------------------------------------------------
(* Watch.                                                                  *)

Queues == [pending : SUBSET (Paths \cup {All}), overflowed : BOOLEAN,
           timer : BOOLEAN, initial : BOOLEAN, closed : BOOLEAN]
Watchers == [open : BOOLEAN, covers : SUBSET Paths,
             events : SUBSET Paths, arriving : SUBSET Paths]
RefreshRecords == [stage : {"none", "ignore", "arming", "swapped", "config",
                            "lock", "build", "write"},
                   paths : SUBSET (Paths \cup {All}), read : SUBSET Paths]
Loops == [phase : {"arming", "initial", "on", "closing", "done"},
          closed : BOOLEAN, stop : BOOLEAN,
          predicate : Rules \ {"bad"}, options : Options,
          ignoreValid : BOOLEAN, configValid : BOOLEAN, rearm : BOOLEAN]

Running == loop.phase \in {"initial", "on"}

\* How the phases of the loop, the queue and the refresh go together.
Life ==
  /\ queue.closed => loop.closed
  /\ loop.closed <=> loop.phase \in {"closing", "done"}
  /\ ~loop.closed => watcher.open
  /\ loop.phase \in {"arming", "initial"} => queue.initial
  /\ loop.phase = "arming" => watcher.covers = {} /\ watcher.events = {}
  /\ loop.phase = "on" => ~queue.initial
  /\ queue.initial /\ ~Idle => loop.phase = "initial"
  /\ loop.phase = "initial" => ~Idle
  /\ ~queue.initial /\ ~Idle => refresh.paths # {}
  /\ refresh.stage # "write" => refresh.read = {}
  /\ queue.timer => ~queue.initial /\ HasPendingWork(queue) /\ Idle

\* The stages at which a refresh has not read a control of its batch yet.
BeforeReload(c) ==
  IF c = Ignore THEN {"ignore"} ELSE {"ignore", "arming", "swapped", "config"}

\* A control that the loop does not hold is on its way to a reload.
ControlsHeld ==
  ~loop.closed => \A c \in Unheld :
    \/ c \in watcher.events \cup watcher.arriving \cup queue.pending \cup missed
    \/ c \in refresh.paths /\ refresh.stage \in BeforeReload(c)

\* The watcher covers what its predicate lets through, or will be replaced.
CoverageKept ==
  Running =>
    \/ Watched(loop.predicate) \subseteq watcher.covers
    \/ loop.rearm /\ (HasPendingWork(queue) \/ refresh.stage = "ignore")
    \/ refresh.stage = "arming"

\* A path the watcher should report and the index is behind on is due.
FilesKept ==
  Running =>
    (repo.behind \ (refresh.read \cup Ignored(loop.predicate) \cup missed) # {} => Due)

\* The inductive invariant of the watch.
Kept == WatchTypeOK /\ Life /\ ControlsHeld /\ CoverageKept /\ FilesKept
-----------------------------------------------------------------------------
\* It implies that no edit is forgotten.
LEMMA KeptForgetsNothing == Kept => NothingForgotten
<1> SUFFICES ASSUME Kept, On PROVE NothingForgotten
  BY DEF NothingForgotten
<1>1. Unheld \subseteq Coming \cup missed
  BY DEF Kept, ControlsHeld, On, Coming
<1>2. ASSUME repo.behind \ (refresh.read \cup Unseen) # {}, ~Due PROVE FALSE
  <2>1. PICK p \in repo.behind : p \notin refresh.read \cup Unseen
    BY <1>2
  <2>2. repo.behind \ (refresh.read \cup Ignored(loop.predicate) \cup missed) = {}
    BY <1>2 DEF Kept, FilesKept, Running, On
  <2>3. p \in Ignored(loop.predicate) /\ p \notin Ignored(repo.rule)
    BY <2>1, <2>2 DEF Unseen, Kept, WatchTypeOK, Controls
  <2>4. Ignore \in Unheld
    BY <2>3 DEF Unheld, Controls
  <2>5. Ignore \in missed
    BY <2>4, <1>2 DEF Kept, ControlsHeld, On, Due, HasPendingWork, BeforeReload
  <2> QED
    BY <2>1, <2>3, <2>5 DEF Unseen
<1> QED
  BY <1>1, <1>2 DEF NothingForgotten

\* A watch that starts has forgotten nothing.
LEMMA InitKept == WatchInit => Kept
  BY WatchAssumption DEF WatchInit, Kept, WatchTypeOK, Life, ControlsHeld, CoverageKept,
     FilesKept, Running, NoRefresh, Rules, Options, Paths, Controls, Ignore, Config,
     Idle, Unheld, HasPendingWork

\* What does not fit is dropped for a refresh of everything, a control never.
LEMMA AddedFacts ==
  ASSUME NEW q \in Queues, NEW new \in SUBSET (Paths \cup {All}), NEW r \in Added(q, new)
  PROVE  /\ r \in Queues
         /\ r.timer = q.timer /\ r.initial = q.initial /\ r.closed = q.closed
         /\ q.overflowed => r.overflowed
         /\ HasPendingWork(q) \/ new # {} => HasPendingWork(r)
         /\ (q.pending \cup new) \cap Controls \subseteq r.pending
<1> DEFINE all == q.pending \cup new
<1>1. CASE r = [q EXCEPT !.pending = all]
  BY <1>1 DEF Queues, HasPendingWork
<1>2. CASE \E kept \in SUBSET all : all \cap Controls \subseteq kept
             /\ r = [q EXCEPT !.pending = kept, !.overflowed = TRUE]
  BY <1>2 DEF Queues, HasPendingWork
<1> QED
  BY <1>1, <1>2 DEF Added

\* An event that is queued is pending, or a refresh of everything is.
LEMMA EnqueuedFacts ==
  ASSUME Kept, NEW p \in Paths \cup {All}, queue' \in Enqueued(p), ~queue.closed
  PROVE  /\ queue' \in Queues
         /\ queue'.initial = queue.initial /\ ~queue'.closed
         /\ queue'.timer => queue.timer \/ (~queue.initial /\ Idle)
         /\ HasPendingWork(queue')
         /\ (queue.pending \cup {p}) \cap Controls \subseteq queue'.pending
<1>1. queue \in Queues
  BY DEF Kept, WatchTypeOK, Queues
<1>2. PICK q \in Added(queue, {p}) : queue' = [q EXCEPT !.timer = @ \/ (~q.initial /\ Idle)]
  BY DEF Enqueued
<1>3. /\ q \in Queues /\ q.timer = queue.timer /\ q.initial = queue.initial
      /\ q.closed = queue.closed /\ HasPendingWork(q)
      /\ (queue.pending \cup {p}) \cap Controls \subseteq q.pending
  BY <1>1, <1>2, AddedFacts
<1> QED
  BY <1>2, <1>3 DEF Queues, HasPendingWork

\* The paths of a failed refresh come back, or a refresh of everything does.
LEMMA RequeuedFacts ==
  ASSUME Kept, queue' \in Requeued, ~queue.closed, refresh.paths # {}
  PROVE  /\ queue' \in Queues
         /\ queue'.initial = queue.initial /\ ~queue'.closed
         /\ HasPendingWork(queue')
         /\ (queue.pending \cup refresh.paths) \cap Controls \subseteq queue'.pending
<1>1. queue \in Queues /\ refresh.paths \in SUBSET (Paths \cup {All})
  BY DEF Kept, WatchTypeOK, Queues
<1>2. PICK q \in Added(queue, refresh.paths \ {All}) :
        queue' = [q EXCEPT !.timer = TRUE, !.overflowed = @ \/ All \in refresh.paths]
  BY DEF Requeued
<1>3. /\ q \in Queues /\ q.initial = queue.initial /\ q.closed = queue.closed
      /\ refresh.paths \ {All} # {} => HasPendingWork(q)
      /\ (queue.pending \cup (refresh.paths \ {All})) \cap Controls \subseteq q.pending
  BY <1>1, <1>2, AddedFacts
<1>4. All \notin Controls
  BY DEF All, Controls, Ignore, Config
<1> QED
  BY <1>2, <1>3, <1>4 DEF Queues, HasPendingWork

\* A refresh that fails puts back what it was to index, and the controls it had
\* still to read.
LEMMA FailsKeeps ==
  ASSUME Kept, ~Idle, NEW fatal \in BOOLEAN, NEW now \in Loops, NEW live \in Watchers,
         Fails(fatal, now, live),
         now.phase = loop.phase, now.closed = loop.closed,
         now.predicate = loop.predicate, now.options = loop.options,
         loop.rearm \/ refresh.stage = "arming" => now.rearm,
         live.open = watcher.open, live.covers = watcher.covers,
         live.events = watcher.events, live.arriving \subseteq watcher.arriving,
         missed \subseteq missed', missed' \subseteq Controls,
         Unheld \cap (watcher.arriving \ live.arriving) \subseteq watcher.events \cup missed',
         repo' = repo, faults' \in 0 .. MaxFaults
  PROVE  Kept'
<1> USE DEF Kept
<1>1. CASE queue.initial
  <2>1. loop'.closed /\ loop'.phase = "closing"
    BY <1>1 DEF Fails, Loops
  <2>2. PICK due \in BOOLEAN : due = HasPendingWork(queue)
    BY DEF HasPendingWork, WatchTypeOK
  <2>3. queue' = [queue EXCEPT !.initial = FALSE, !.timer = due]
    BY <1>1, <2>2 DEF Fails
  <2>4. WatchTypeOK'
    <3>0. loop' \in Loops
      BY ZenonT(60), <1>1 DEF Fails, Loops
    <3>1. watcher' \in Watchers
      BY <1>1 DEF Fails, Shut, Watchers
    <3>3. queue' \in Queues
      BY <2>3 DEF WatchTypeOK, Queues
    <3>4. refresh' \in RefreshRecords
      BY <1>1 DEF Fails, NoRefresh, RefreshRecords
    <3>5. QED
      BY <3>0, <3>1, <3>3, <3>4 DEF WatchTypeOK, Loops, Watchers, Queues, RefreshRecords
  <2>5. Life'
    <3>1. /\ ~queue'.initial /\ queue'.closed = queue.closed
          /\ queue'.timer = due
          /\ queue'.overflowed = queue.overflowed /\ queue'.pending = queue.pending
      BY <2>3 DEF WatchTypeOK
    <3>2. Idle'
      BY DEF Fails, Idle, NoRefresh
    <3>3. refresh'.read = {}
      BY DEF Fails, NoRefresh
    <3> QED
      BY <2>1, <2>2, <3>1, <3>2, <3>3 DEF Life, HasPendingWork
  <2> QED
    BY <2>1, <2>4, <2>5 DEF ControlsHeld, CoverageKept, FilesKept, Running
<1>2. CASE ~queue.initial /\ queue.closed
  <2>1. loop.closed /\ loop'.closed /\ loop'.phase = loop.phase /\ queue' = queue
    BY <1>2 DEF Fails, Requeued, Life, Loops
  <2>2. WatchTypeOK'
    <3>1. loop' \in Loops
      BY <1>2 DEF Fails, Loops
    <3> QED
      BY <1>2, <2>1, <3>1 DEF Fails, WatchTypeOK, Loops, Watchers, NoRefresh
  <2>3. Life'
    BY <1>2, <2>1, <2>2 DEF Fails, Life, WatchTypeOK, NoRefresh, HasPendingWork, Idle
  <2> QED
    BY <2>1, <2>2, <2>3 DEF ControlsHeld, CoverageKept, FilesKept, Running, Life
<1>3. CASE ~queue.initial /\ ~queue.closed
  <2>1. refresh.paths # {}
    BY <1>3 DEF Life
  <2>2. /\ queue' \in Queues
        /\ queue'.initial = queue.initial /\ ~queue'.closed
        /\ HasPendingWork(queue')
        /\ (queue.pending \cup refresh.paths) \cap Controls \subseteq queue'.pending
    BY <1>3, <2>1, RequeuedFacts DEF Fails
  <2>3. /\ loop' \in Loops /\ loop'.phase = loop.phase /\ loop'.closed = loop.closed
        /\ loop'.predicate = loop.predicate /\ loop'.options = loop.options
        /\ loop'.rearm = now.rearm
        /\ refresh' = NoRefresh /\ watcher' = live
    BY <1>3 DEF Fails, Loops
  <2>4. WatchTypeOK'
    BY <2>2, <2>3 DEF WatchTypeOK, Loops, Watchers, Queues, NoRefresh
  <2>5. HasPendingWork(queue)'
    BY <2>2 DEF HasPendingWork
  <2>6. Life'
    BY <1>3, <2>2, <2>3, <2>5 DEF Life, NoRefresh, Idle
  <2>7. ControlsHeld'
    BY <2>2, <2>3 DEF ControlsHeld, Unheld
  <2>8. CoverageKept'
    BY <1>3, <2>3, <2>5 DEF CoverageKept, Running, Life
  <2>9. FilesKept'
    BY <2>5 DEF FilesKept, Due
  <2> QED
    BY <2>4, <2>6, <2>7, <2>8, <2>9
<1> QED
  BY <1>1, <1>2, <1>3

-----------------------------------------------------------------------------
(* One lemma for each kind of step.                                        *)

\* An edit is noted by a watcher, or missed, or its refresh is due anyway.
LEMMA EditKeeps ==
  ASSUME Kept, NEW p \in Paths, Edit(p)
  PROVE  Kept'
<1> USE WatchAssumption DEF Kept
<1>1. PICK rule \in Rules, config \in Options \cup {"bad"}, seen \in BOOLEAN :
        LET noted == watcher.open /\ p \in watcher.covers
            fresh == seen /\ Arming /\ p \in Watched(loop.predicate)
        IN /\ (rule # repo.rule) <=> (p = Ignore)
           /\ (config # repo.config) <=> (p = Config)
           /\ seen => Arming
           /\ repo' = [rule |-> rule, config |-> config,
                       behind |-> repo.behind \cup {p}, edits |-> repo.edits + 1]
           /\ watcher' = [watcher EXCEPT
                !.events = IF noted THEN @ \cup {p} ELSE @,
                !.arriving = IF fresh THEN @ \cup {p} ELSE @]
           /\ missed' = IF p \in Controls /\ ~noted /\ ~fresh
                        THEN missed \cup {p} ELSE missed \ {p}
  BY DEF Edit
<1>2. /\ ~loop.closed /\ repo.edits < MaxEdits /\ refresh' = [refresh EXCEPT !.read = @ \ {p}]
      /\ queue' = queue /\ loop' = loop /\ faults' = faults
  BY DEF Edit
<1>3. /\ watcher'.open = watcher.open /\ watcher'.covers = watcher.covers
      /\ watcher.events \subseteq watcher'.events
      /\ watcher.arriving \subseteq watcher'.arriving
      /\ watcher' \in Watchers
  BY <1>1 DEF WatchTypeOK, Watchers
<1>4. p \in watcher'.events \cup watcher'.arriving \cup missed' \/ p \in Files
  BY <1>1 DEF Paths, WatchTypeOK
<1>5. repo.edits + 1 \in 0 .. MaxEdits
  BY <1>2 DEF WatchTypeOK
<1>6. /\ refresh'.stage = refresh.stage /\ refresh'.paths = refresh.paths
      /\ refresh'.read = refresh.read \ {p} /\ refresh'.read \subseteq Paths
  BY <1>2 DEF WatchTypeOK
<1>7. WatchTypeOK'
  BY <1>1, <1>2, <1>3, <1>5, <1>6 DEF WatchTypeOK, Watchers
<1>8. Life'
  BY <1>1, <1>2, <1>3, <1>6 DEF Life, Idle, HasPendingWork, WatchTypeOK
<1>9. ControlsHeld'
  <2>1. \A c \in Controls \ {p} : (c \in Unheld' => c \in Unheld) /\ (c \in missed => c \in missed')
    BY <1>1, <1>2 DEF Unheld, Controls
  <2> QED
    BY <1>2, <1>3, <1>4, <1>6, <2>1 DEF ControlsHeld, Unheld, Controls
<1>10. CoverageKept'
  BY <1>2, <1>3, <1>6 DEF CoverageKept, Running
<1>11. FilesKept'
  <2> SUFFICES ASSUME Running',
                      NEW q \in repo'.behind,
                      q \notin refresh'.read \cup Ignored(loop'.predicate) \cup missed'
               PROVE  Due'
    BY DEF FilesKept
  <2>1. Due => Due'
    BY <1>2, <1>3, <1>6 DEF Due, HasPendingWork
  <2>2. CASE q = p
    <3>1. CASE q \in Files /\ q \notin watcher'.events
      <4>1. watcher.open /\ q \in Watched(loop.predicate) /\ q \notin watcher.covers
        BY <1>1, <1>2, <2>2, <3>1 DEF Life, Watched, WatchTypeOK
      <4> QED
        BY <1>2, <2>1, <4>1 DEF CoverageKept, Running, Due
    <3> QED
      BY <1>4, <2>2, <3>1 DEF Due
  <2>3. CASE q # p
    BY <1>1, <1>2, <1>6, <2>1, <2>3 DEF FilesKept, Running
  <2> QED
    BY <2>2, <2>3
<1> QED
  BY <1>7, <1>8, <1>9, <1>10, <1>11

\* A delivered event is pending, unless the queue is closed.
LEMMA DeliverKeeps ==
  ASSUME Kept, NEW p \in Paths, Deliver(p)
  PROVE  Kept'
<1> USE DEF Kept
<1>1. /\ watcher' \in Watchers
      /\ watcher'.open = watcher.open /\ watcher'.covers = watcher.covers
      /\ watcher'.events \subseteq watcher.events
      /\ watcher.events \cup watcher.arriving
           \subseteq watcher'.events \cup watcher'.arriving \cup {p}
  BY DEF Deliver, WatchTypeOK, Watchers
<1>2. /\ repo' = repo /\ refresh' = refresh /\ loop' = loop
      /\ missed' = missed /\ faults' = faults /\ queue' \in Enqueued(p)
  BY DEF Deliver
<1>3. CASE queue.closed
  <2>1. queue' = queue /\ loop.closed
    BY <1>2, <1>3 DEF Enqueued, Life
  <2>2. WatchTypeOK' /\ Life'
    BY <1>1, <1>2, <2>1 DEF WatchTypeOK, Watchers, Life, Idle, HasPendingWork
  <2> QED
    BY <1>2, <2>1, <2>2 DEF ControlsHeld, CoverageKept, FilesKept, Running, Life
<1>4. CASE ~queue.closed
  <2>1. /\ queue' \in Queues
        /\ queue'.initial = queue.initial /\ ~queue'.closed
        /\ queue'.timer => queue.timer \/ (~queue.initial /\ Idle)
        /\ HasPendingWork(queue')
        /\ (queue.pending \cup {p}) \cap Controls \subseteq queue'.pending
    BY <1>2, <1>4, EnqueuedFacts
  <2>2. HasPendingWork(queue)'
    BY <2>1 DEF HasPendingWork
  <2>3. WatchTypeOK'
    BY <1>1, <1>2, <2>1 DEF WatchTypeOK, Watchers, Queues
  <2>4. Life'
    BY <1>1, <1>2, <2>1, <2>2 DEF Life, Idle
  <2>5. ControlsHeld'
    BY <1>1, <1>2, <2>1 DEF ControlsHeld, Unheld
  <2>6. CoverageKept' /\ FilesKept'
    BY <1>1, <1>2, <2>2 DEF CoverageKept, FilesKept, Running, Due
  <2> QED
    BY <2>3, <2>4, <2>5, <2>6
<1> QED
  BY <1>3, <1>4

\* What an error of the watcher loses is read by the refresh it asks for.
LEMMA WatcherErrorKeeps ==
  ASSUME Kept, WatcherError
  PROVE  Kept'
<1> USE DEF Kept
<1>1. /\ Running /\ ~loop.closed /\ ~queue.closed
      /\ repo' = repo /\ refresh' = refresh /\ faults' \in 0 .. MaxFaults
  BY WatchAssumption DEF WatcherError, Running, Life, Fault, WatchTypeOK
<1>2. /\ watcher' \in Watchers
      /\ watcher'.open = watcher.open /\ watcher'.events = {}
      /\ watcher'.covers = {} /\ watcher'.arriving = watcher.arriving
  BY DEF WatcherError, WatchTypeOK, Watchers
<1>3. /\ loop' \in Loops /\ loop'.phase = loop.phase /\ loop'.closed = loop.closed
      /\ loop'.predicate = loop.predicate /\ loop'.options = loop.options /\ loop'.rearm
  BY DEF WatcherError, WatchTypeOK, Loops
<1>4. /\ queue' \in Queues
      /\ queue'.initial = queue.initial /\ ~queue'.closed
      /\ queue'.timer => queue.timer \/ (~queue.initial /\ Idle)
      /\ HasPendingWork(queue')
      /\ (queue.pending \cup {All}) \cap Controls \subseteq queue'.pending
  BY <1>1, EnqueuedFacts DEF WatcherError
<1>5. missed' = missed \cup (Unheld \cap watcher.events) /\ missed' \subseteq Controls
  BY DEF WatcherError, Unheld, WatchTypeOK
<1>6. HasPendingWork(queue)'
  BY <1>4 DEF HasPendingWork
<1>7. WatchTypeOK'
  BY <1>1, <1>2, <1>3, <1>4, <1>5 DEF WatchTypeOK, Watchers, Loops, Queues
<1>8. Life'
  BY <1>1, <1>2, <1>3, <1>4, <1>6 DEF Life, Idle, Running
<1>9. ControlsHeld'
  BY <1>1, <1>2, <1>3, <1>4, <1>5 DEF ControlsHeld, Unheld
<1>10. CoverageKept' /\ FilesKept'
  BY <1>3, <1>6 DEF CoverageKept, FilesKept, Due
<1> QED
  BY <1>7, <1>8, <1>9, <1>10

\* The steps up to the lock: controls are read again, the watcher is replaced.
LEMMA ReloadsKeep ==
  ASSUME Kept, FirstReady \/ Drain \/ ReloadIgnore \/ Swap \/ Swapped \/ ReloadConfig
  PROVE  Kept'
<1> USE DEF Kept
<1>1. CASE FirstReady
  <2>1. loop.phase = "arming" /\ queue.initial /\ ~loop.closed /\ Idle
    BY <1>1 DEF FirstReady, Life
  <2>2. WatchTypeOK'
    <3>1. loop' \in Loops
      BY <1>1 DEF FirstReady, WatchTypeOK, Loops
    <3>2. watcher' \in Watchers
      BY <1>1 DEF FirstReady, WatchTypeOK, Watchers, Watched
    <3>3. refresh' \in RefreshRecords
      BY <1>1 DEF FirstReady, NoRefresh, RefreshRecords
    <3>4. QED
      BY <1>1, <3>1, <3>2, <3>3 DEF FirstReady, WatchTypeOK, Loops, Watchers, RefreshRecords
  <2>3. Life'
    BY <1>1, <2>1 DEF FirstReady, Life, Idle, WatchTypeOK, NoRefresh, HasPendingWork
  <2>4. ControlsHeld'
    BY <1>1, <2>1 DEF FirstReady, ControlsHeld, Unheld, WatchTypeOK, NoRefresh, Life,
       Idle, BeforeReload
  <2>5. CoverageKept' /\ FilesKept'
    BY <1>1 DEF FirstReady, CoverageKept, FilesKept, Due, Watched, WatchTypeOK, NoRefresh
  <2> QED
    BY <2>2, <2>3, <2>4, <2>5
<1>2. CASE Drain
  <2>1. ~queue.initial /\ HasPendingWork(queue) /\ Idle
    BY <1>2 DEF Drain, Life
  <2>2. WatchTypeOK'
    <3>1. queue' \in Queues
      BY <1>2 DEF Drain, WatchTypeOK, Queues
    <3>2. refresh' \in RefreshRecords
      BY <1>2 DEF Drain, WatchTypeOK, RefreshRecords
    <3>3. QED
      BY <1>2, <3>1, <3>2 DEF Drain, WatchTypeOK, Queues, RefreshRecords
  <2>3. refresh'.paths # {}
    BY <1>2, <2>1 DEF Drain, HasPendingWork
  <2>4. Life'
    BY <1>2, <2>1, <2>3 DEF Drain, Life, Idle, WatchTypeOK, HasPendingWork
  <2>5. ControlsHeld'
    BY <1>2, <2>1 DEF Drain, ControlsHeld, Unheld, Idle, BeforeReload
  <2>6. CoverageKept' /\ FilesKept'
    BY <1>2, <2>1 DEF Drain, CoverageKept, FilesKept, Due, Running, Idle
  <2> QED
    BY <2>2, <2>4, <2>5, <2>6
<1>3. CASE ReloadIgnore
  <2>1. PICK reload \in BOOLEAN, rearm \in BOOLEAN :
          /\ reload = MustReload(Ignore, loop.ignoreValid)
          /\ rearm = (reload \/ loop.rearm)
          /\ reload => repo.rule # "bad"
          /\ loop' = [loop EXCEPT !.predicate = IF reload THEN repo.rule ELSE @,
                                  !.ignoreValid = TRUE, !.rearm = FALSE]
          /\ refresh' = [refresh EXCEPT
               !.stage = IF rearm /\ ~loop.closed THEN "arming" ELSE "config"]
    BY <1>3 DEF ReloadIgnore, MustReload, WatchTypeOK
  <2>2. /\ refresh.stage = "ignore" /\ repo' = repo /\ watcher' = watcher
        /\ queue' = queue /\ missed' = missed /\ faults' = faults
    BY <1>3 DEF ReloadIgnore
  <2>3. loop' \in Loops
    BY <2>1 DEF Loops, WatchTypeOK
  <2>4. WatchTypeOK'
    BY <2>1, <2>2, <2>3 DEF WatchTypeOK, Loops
  <2>5. Life'
    BY <2>1, <2>2 DEF Life, Idle, WatchTypeOK, HasPendingWork
  <2>6. ControlsHeld'
    BY ZenonT(60), <2>1, <2>2 DEF ControlsHeld, Unheld, BeforeReload, MustReload, WatchTypeOK, Controls
  <2>7. CoverageKept' /\ FilesKept'
    BY <2>1, <2>2 DEF CoverageKept, FilesKept, Due, Running, WatchTypeOK, Life
  <2> QED
    BY <2>4, <2>5, <2>6, <2>7
<1>4. CASE Swap
  <2>1. WatchTypeOK'
    BY <1>4 DEF Swap, WatchTypeOK, Watched, Unheld
  <2>2. Life'
    BY <1>4 DEF Swap, Life, Idle, WatchTypeOK, HasPendingWork
  <2>3. ControlsHeld'
    BY <1>4 DEF Swap, ControlsHeld, Unheld, BeforeReload, WatchTypeOK
  <2>4. CoverageKept' /\ FilesKept'
    BY <1>4 DEF Swap, CoverageKept, FilesKept, Due, Running, WatchTypeOK
  <2> QED
    BY <2>1, <2>2, <2>3, <2>4
<1>5. CASE Swapped
  <2>1. watcher' = IF loop.closed THEN Shut(watcher) ELSE watcher
    BY <1>5 DEF Swapped
  <2>2. WatchTypeOK'
    <3>1. watcher' \in Watchers
      BY <2>1 DEF Shut, WatchTypeOK, Watchers
    <3> QED
      BY <1>5, <3>1 DEF Swapped, WatchTypeOK, Watchers
  <2>3. Life'
    BY <1>5, <2>1 DEF Swapped, Life, Idle, WatchTypeOK, HasPendingWork, Shut
  <2>4. ControlsHeld'
    BY <1>5, <2>1 DEF Swapped, ControlsHeld, Unheld, BeforeReload, WatchTypeOK
  <2>5. CoverageKept' /\ FilesKept'
    BY <1>5, <2>1 DEF Swapped, CoverageKept, FilesKept, Due, Running, WatchTypeOK, Life
  <2> QED
    BY <2>2, <2>3, <2>4, <2>5
<1>6. CASE ReloadConfig
  <2>1. PICK reload \in BOOLEAN :
          /\ reload = MustReload(Config, loop.configValid)
          /\ reload => repo.config # "bad"
          /\ loop' = [loop EXCEPT !.options = IF reload THEN repo.config ELSE @,
                                  !.configValid = TRUE]
    BY <1>6 DEF ReloadConfig, MustReload, WatchTypeOK
  <2>2. /\ refresh.stage = "config" /\ refresh' = [refresh EXCEPT !.stage = "lock"]
        /\ repo' = repo /\ watcher' = watcher
        /\ queue' = queue /\ missed' = missed /\ faults' = faults
    BY <1>6 DEF ReloadConfig
  <2>3. loop' \in Loops
    BY <2>1 DEF Loops, WatchTypeOK
  <2>4. WatchTypeOK'
    BY <2>1, <2>2, <2>3 DEF WatchTypeOK, Loops
  <2>5. Life'
    BY <2>1, <2>2 DEF Life, Idle, WatchTypeOK, HasPendingWork
  <2>6. ControlsHeld'
    BY ZenonT(60), <2>1, <2>2 DEF ControlsHeld, Unheld, BeforeReload, MustReload, WatchTypeOK, Controls,
       Ignore, Config
  <2>7. CoverageKept' /\ FilesKept'
    BY <2>1, <2>2 DEF CoverageKept, FilesKept, Due, Running, WatchTypeOK, Life
  <2> QED
    BY <2>4, <2>5, <2>6, <2>7
<1> QED
  BY <1>1, <1>2, <1>3, <1>4, <1>5, <1>6

\* The analysis: what it did not read is due, or waits for an edit of a control
\* that cannot be read.
LEMMA AnalysisKeeps ==
  ASSUME Kept, Locked \/ Scan \/ Succeed
  PROVE  Kept'
<1> USE DEF Kept
<1>1. CASE Locked
  <2>1. /\ refresh.stage = "lock" /\ refresh' = [refresh EXCEPT !.stage = "build"]
        /\ repo' = repo /\ watcher' = watcher /\ queue' = queue /\ loop' = loop
        /\ missed' = missed /\ faults' = faults
    BY <1>1 DEF Locked
  <2>2. WatchTypeOK' /\ Life'
    BY <2>1 DEF WatchTypeOK, Life, Idle, HasPendingWork
  <2>3. ControlsHeld' /\ CoverageKept' /\ FilesKept'
    BY <2>1 DEF ControlsHeld, Unheld, BeforeReload, CoverageKept, FilesKept, Due, Running,
       WatchTypeOK, HasPendingWork
  <2> QED
    BY <2>2, <2>3
<1>2. CASE Scan
  <2>1. /\ refresh.stage = "build" /\ repo' = repo /\ watcher' = watcher
        /\ queue' = queue /\ loop' = loop /\ missed' = missed /\ faults' = faults
        /\ refresh' = [refresh EXCEPT !.stage = "write",
             !.read = repo.behind \ ((IF repo.rule = "bad" THEN {Ignore} ELSE {})
                                     \cup (Unheld \cap {Config}))]
    BY <1>2 DEF Scan
  <2>2. WatchTypeOK' /\ Life'
    BY ZenonT(60), <2>1 DEF WatchTypeOK, Life, Idle, HasPendingWork
  <2>3. ControlsHeld' /\ CoverageKept'
    BY <2>1 DEF ControlsHeld, Unheld, BeforeReload, CoverageKept, Running, WatchTypeOK,
       HasPendingWork
  <2>4. FilesKept'
    <3> SUFFICES ASSUME Running', NEW p \in repo'.behind,
                        p \notin refresh'.read \cup Ignored(loop'.predicate) \cup missed'
                 PROVE  Due'
      BY DEF FilesKept
    <3>1. p \in Unheld
      BY <2>1 DEF WatchTypeOK, Unheld, Controls, Ignore, Config
    <3>2. p \in watcher'.events \cup watcher'.arriving \cup queue'.pending
      BY <2>1, <3>1 DEF Running, Life, ControlsHeld, BeforeReload
    <3> QED
      BY <3>2 DEF Due, HasPendingWork
  <2> QED
    BY <2>2, <2>3, <2>4
<1>3. CASE Succeed
  <2>1. /\ refresh.stage = "write" /\ watcher' = watcher /\ missed' = missed
        /\ faults' = faults /\ refresh' = NoRefresh
        /\ repo' = [repo EXCEPT !.behind = @ \ refresh.read]
        /\ loop' = [loop EXCEPT !.phase = IF queue.initial THEN "on" ELSE @]
        /\ queue' = [queue EXCEPT !.initial = FALSE,
                                  !.timer = ~queue.closed /\ HasPendingWork(queue)]
    BY <1>3 DEF Succeed
  <2>2. HasPendingWork(queue) \in BOOLEAN
    BY DEF HasPendingWork, WatchTypeOK
  <2>3. HasPendingWork(queue)' = HasPendingWork(queue)
    BY <2>1 DEF HasPendingWork, WatchTypeOK
  <2>4. WatchTypeOK'
    BY <2>1, <2>2 DEF WatchTypeOK, NoRefresh
  <2>5. queue.initial => loop.phase = "initial" /\ ~loop.closed
    BY <2>1 DEF Life, Idle
  <2>6. Life'
    BY <2>1, <2>3, <2>5 DEF Life, Idle, NoRefresh, WatchTypeOK
  <2>7. ControlsHeld' /\ CoverageKept'
    BY <2>1, <2>3, <2>5 DEF ControlsHeld, Unheld, BeforeReload, CoverageKept, Running,
       WatchTypeOK, Life
  <2>8. FilesKept'
    BY <2>1, <2>3, <2>5 DEF FilesKept, Running, Due, NoRefresh, WatchTypeOK
  <2> QED
    BY <2>4, <2>6, <2>7, <2>8
<1> QED
  BY <1>1, <1>2, <1>3

\* The steps that fail a refresh.
LEMMA FailuresKeep ==
  ASSUME Kept, IgnoreInvalid \/ ArmFails \/ ConfigInvalid \/ LockTimeout \/ AnalysisFails
  PROVE  Kept'
<1> USE DEF Kept
<1>0. /\ loop \in Loops /\ watcher \in Watchers /\ missed \subseteq Controls
      /\ faults \in 0 .. MaxFaults
  BY DEF WatchTypeOK, Loops, Watchers
<1>1. CASE IgnoreInvalid
  <2> DEFINE now == [loop EXCEPT !.ignoreValid = FALSE]
  <2>1. now \in Loops
    BY <1>0 DEF Loops
  <2>2. ~Idle /\ refresh.stage # "arming" /\ Fails(FALSE, now, watcher)
    BY <1>1 DEF IgnoreInvalid, Idle
  <2> QED
    BY <1>0, <1>1, <2>1, <2>2, FailsKeeps DEF IgnoreInvalid, Loops
<1>2. CASE ArmFails
  <2> DEFINE now == [loop EXCEPT !.rearm = TRUE]
             live == [watcher EXCEPT !.arriving = {}]
  <2>1. now \in Loops /\ live \in Watchers
    BY <1>0 DEF Loops, Watchers
  <2>2. ~Idle /\ Fails(FALSE, now, live)
    BY <1>2 DEF ArmFails, Idle
  <2>3. faults' \in 0 .. MaxFaults
    BY <1>0, <1>2, WatchAssumption DEF ArmFails, Fault
  <2>4. /\ missed' = missed \cup (Unheld \cap (watcher.arriving \ watcher.events))
        /\ missed' \subseteq Controls
    BY <1>0, <1>2 DEF ArmFails, Unheld
  <2>5. /\ live.open = watcher.open /\ live.covers = watcher.covers
        /\ live.events = watcher.events /\ live.arriving = {}
    BY <1>0 DEF Watchers
  <2>6. /\ now.phase = loop.phase /\ now.closed = loop.closed /\ now.rearm
        /\ now.predicate = loop.predicate /\ now.options = loop.options
    BY <1>0 DEF Loops
  <2>7. repo' = repo
    BY <1>2 DEF ArmFails
  <2> HIDE DEF now, live
  <2> QED
    BY <2>1, <2>2, <2>3, <2>4, <2>5, <2>6, <2>7, FailsKeeps
<1>3. CASE ConfigInvalid
  <2> DEFINE now == [loop EXCEPT !.configValid = FALSE]
  <2>1. now \in Loops
    BY <1>0 DEF Loops
  <2>2. ~Idle /\ refresh.stage # "arming" /\ Fails(FALSE, now, watcher)
    BY <1>3 DEF ConfigInvalid, Idle
  <2> QED
    BY <1>0, <1>3, <2>1, <2>2, FailsKeeps DEF ConfigInvalid, Loops
<1>4. CASE LockTimeout
  <2>1. ~Idle /\ refresh.stage # "arming" /\ Fails(FALSE, loop, watcher)
    BY <1>4 DEF LockTimeout, Idle
  <2> QED
    BY <1>0, <1>4, <2>1, FailsKeeps DEF LockTimeout
<1>5. CASE AnalysisFails
  <2>1. PICK fatal \in BOOLEAN : Fails(fatal, loop, watcher)
    BY <1>5 DEF AnalysisFails
  <2>2. ~Idle /\ refresh.stage # "arming" /\ repo' = repo /\ missed' = missed
    BY <1>5 DEF AnalysisFails, Idle
  <2>3. faults' \in 0 .. MaxFaults
    BY <1>0, <1>5, WatchAssumption DEF AnalysisFails, Fault
  <2> QED
    BY <1>0, <2>1, <2>2, <2>3, FailsKeeps
<1> QED
  BY <1>1, <1>2, <1>3, <1>4, <1>5

\* The steps to the end of the command, after which nothing is promised.
LEMMA EndsKeep ==
  ASSUME Kept, Stop \/ FirstFails \/ Closes
  PROVE  Kept'
<1> USE DEF Kept
<1>0. loop \in Loops /\ watcher \in Watchers /\ queue \in Queues
  BY DEF WatchTypeOK, Loops, Watchers, Queues
<1>1. CASE Stop
  <2>1. /\ loop' = [loop EXCEPT !.stop = TRUE] /\ repo' = repo /\ watcher' = watcher
        /\ queue' = queue /\ refresh' = refresh /\ missed' = missed /\ faults' = faults
    BY <1>1 DEF Stop
  <2>2. loop' \in Loops
    BY <1>0, <2>1 DEF Loops
  <2>3. WatchTypeOK' /\ Life'
    BY <2>1, <2>2 DEF WatchTypeOK, Loops, Life, Idle, HasPendingWork
  <2>4. ControlsHeld' /\ CoverageKept' /\ FilesKept'
    BY <2>1 DEF ControlsHeld, Unheld, CoverageKept, FilesKept, Due, Running, WatchTypeOK,
       HasPendingWork
  <2> QED
    BY <2>3, <2>4
<1>2. CASE FirstFails
  <2>1. /\ loop' = [loop EXCEPT !.phase = "closing", !.closed = TRUE]
        /\ watcher' = [Shut(watcher) EXCEPT !.arriving = {}]
        /\ faults' \in 0 .. MaxFaults /\ repo' = repo /\ queue' = queue
        /\ refresh' = refresh /\ missed' = missed
        /\ Idle /\ queue.initial /\ ~queue.closed
    BY <1>2, WatchAssumption DEF FirstFails, Fault, WatchTypeOK, Life
  <2>2. loop' \in Loops /\ loop'.closed /\ loop'.phase = "closing"
    BY <1>0, <2>1 DEF Loops
  <2>3. watcher' \in Watchers
    BY <1>0, <2>1 DEF Watchers, Shut
  <2>4. WatchTypeOK' /\ Life'
    BY <2>1, <2>2, <2>3 DEF WatchTypeOK, Loops, Watchers, Life, Idle, HasPendingWork
  <2> QED
    BY <2>2, <2>4 DEF ControlsHeld, CoverageKept, FilesKept, Running
<1>3. CASE Close
  <2>1. /\ loop.phase = "on" /\ loop' = [loop EXCEPT !.phase = "closing", !.closed = TRUE]
        /\ watcher' = Shut(watcher) /\ repo' = repo /\ queue' = queue
        /\ refresh' = refresh /\ missed' = missed /\ faults' = faults
    BY <1>3 DEF Close
  <2>2. loop' \in Loops /\ loop'.closed /\ loop'.phase = "closing"
    BY <1>0, <2>1 DEF Loops
  <2>3. watcher' \in Watchers
    BY <1>0, <2>1 DEF Watchers, Shut
  <2>4. WatchTypeOK' /\ Life'
    BY <2>1, <2>2, <2>3 DEF WatchTypeOK, Loops, Watchers, Life, Idle, HasPendingWork
  <2> QED
    BY <2>2, <2>4 DEF ControlsHeld, CoverageKept, FilesKept, Running
<1>4. CASE CloseQueue
  <2>1. /\ loop.closed /\ loop.phase = "closing"
        /\ queue' = [queue EXCEPT !.closed = TRUE, !.timer = FALSE,
                                  !.pending = {}, !.overflowed = FALSE]
        /\ loop' = loop /\ watcher' = watcher /\ repo' = repo
        /\ refresh' = refresh /\ missed' = missed /\ faults' = faults
    BY <1>4 DEF CloseQueue, Life
  <2>2. queue' \in Queues
    BY <1>0, <2>1 DEF Queues
  <2>3. WatchTypeOK' /\ Life'
    BY <2>1, <2>2 DEF WatchTypeOK, Queues, Life, Idle, HasPendingWork
  <2> QED
    BY <2>1, <2>3 DEF ControlsHeld, CoverageKept, FilesKept, Running
<1>5. CASE End
  <2>1. /\ loop.closed /\ loop.phase = "closing" /\ Idle
        /\ loop' = [loop EXCEPT !.phase = "done"]
        /\ queue' = queue /\ watcher' = watcher /\ repo' = repo
        /\ refresh' = refresh /\ missed' = missed /\ faults' = faults
    BY <1>5 DEF End, Life
  <2>2. loop' \in Loops /\ loop'.closed /\ loop'.phase = "done"
    BY <1>0, <2>1 DEF Loops
  <2>3. WatchTypeOK' /\ Life'
    BY <2>1, <2>2 DEF WatchTypeOK, Loops, Life, Idle, HasPendingWork
  <2> QED
    BY <2>2, <2>3 DEF ControlsHeld, CoverageKept, FilesKept, Running
<1> QED
  BY <1>1, <1>2, <1>3, <1>4, <1>5 DEF Closes

\* Every step keeps track of every edit.
LEMMA WatchNextKept ==
  ASSUME Kept, [WatchNext]_allVars
  PROVE  Kept'
<1>1. ASSUME NEW p \in Paths, Edit(p) PROVE Kept'
  BY <1>1, EditKeeps
<1>2. CASE Reports
  BY <1>2, DeliverKeeps DEF Reports
<1>3. CASE Drain
  BY <1>3, ReloadsKeep
<1>4. CASE Refreshes
  BY <1>4, ReloadsKeep, AnalysisKeeps, FailuresKeep DEF Refreshes
<1>5. CASE Closes \/ FirstFails \/ Stop
  BY <1>5, EndsKeep
<1>6. CASE WatcherError
  BY <1>6, WatcherErrorKeeps
<1>7. CASE ArmFails \/ AnalysisFails
  BY <1>7, FailuresKeep
<1>8. CASE Others \/ UNCHANGED allVars
  <2>1. UNCHANGED watchVars
    BY <1>8 DEF Others, allVars
  <2> QED
    BY <2>1 DEF watchVars, Kept, WatchTypeOK, Life, ControlsHeld, CoverageKept, FilesKept,
       Unheld, Running, Due, HasPendingWork, Idle
<1> QED
  BY <1>1, <1>2, <1>3, <1>4, <1>5, <1>6, <1>7, <1>8 DEF WatchNext

\* analyze-watch.ts:286-290: whatever the tree, the bound of the queue and the
\* number of edits and failures, every edit the index has not read has a refresh
\* to come that reads it, and the loop holds the controls of the tree or is about
\* to read them again.
THEOREM WatchInvHolds == WatchSpec => []WatchInv
<1>1. Kept /\ [WatchNext]_allVars => Kept'
  BY WatchNextKept
<1>2. Kept => WatchInv
  BY KeptForgetsNothing DEF WatchInv, Kept
<1> QED
  BY <1>1, <1>2, InitKept, PTL DEF WatchSpec
-----------------------------------------------------------------------------
(* To the other writers the watch is one of them.                          *)

\* What a step of the watch does to the lock is a step of acquireIndexLock or of
\* its release, or nothing.
LEMMA WatchStepIsALockStep ==
  ASSUME WatchNext
  PROVE  [Next]_vars
<1> USE WatchAssumption, OneDomain
<1>w. Watching \in Procs
  OBVIOUS
<1>1. ASSUME NEW p \in Paths, Edit(p) PROVE [Next]_vars
  BY <1>1 DEF Edit, lockVars
<1>2. CASE Reports \/ Drain
  BY <1>2 DEF Reports, Deliver, Drain, lockVars
<1>3. CASE Refreshes
  <2>1. CASE FirstReady \/ ReloadIgnore \/ IgnoreInvalid \/ Swap \/ Swapped
               \/ ConfigInvalid \/ Scan
    BY <2>1 DEF FirstReady, ReloadIgnore, IgnoreInvalid, Swap, Swapped, ConfigInvalid,
       Scan, lockVars
  <2>2. CASE ReloadConfig \/ Locked \/ LockTimeout \/ Succeed
    BY <1>w, <2>2 DEF ReloadConfig, Locked, LockTimeout, Succeed, Next
  <2> QED
    BY <1>3, <2>1, <2>2 DEF Refreshes
<1>4. CASE Closes
  BY <1>4 DEF Closes, Close, CloseQueue, End, lockVars
<1>5. CASE WatcherError \/ FirstFails \/ ArmFails \/ Stop
  BY <1>5 DEF WatcherError, FirstFails, ArmFails, Stop, lockVars
<1>6. CASE AnalysisFails
  BY <1>w, <1>6 DEF AnalysisFails, Next
<1>7. CASE Others
  BY <1>7 DEF Others, Next
<1> QED
  BY <1>1, <1>2, <1>3, <1>4, <1>5, <1>6, <1>7 DEF WatchNext

\* The watch acquires and releases the index lock as acquireIndexLock has it
\* (analyze-watch.ts runs runFullAnalysis for every refresh).
LEMMA WatchUsesTheLock == WatchSpec => Spec
<1>1. WatchInit => Init
  BY DEF WatchInit
<1>2. [WatchNext]_allVars => [Next]_vars
  BY WatchStepIsALockStep DEF allVars, lockVars
<1> QED
  BY <1>1, <1>2, PTL DEF WatchSpec, Spec

\* While the watch refreshes the index no other writer of its domain does
\* (index-lock.ts:8-10).
THEOREM WatchExclusive == WatchSpec => []Exclusive
  BY WatchUsesTheLock, ExclusiveHolds, PTL

\* With a watch among the writers the backends are still the one lock of the
\* directory.
THEOREM WatchRefinement == WatchSpec => ImplementsIndexLock
  BY WatchUsesTheLock, Refinement, PTL
=============================================================================
